# A TLA+ verification of the Draenor 6.2.3 game server

The repository is a TrinityCore-derived server for World of Warcraft 6.2.3: about
1.3 million lines of C++, of which the largest part is content (scripts, spells,
tables). This project models the parts that carry the server's own machinery:
the threads of the world tick, the database pool every save goes through,
the life of dungeon instances across memory, tables and restarts, and what moves
items and money between players: trades, mails and auctions, in memory and in
the tables. All paths below are relative to `src/src/server/`.

## 1. Inventory

| Component | State it keeps | Operations | Hard behaviour | Correct means |
|---|---|---|---|---|
| **Map updater and world tick** (`game/Maps/MapUpdater.cpp`, `shared/Threading/ProducerConsumerQueue.h`, `MapManager::Update`, `MapInstanced::Update`, `WorldRunnable::run`) | request queue, `pending_requests`, cancelation token, worker threads, criteria queues per player, critical operations | schedule, pop, call, finish, wait, deactivate; add and run criteria and operations | workers push nested requests while the world thread waits; stop at any moment; spurious wake-ups | a barrier that really is one; each map updated once per tick; nothing lost; always stops |
| **Database worker pool** (`shared/Database/`) | queue of operations, connections, open transactions on the MySQL server, callbacks of the world | enqueue, direct commit, execute, retry, call back, close | faults between two statements, retries, shutdown with work queued, callbacks set by another thread | atomic, at most once, honest outcome, each callback once |
| **Instance saves** (`game/Instances/`, `MapManager` ids, `MapInstanced`, `InstanceMap`, binds in `Player.cpp`) | ids in use, saves and their players, reset queue, loaded maps and unload timers, rows of `instance` and `character_instance` | enter, leave, log out, log in, reset, unload, restart | the same fact kept in five places; login query answered ticks after it was asked; ids reused | ids unique, binds agree, exactly one pending reset, solo instances private, empty maps unload |
| Grids (`game/Maps/Map.cpp`, `game/Grids/`) | grid state, player counts, unload locks | create, load, idle, unload | unload while objects move in | no loaded object in an unloaded grid |
| Event processor (`shared/Utilities/EventProcessor.cpp`) | time-ordered events, abort flag | add, update, kill all | events that re-add or abort while the list is walked | each event executed or aborted once |
| World session and socket (`game/Server/`) | packet queues, player, timers | queue, filter, requeue, log out | network thread against map and world threads | packets in order, in the right thread |
| Inter-realm / cross server (`game/Server/Cross/`) | connections, players on loan | register, transfer, return | lost connections, duplicates | a player is active on one realm |
| Groups and loot (`game/Groups/`, `game/Loot/`) | members, leader, binds, rolls | join, leave, roll, disband | timers against leaving players | one winner per item, one leader |
| Dungeon finder (`game/DungeonFinding/`) | queues, proposals, role checks | join, match, answer, time out | answers racing timeouts | a player is in one proposal |
| Battlegrounds (`game/Battlegrounds/`) | queue, invitations, instances | schedule, invite, enter, end | invitations that expire late | no overfull side |
| **Character store** (`Player.cpp`: saves, `LoadFromDB`, `ModifyMoney`, `CanStoreItem`) | inventory and money in memory, their rows, queued transactions | log in, save, log out, crash | memory is ahead of the tables; the login query stands in the same queue | the tables catch up with the memory |
| **Trade** (`TradeData`, `TradeHandler.cpp`) | two halves of a window that point at each other, offers, acceptances | open, offer, accept, cancel, execute | the world changes under an open window; no roll back | both halves or none; nothing is executed that was not accepted; nothing doubled |
| **Mail** (`game/Mails/`, `MailHandler.cpp`, `ObjectMgr::ReturnOrDeleteOldMails`) | mailbox of a player in the world, rows of mails and attached items | send, take, delete, return, save, grow old | the same mail in memory, in the queue and in the tables | each item in one place, all money kept |
| **Auction house** (`game/AuctionHouse/`, `AuctionHouseHandler.cpp`) | auctions and items on sale, rows of auctions and bids | sell, bid, buy out, cancel, expire, load | a closed auction whose row is still there; restarts | each auction settled once, item and money conserved |
| Black market (`game/BlackMarket/`) | auctions, bids | bid, expire | as the auction house | as the auction house |
| Guilds, spawn pools, threat lists, vehicles | see `PROJECT.json` | | two-sided references | both sides agree |
| Spells, AI, movement, collision, scripts, data stores, logging, auth server, consoles, vendored `dep/` | content, geometry, input and output | | | not in reach of, or not worth, a small model |

Interactions. `WorldRunnable::run` calls `World::Update`, which calls
`ProcessQueryCallbacks`, the sessions, `MapManager::Update` and
`InstanceSaveManager::Update`. `MapManager::Update` gives the maps to the worker
threads and waits for them; what must not run beside them is posted as a critical
operation. Game code in any of these threads enqueues transactions, which the
database workers execute; their outcome comes back through callbacks polled by
the world thread. `PROJECT.json` lists every component, and under `hazards` the
places where an order of events that no unit test produces matters (the
repository has no automated tests of its own).

## 2. Modules

| Module | What it is |
|---|---|
| `MapTick` | abstract specification: what a tick promises to the code that runs in it |
| `MapUpdater` | the world thread, the worker threads, the queue, criteria tasks and critical operations; its refinement mapping to `MapTick` |
| `MCMapUpdater` | instances for TLC |
| `MapUpdater_proofs`, `MapTick_proofs` | proofs: the barrier; what flows through it, and the refinement |
| `DatabasePool` | transactions from the caller to the MySQL server and back to the callback |
| `MCDatabasePool`, `DatabasePool_proofs` | instances and proofs |
| `InstanceSaves` | ids, saves, binds, resets, loaded maps and tables of solo instances |
| `MCInstanceSaves`, `InstanceSaves_proofs` | instances and proofs |
| `CharacterStore` | the write-behind store under the characters; a library of state and actions |
| `CharacterStore_proofs` | facts about the queue as a history and about sums, for the proofs above it |
| `Trade` | extends `CharacterStore` by the trade window |
| `MCTrade`, `Trade_proofs` | instances and proofs |
| `Mailbox` | extends `CharacterStore` by mails; a library of state and actions |
| `AuctionHouse` | extends `Mailbox` by auctions: the composition of store, mails and auctions |
| `MCAuctionHouse` | instances, for the auctions and for the mails alone |
| `AuctionRows_proofs` | proofs: the rows that mails and auctions write, types, auctions in memory and in the tables |
| `AuctionHouse_proofs` | proofs: auctions are settled; every item is in one place; memory agrees with the tables; no money is lost or made |

Definitions whose comment begins with "Mutant" are altered copies of the
definition next to them, each with one plausible bug. They are in no
specification; `PROJECT.json` says which property each one breaks.

### MapUpdater

`main` is the program counter of the world thread: `world` (the rest of
`World::Update`), `criteria` and `maps` (the two scheduling loops of
`MapManager::Update`), `wait` and `blocked` (`MapUpdater::wait`, running and
asleep), `serial` and `critical` (after the barrier), `loop`
(`WorldRunnable::run`), `kick` to `stopped` (shut-down). `wpc` is the one of every
worker: `pop`, `waiting`, `popped`, `call`, `exited`. Sections under a mutex contain
no blocking call and are single steps; each condition variable is a wait set, with
notifications that wake one, all or nobody, and spurious wake-ups. `VisitInstance`
is one turn of the loop in `MapInstanced::Update`: an instance is destroyed,
kept because `RemoveAllPlayers` left somebody in it, or scheduled. What a
map update does to its own objects is abstracted; that it posts criteria tasks and
critical operations is not. With `Workers = {}` (`MapUpdate.Threads = 0`) the same
module takes the in-place branches.

Bounds: `MaxCriteria`, and each operation is asked again only after it has succeeded.

### DatabasePool

A connection goes through `dequeue` (or `free`), `begin`, `statement`, `commit` or
`rollback`, `decide`, `finish`. The MySQL server is external and modelled from how
the code uses it: per connection an open transaction and the statements executed
in it (`pending`), and per statement how often it took effect (`durable`).

Fault model. A statement may fail (`error`), meet a deadlock (`deadlock`, errno 1213,
the server rolls back), lose the connection and be sent again after a successful
reconnection (`lost`), lose it for good (`refused`, `m_Mysql` is NULL from then on) or
end the process (`fatal`, the errors for which `_HandleMySQLErrno` calls
`std::abort`). `COMMIT` may fail, meet a deadlock, or lose the connection before or
after it was carried out. `START TRANSACTION` and `ROLLBACK` fail only with a refused
reconnection. `MaxFaults` bounds the number of faults of a behaviour; `HighWater` is
the queue's high-water mark, counted in operations where ACE counts bytes.
Single statements, queries with futures and query holders use the same queue
and connections but keep no state that these properties are about.

### InstanceSaves

One normal dungeon and players without a group. A player is `offline`, `loading`
(the login query is under way), in the `world`, `inside`, or in `transit` (a far
teleport that the client has not acknowledged). `ref[p]` is `Player::m_mapRef`,
the link that `Map::HavePlayers` looks at. The order of the links matters:
`Player::SetMap` links before `AddPlayerToMap` calls `SetResetSchedule(false)`,
`ResetMap` unlinks after `RemovePlayerFromMap` called `SetResetSchedule(true)`, and
`LogoutPlayer` unloads the save before it leaves the map. `row` and `charRow` are the
tables; `Restart` empties the memory and runs `LoadInstances`. Reset times are
abstracted: every scheduled event may be the next to be due.

Two windows are constants so that what depends on them can be told apart:
`LoginRace` lets a reset run between a login query and its callback, and `LateRows`
lets a reset time pass between the two time stamps that `LoadInstances` compares.
`IdWidth` is the number of ids a reset event can tell apart (2^16 in the code).
`MaxId`, `MaxRestarts` and `MaxEvents` are bounds.

Left out: groups, permanent binds, global resets of raids and heroics, garrison
maps, the hourly limit, logging in inside the dungeon, the loss of queued asynchronous
statements in a crash, the respawn-time extension at start-up, and battlegrounds as
users of the id pool.

### CharacterStore

`online`, `inv` and `money` are what the players in the world hold in memory; `db` is a
function from rows to values, and `queue` the transactions and login queries that
the database has not executed. A transaction is the function of the rows it
writes, because every statement of the handlers is an absolute write; it is
executed as a whole (what `DatabasePool` shows, without a reconnection). A login is
a query in the same queue (`LoginPlayer`), and the player enters the world when it is
answered (`LoadFromDB`). `Crash` loses memory and queue. `Latest(r)` is the value that row
`r` has once the queue is executed. Handlers run to completion in the world thread,
so each is one action.

`Workers` is `CharacterDatabase.WorkerThreads`: one of the first `Workers` entries is the
next to take effect. The runs have 1, the default in `Master.cpp:753`. The
configuration file that is shipped sets 4 (`worldserver.conf.dist:116`), and with
two the invariants of `Trade` and `AuctionHouse` fail: two saves of one character may
take effect in the other order, and a login query may overtake the save of the
logout before it.

Items have stack size one. `MaxQueue` and `MaxCrashes` are bounds.

### Trade

`partner[p]` is `m_trader` of `m_trade` (`Nobody`: no trade), `accepted` and `offer` are the
rest of `TradeData`, `bound` the soulbound items. An offer keeps guids, so `GetItem` finds an
item only while it is in the inventory. Each way through
`HandleAcceptTradeOpcode` is an action: refused, too little money on either side,
an item that is not tradable any more, waiting for the other, a spell that fails,
no space, complete. `MoveItems` is the loop of `moveItems` over the slots, with its
refusals. Mails, items that bind when used, and money spent elsewhere (`Spend`,
external) change the world under an open window. Requests that are refused
without a change of state (distance, death, faction, level) are stuttering steps. The
state index that the accept packet carries is ignored by the handler and not
modelled.

The players of a trade see each other's window (`Shown`), and what is executed is computed from
the inventories at the second accept. An offered item may be mailed away between the two
accepts: `HandleSendMail` does not look at the window, and nothing withdraws the acceptances. The trade
is then executed without the item. `AcceptanceBinds` is therefore stated from above: while an
acceptance stands neither offer changes, and what a player gives and gets is within what
the windows show. That everything shown arrives is false in the code.

### Mailbox and AuctionHouse

`box[p]` is the mailbox in memory (`m_mail`, `mMitems`), with the mails that are deleted but not
yet saved; the rows are split by the columns that one statement writes, so that an
update of a deleted mail changes nothing. `auction` and `aitems` are `AuctionsMap` and
`mAitems`; `world` is `down`, `loading` or `up`, and a start runs
`DeleteExpiredAuctionsAtStartup` and `LoadAuctions` in the order of
`World::SetInitialWorldSettings`. An auction may expire, and a mail may grow old, at any
time. Results of auctions are mails in the transaction that changes the auction.

Two rows are the model's own: `Fees` adds up the money that was paid to the server
or thrown away, `GivenUp(i)` marks an item deleted together with its mail. They turn "nothing is
lost" into an equation. Mail identifiers are reused when nothing knows them any
more, where the code counts upwards.

`OldMailsAtRest` restricts the return of old mails to those whose receiver is away and
that no queued transaction writes; `ExpireWhileDown` lets an auction expire while
the server is down; `LogTrade` is the configuration option `GM.LogTrade`. With the
restriction lifted, or the option off, the properties fail (see the findings).

Sums of money have 64 bits nearly everywhere, and are numbers here. Where the code narrows one, so does
the model, with `Half` for 2^31. `AddCOD` (`Mail.h:130`) takes a `uint32`, so the price that
a client asks is cut (`Uint32`); `HandleMailTakeItem` mails the whole price to the sender and changes
the money of the taker by `-int32` of it (`MailHandler.cpp:491`, `MinusInt32`), which pays
him from 2^31 on; the negation of the least `int32` is undefined, and either result of the build
is possible. `LoadFromFieldList` reads 32 bits of a bid. The deposit, of which the
code takes `-int32` too, is assumed below 2^31. Players in `GameMaster` may mail more money than
they have (`MailHandler.cpp:104`); the runs have none, because such a mail makes money.

Left out: more than one item in a mail, mail templates and texts, delivery delay,
the limit of 100 mails, selling part of a stack, three houses instead of one, the
lists for the client.

## 3. Runs

| Run | Instance | Shows |
|---|---|---|
| `map_tick` | 2 workers, a continent, a dungeon with 2 copies, 1 player with 2 criteria tasks | `pending_requests` is exact; the barrier holds; no null request, no two updates of one map, no request for a deleted map; criteria tasks in order and once; the pool implements `MapTick` |
| `map_tick_operations` | 2 workers, a dungeon with 1 copy, 2 operations, fairness | operations are neither lost nor doubled, each is tried, a stop request ends all threads |
| `map_tick_in_place` | no workers | the same promises without threads |
| `db_callbacks` | 2 workers, 1 direct connection, 1 queued and 1 direct transaction, every fault, up to 3 | each callback once and with the outcome; answered unless closed; `Close` ends |
| `db_transactions` | 1 worker, 1 direct connection, 4 transactions (one empty), up to 2 faults of statements (no reconnection) and commits | atomic, at most once though retried, a reported failure left nothing behind, in order |
| `saves` | 2 players, 3 ids, 1 restart | ids, binds, exactly one pending reset, private instances, unloading, every instance reset in the end |
| `trade` | 2 players, 4 items (three share a maximum count of two, one binds), 2 traded slots, 2 transactions under way, 1 crash | both halves together, an acceptance stands for one offer and nothing outside the windows changes hands, items once, no money created, bags and maximum counts respected, two slots moved as a whole |
| `auctions` | a seller and 2 bidders, 1 item, bids 1 and 2, with and without buyout, 3 mails, 2 transactions under way, 2 crashes with restart | at every moment the tables hold each item once and all the money; memory and tables agree; every auction is settled |
| `mails` | 2 players, 1 item, money and prices (one above the `uint32` range), 2 mails, 2 transactions under way | the same for mails that are sent, paid for, taken, deleted, read again, returned and old |
| `db_deadlock_not_retried`, `saves_reset_inside`, `auction_startup` | minimal | a counterexample each, see the findings |

Why these bounds are enough to be interesting. Two workers and a base map with two
copies give nested scheduling while the world thread already waits, an instance
destroyed beside one that is scheduled, and a worker idle when `Cancel` comes. Two
tasks of one player are needed for order and for a second tick after
a first. A retry needs a deadlock at
`COMMIT` (finding 1), so two faults are the fewest with which a retried attempt fails;
`db_callbacks` has three with `LoopBreaker = 2`, `db_transactions` the code's value 5. Transactions have two statements, the
fewest that can be applied by halves, or none, because an empty transaction returns
false without touching `mysql_errno`. In `saves` three ids are one more than the
players, so an id is freed and handed out again while the other player holds one.

In `trade` the bag of `a` is full with two limited items, so that he can take nothing unless he gives
something; `b` has room for two more, holds the third limited item and one that is not limited. Two
slots are the fewest in which a later slot can fail after an earlier one has succeeded, and
two items against two, two against one and one against one all occur. Two transactions under way let a second
trade, a logout or a login follow a trade that is not stored yet. `StateConstraint` of `MCTrade` cuts
what two slots multiply: the unlimited item `w` stays with `b` (it is offered, and states in which
it has changed hands are checked but not continued); one item at most is mailed away;
the queue is empty while a window shows `w` or several items, and never full while one is open; no window is opened after the crash. `x` and
`y` are alike, and the run uses this symmetry. It has 222,731 states. In `auctions` three mails
are what a buyout over another player's bid needs, three players are a seller
with two bidders, and the second crash can hit the loaded copy of an auction that the
first one interrupted; cid has full bags, which keeps what he wins in the
mail and the number of resales small. `mails` has no crash because the return of
an old mail is not one transaction. `Half = 10` is above every sum of the run but the price 21, which `AddCOD`
cuts to 1; it has 1,147,278 states.

Worker threads are symmetric in `map_tick` (safety only); no symmetry is used
where liveness is checked. No passing run switches deadlock checking off: where the system
stops the specification says so (`Terminated`, `Down`). Some of the configurations that
end in a counterexample do, to reach it.

### Fairness

- `MapUpdater!FairSpec`: weak fairness of the world thread and of each worker, the
  operating system's scheduling; map updates, tasks and operations return. Strong
  fairness of `PrepareCriteria`: `i_timer` adds up the time of the ticks that
  `MapManager::Update` skips, so it does not skip for ever. Stopping, posting and
  spurious wake-ups are not fair.
- `DatabasePool!FairSpec`: workers and the world's update loop run, and a caller that
  registered its callback goes on to enqueue. Faults and `CloseQueue` are not fair.
- `InstanceSaves!Spec`: `World::Update` processes due events and updates the maps in every
  tick. Nothing a player does is fair.
- `Trade` and `AuctionHouse` state safety only.

### Findings

1. **Deadlocks are not retried** (`db_deadlock_not_retried`). `ExecuteTransaction` sends
   `ROLLBACK` before it returns, which clears `mysql_errno`; the test for 1213 in
   `TransactionTask::Execute` and `DirectCommitTransaction` is then false. It can only
   be true after a deadlock at `COMMIT`, whose failure is ignored otherwise.
2. **Resets hit players inside** (`saves_reset_inside`). The reset that `AddInstanceSave`
   schedules is meant to be cancelled when the first player enters, but that player
   is already linked when `SetResetSchedule(false)` looks for players.
3. **Auctions that expire while the server is down lose their item** (`auction_startup`).
   `DeleteExpiredAuctionsAtStartup` runs before `LoadAuctionItems`, finds no item to send, and
   deletes the row of the auction.

Further configurations end in a counterexample too:

| Configuration | Property | What happens |
|---|---|---|
| `MCDatabasePoolLost` | `AllOrNothing` | a reconnection inside a transaction resends only the current statement, in autocommit mode |
| `MCDatabasePoolCommit` | `OutcomeHonest` | a failed `COMMIT` is reported as success |
| `MCDatabasePoolClose` | `SavedAtClose` | `Close` flushes the queue, and what waits there is not executed |
| `MCDatabasePoolHandle` | `HandleAtClose` | a refused reconnection leaves no handle, which `~MySQLConnection` asserts |
| `MCInstanceSavesFresh` | `FreshInstance` | an id is freed before the map that carries it is unloaded: a new instance can be the old copy |
| `MCInstanceSavesShared` | `SoloPrivate` | a reset between a login query and its callback leaves a player bound to an id that was given back |
| `MCInstanceSavesLate`, `MCInstanceSavesWide` | `EveryInstanceReset` | a row that falls due during start-up is kept without an event; an id above 16 bits is scheduled under another id |
| `MCAuctionHousePrice` | `MoneyConserved` | a mail whose price is 2^31 or more pays the player who takes the item, while the price is mailed to the sender as well |
| `MCTradeFull` | `ItemsReturned` | the maximum count is tested for every traded item alone; the second item of a limited entry is refused after earlier slots have filled the owner's bag, and is lost |
| `MCAuctionHouseOldMail` | `ItemOnce` | `ReturnOrDeleteOldMails` looks the receiver up by the low part of his guid, never finds him, and returns a mail that he still has open |
| `MCAuctionHouseLog` | `AuctionSettled` | with `GM.LogTrade` off the account of an offline winner is not looked up, and his mail with the item is not sent |

Two more follow from a changed constant: `MaxCrashes = 1` in `MCAuctionHouseMail` (a crash between
the statements that return an old mail leaves its item registered for the old
receiver: `LoadMail` of neither player finds it), and `Workers = 2` in `MCTrade` and
`MCAuctionHouse` (see `CharacterStore` above).

## 4. Proofs

All for every value of the constants, from the named assumptions of the modules.

- **`MapUpdater_proofs`**. `TickInvariant` proves `TickInv = TypeOK /\ PendingExact /\
  WorkerShape /\ Quiet`. `PendingExact` alone is not inductive: that counting off removes
  exactly one held request needs the shape of a worker's program counter
  (`WorkerShape`), and that `Cancel` deletes nothing that is counted needs `Quiet`, the
  barrier extended to `deactivate`. `PendingAlwaysExact`, `BarrierHolds`,
  `RequestNeverNull` and `TickTypes` follow. Cardinalities use the finiteness of
  `Workers`.
- **`DatabasePool_proofs`**. `PoolInvariant` ties each transaction's status to the queue, to
  the one connection that executes it, and to the callback lists, under every fault;
  `CallbackAlwaysOnce` follows. `AtomicInvariant` adds what is durable at every program
  counter of a connection, assuming `"lost" \notin StatementFaults` (`MCDatabasePoolLost`
  shows that it is needed). A retry is the delicate case: the invariant has to say that an
  attempt which is repeated left nothing durable, which holds after a deadlock at
  `COMMIT` too. `TransactionsAtomic`, `TransactionsOnce` and `FailuresHonest` follow;
  `OutcomesHonest` assumes in addition `CommitFaults = {}` (`MCDatabasePoolCommit`).
  `PoolTypes` is the type invariant. `TransactionsInOrder` assumes one asynchronous connection and
  every fault; `HandsInv` says that whatever is running is in the hands of a connection of
  the right kind, so that an idle worker means that nothing queued is running.
- **`MapTick_proofs`**. `WorldInvariant` adds three parts to `TickInv`. `RequestInv`: what is
  queued, held by a worker or still to be visited by a `MapInstanced` is for pairwise
  different maps that exist, and none of it has been started in this tick; an instance
  can only be pending after its base map was. `OperationsInv`: the queues of
  `MapManager` hold every operation that was asked and has not succeeded once, whatever
  part of the copy has been run. `CriteriaInv`: the tasks applied, those of the
  copy and those posted since are consecutive. The last two have to
  follow the copy through the tick, because a queue is cleared long after it was copied.
  `UpdatesNeverConcurrent`, `MapsNeverDangle`, `OperationsAlwaysKept` and `CriteriaAlwaysInOrder`
  follow. `ImplementsTickProved` maps every step of the world thread and of the workers to a
  step of `MapTick` or to a stutter, with and without workers.
- **`InstanceSaves_proofs`**. `SavesInvariant` proves the types, `NextIdFree`, `BindsListed` and
  two strengthenings: a player that is away has no bind, and one that is inside or in
  transit is linked to a map. `LinkInvariant` adds that at most one player is linked to a
  map and that a player in transit has armed its timer. Both assume neither `LoginRace` nor
  `LateRows` to be false, nor `IdWidth` to exceed `MaxId`: `GeneratedIdsFree`, `BindsAlwaysListed`,
  `SavesTypes` and `EmptyMapsAlwaysUnload` hold in the presence of all the counterexamples about
  instance saves. `StoredInvariant` says that rows belong to registered ids and to
  one player each, in memory and in `character_instance`; it assumes `~LoginRace` and
  `IdWidth > MaxId`, and so does `InstancesPrivate` (`MCInstanceSavesShared` shows that the first is
  needed). `ResetsPendOnce` assumes `~LateRows` as well (`MCInstanceSavesLate`).
- **`CharacterStore_proofs`**. With one worker the queue is the history of the tables still to
  come: `Value(n, r)` is what row `r` holds after `n` entries, `Value(0, r)` is `db[r]`, and
  `Latest(r)` is the end. A commit appends a value and changes none before it; executing
  the first entry moves the present along the history and leaves its end alone; a crash stops
  it at the present. The induction this needs is over the finite set of
  positions, by the library's theorems on finite sets. The same module shows that the
  fold that defines a sum over players can be taken apart in any order.
- **`Trade_proofs`**. `WindowInvariant` proves the types of the window and `TradePaired`, for any number of
  players, items, slots, worker threads and crashes. Every action is reduced to
  one of a few effects on the window (it leaves partners and offers alone, links two free
  players, changes the offer of a linked pair and clears both acceptances,
  or unlinks a pair), and one lemma per effect shows that it keeps the invariant and withdraws the
  acceptances of an offer that changes. `TradesPaired` follows. The types are needed
  because a window is updated at `partner[p]`, and `TradePaired` is what makes that a player
  different from `p`.
  The rest is for `Workers = 1`, as the runs are (with two the properties fail).
  `StoreInvariant` proves `MemoryBacked` with the types of queue and memory and two facts
  about login queries: a player has at most one under way, and the entries behind it
  do not change what it finds, so that the answer is current. `MemoryAlwaysBacked` and `ItemsOnce`
  follow. `MoneyNeverCreated` bounds the sum of the gold at every moment of the
  history, not only at the present one, because a crash may make any moment the last.
  `AcceptancesBind` needs the store as well: what is executed is computed from inventories and
  money, so the theorem follows the loop of `moveItems`, for any number of slots and also when a slot
  fails, and shows that no item outside the two windows enters or leaves an inventory, and that no
  money moves but the two sums shown. The proof uses that inventories are disjoint and that nobody
  holds more than `MaxMoney`, which it assumes of the start.
  `TradesWhole`: slot after slot, `moveItems` finds the room that `CanStoreItems` counted
  before anything moved, for any number of slots, if the items of the trade keep to the maximum
  count together (`CountRespected`). The condition is needed: `MCTradeFull` shows a limited item refused half-way; it
  is lost from memory while its row stays, and the next login finds more items than the
  bags hold. `BagsAlwaysRespected` therefore states the run's `BagsRespected` for `Limited = {}`. `BagsAlwaysRespected` assumes too that the bags hold what the players own initially.
- **`AuctionRows_proofs`**. `AuctionTypes` proves `TypeOK` of `AuctionHouse` for `Workers = 1` and any number of
  players, items, mails and crashes, with old mails at rest or not, and auctions that
  expire while the server is down or not; it assumes that nobody owns more than
  `MaxMoney` at the start. `TypeInv` types every row, every queued transaction, every mailbox and every
  auction; it needs `Good`, which says that a transaction that creates a mail or asks a
  price for its item writes the sender in the same transaction, so that a mail read
  after a crash has the columns that the handlers use. `TypeInv` is not inductive:
  a bidder who buys out pays the buyout less his bid, which is a sum only because
  bids stay below the buyout. `HouseInv` adds this (`BidsBelow`), the same for every moment
  of the history of the tables (`BidHistory`, because a restart may load any moment), that
  memory and the end of the history agree (`AuctionsBacked`), and what the queue may
  hold before the auctions are loaded (`ColdStart`). `AuctionsAlwaysKept` follows. One worker
  is needed: auctions are named by their items, so with two the late bid of one auction can meet the
  listing of the next in the tables, and TLC finds `BidsBelow` violated after a crash.

- **`AuctionHouse_proofs`**. All for `Workers = 1` and `LogTrade` (`MCAuctionHouseLog` shows that a winner who is offline
  gets nothing without it), with nobody richer than `MaxMoney` at the start.
  `AuctionsAlwaysSettled` states the run's `AuctionSettled` from `TypeInv` and `HouseInv`
  alone, with any crashes and with old mails at rest or not: it compares what a step writes with the
  auction before it, and needs to know that the auction in memory is the one in the
  tables, and that its bid is below its buyout.
  `ItemsAlwaysStored`, `MemoryAlwaysBacked`, `ItemsAlwaysOnce` and `MoneyAlwaysConserved` need the whole history of the tables.
  `LedgerInv` has five parts. `Books`: after every prefix of the queue each item is in exactly
  one place, a mail that holds an item exists, and an auction has its listing. `Registers`: the two
  rows that say who owns the item of a mail agree. `Links`: a transaction that writes one of two
  rows that belong together writes both. `Logins`: after the query of a login nothing
  in the queue changes what the player owns, so the copy read is not stale when
  he enters the world. `Memory`: money, bags and mailbox of a player in the world are those of
  the end of the history. None is inductive alone: that taking an item from a mail does
  not make two of it needs `Memory`, which needs `Logins` for a player who has just entered, which
  needs `Books` to know that nobody else writes his rows. TLC confirmed `LedgerInv` on the
  instances of `auctions` and `mails` before the proof.
  `MoneyAlwaysConserved` states the run's `MoneyConserved` and adds `WealthInv`: after every prefix of the queue the purses, the money in
  the mails that exist, the deposits and bids of the auctions and what the server was paid sum to the money
  there was at the start. A transaction is a pile of layers (`GoldLayer`, `StakeLayer`, `DropLayer`,
  `SendLayer`, `FeeLayer`), each of which changes one of the four sums, and each action has to show that the
  changes cancel. `LedgerInv` is needed because a handler computes from memory what it takes from the
  tables, `HouseInv` because the bid that is returned or paid out must be the one in the
  tables. The sums are folds over arbitrary finite sets; the lemmas on them (`SumChange`, `SumDrop`,
  `SumSupport`) are proved by induction on the cardinality.
  Further assumptions: `OldMailsAtRest` (`MCAuctionHouseOldMail` breaks `ItemOnce` without it),
  `~ExpireWhileDown` (`auction_startup` breaks `ItemStored`), and `MaxCrashes = 0 \/ NobodyMails`: either
  the server does not crash or players send no mails of their own, because `MailCost > MaxMoney` and
  nobody is in game-master mode. `MoneyAlwaysConserved` assumes in addition that nobody is in game-master
  mode (such a player mails money that he does not have) and `Small`: a price, once `AddCOD`
  has cut it, is below 2^31. `MCAuctionHousePrice` breaks `MoneyConserved` without it. The `Ledger`
  theorems need neither, they hold for all prices. A crash between
  the two statements that return an old mail leaves its item registered for the old receiver,
  `LoadMail` skips it, and deleting the mail loses it; the mails of auctions are never returned.

Only model-checked: liveness (`OperationTried`, `Stops`, `Answered`, `Closes`,
`EveryInstanceReset`), which is outside the prover's reach. The type invariants of `MapUpdater` and `DatabasePool` are
proved and not part of a run. With `LoginRace` and `LateRows` both true TLC also
confirms `NextIdFree`, `BindsListed` and `EmptyMapUnloads` (3.0 million states).

## 5. Not modelled, and the plan

Data races proper are not modelled: the models take these operations as atomic.
`m_LockedPlayersAchievementCriteriaTask` is filled by all map workers without a lock
(`AchievementMgr.h:807`), `m_instanceSaveById` changes under the lock of
one save only (`InstanceSaveMgr.cpp:697`), and `CreateBaseMap` does not test again after
it has taken its lock (`MapManager.cpp:90`). Seen while reading and not covered either:
`LoadResetTimes` walks `result2` and advances `result` (`InstanceSaveMgr.cpp:371`),
`EventProcessor::AddEvent` does not look at `m_aborting` (`EventProcessor.cpp:67`), and the accept
packet of a trade carries a state index that the handler ignores (`TradeHandler.cpp:250`), so
that an accept which crosses a change accepts the new offer.

`ProcessQueryCallbacks` empties the buffer of transaction callbacks without the lock that
`AddTransactionCallback` takes (`World.cpp:4155`, `World.h:1029`). It is one step in the model all the same,
because no registration runs beside it: transactions with a callback are committed by the world
thread (session handlers, console commands, `InterRealmMgr::Update`) or by map workers inside
`MapManager::Update`, which waits for them (`World.cpp:2624`) before the callbacks are processed
(`World.cpp:2676`). The barrier this relies on is `Quiescent`. A caller that commits from
a thread of its own would break it, and the model would not show that. Blocking at the high-water
mark of the queue is modelled (`Enqueue`), but only `db_transactions`, whose properties are safety
properties, fills the queue.

Components that are not modelled are in `PROJECT.json` with the reason. Most of the
repository is content (scripts, spells, packet structures, generated protocol
code, vendored libraries), which has no state machine of its own to check.

Next, in this order:

1. extend `InstanceSaves` by groups, permanent binds and the global reset. Two players
   who leave a copy while both are still linked to it look like a way to miss the
   unload timer (`Map.cpp:2399`), which solo players cannot;
2. `EventProcessor` (events that re-add themselves, abort while executing) and `GridStates`;
3. the packet queues of `WorldSession`, with the map and the session filter as consumers;
4. group loot rolls, dungeon-finder proposals, battleground invitations: answers
   against timeouts;
5. spawn pools, threat lists, vehicles, the inter-realm protocol.
