------------------------------- MODULE Trade -------------------------------
(***************************************************************************)
(* The trade window between two players: TradeData and the trade handlers  *)
(* of WorldSession, with what changes under an open window: items that are *)
(* mailed away or become soulbound, money that is spent, players who log   *)
(* out, and crashes of the server.                                         *)
(*                                                                         *)
(* Items have stack size one.  Conditions that only refuse a request       *)
(* without a change of state (distance, death, flight, faction, level) are *)
(* left out: refusing is a stuttering step.  A trade spell is a flag: its  *)
(* cast item is always null, because CheckCast refuses a cast item in the  *)
(* trade window, and its effect on the item is left out.                   *)
(***************************************************************************)
EXTENDS CharacterStore, FiniteSetsExt

CONSTANTS
    NoItem,        \* an empty slot of the window
    BindOnUse,     \* the items that become soulbound when they are used
    TradedCount    \* TRADE_SLOT_TRADED_COUNT

ASSUME TradeAssumption ==
    /\ NoItem \notin Item /\ TradedCount \in Nat
    /\ BindOnUse \subseteq Item

\* The slots of the window; the last one is for an item that is not traded.
Slot == 0 .. TradedCount
NonTraded == TradedCount

VARIABLES
    partner,     \* m_trader of m_trade; Nobody when m_trade is NULL
    accepted,    \* TradeData::m_accepted
    offer,       \* TradeData::m_items, m_money and m_spell
    bound        \* the soulbound items

tradeVars == <<partner, accepted, offer, bound>>
vars == <<online, inv, money, db, queue, crashes,
          partner, accepted, offer, bound>>

-----------------------------------------------------------------------------
(***************************************************************************)
(* TradeData.                                                              *)
(***************************************************************************)

EmptyOffer == [items |-> [s \in Slot |-> NoItem], gold |-> 0, spell |-> FALSE]

Trading(p) == partner[p] # Nobody

\* An offered item that has left the inventory is not found any more.
GetItem(p, s) ==
    IF offer[p].items[s] \in inv[p] THEN offer[p].items[s] ELSE NoItem

Offered(p, i) == \E s \in Slot : offer[p].items[s] = i

\* The items of p that change hands.
TradedItems(p) == {GetItem(p, s) : s \in Slot \ {NonTraded}} \ {NoItem}

SetAccepted(p, a, q, b) == accepted' = [accepted EXCEPT ![p] = a, ![q] = b]

\* Mutant: the trader's acceptance survives a change of my money.
SetMoneyOwn(p, g) ==
    LET q == partner[p]
    IN  IF offer[p].gold = g THEN UNCHANGED <<accepted, offer>>
        ELSE /\ offer' = [offer EXCEPT ![p].gold = g]
             /\ SetAccepted(p, FALSE, q, accepted[q])

\* A change of the money takes both acceptances back; the same amount again
\* does not.
SetMoney(p, g) ==
    IF offer[p].gold = g THEN UNCHANGED <<accepted, offer>>
    ELSE /\ offer' = [offer EXCEPT ![p].gold = g]
         /\ SetAccepted(p, FALSE, partner[p], FALSE)

\* As SetMoney.  My spell is dropped, it may have used the item as a reagent;
\* the trader's spell is dropped when its target, the last slot, changes.
SetItem(p, s, i) ==
    LET q == partner[p]
    IN  IF offer[p].items[s] = i THEN UNCHANGED <<accepted, offer>>
        ELSE /\ offer' = [offer EXCEPT ![p].items[s] = i, ![p].spell = FALSE,
                             ![q].spell = @ /\ s # NonTraded]
             /\ SetAccepted(p, FALSE, q, FALSE)

SetSpell(p, on) ==
    IF offer[p].spell = on THEN UNCHANGED <<accepted, offer>>
    ELSE /\ offer' = [offer EXCEPT ![p].spell = on]
         /\ SetAccepted(p, FALSE, partner[p], FALSE)

\* Mutant: only my half of the trade is deleted.
CloseTradeHalf(p) ==
    /\ partner' = [partner EXCEPT ![p] = Nobody]
    /\ accepted' = [accepted EXCEPT ![p] = FALSE]
    /\ offer' = [offer EXCEPT ![p] = EmptyOffer]

\* Player::TradeCancel and the end of HandleAcceptTradeOpcode: both halves of
\* the trade of p, if there is one, are deleted.
CloseTrade(p) ==
    LET both == IF Trading(p) THEN {p, partner[p]} ELSE {}
    IN  /\ partner' = [x \in Player |-> IF x \in both THEN Nobody ELSE partner[x]]
        /\ accepted' = [x \in Player |-> x \notin both /\ accepted[x]]
        /\ offer' = [x \in Player |-> IF x \in both THEN EmptyOffer ELSE offer[x]]

-----------------------------------------------------------------------------
(***************************************************************************)
(* The handlers that open, change and close the window.                    *)
(***************************************************************************)

HandleInitiateTrade(p, q) ==
    /\ p # q /\ {p, q} \subseteq online
    /\ ~Trading(p) /\ ~Trading(q)
    /\ partner' = [partner EXCEPT ![p] = q, ![q] = p]
    /\ UNCHANGED <<accepted, offer, bound>>
    /\ UNCHANGED storeVars

HandleSetTradeGold(p, g) ==
    /\ Trading(p)
    /\ SetMoney(p, IF g <= money[p] THEN g ELSE money[p])
    /\ UNCHANGED <<partner, bound>>
    /\ UNCHANGED storeVars

HandleSetTradeItem(p, s, i) ==
    /\ Trading(p) /\ i \in inv[p]
    /\ s # NonTraded => i \notin bound
    /\ ~Offered(p, i)
    /\ SetItem(p, s, i)
    /\ UNCHANGED <<partner, bound>>
    /\ UNCHANGED storeVars

HandleClearTradeItem(p, s) ==
    /\ Trading(p)
    /\ SetItem(p, s, NoItem)
    /\ UNCHANGED <<partner, bound>>
    /\ UNCHANGED storeVars

\* A spell cast on the item in the last slot of the trader is kept for the end
\* of the trade; a second one is refused.
CastTradeSpell(p) ==
    /\ Trading(p) /\ ~offer[p].spell
    /\ GetItem(partner[p], NonTraded) # NoItem
    /\ SetSpell(p, TRUE)
    /\ UNCHANGED <<partner, bound>>
    /\ UNCHANGED storeVars

HandleUnacceptTrade(p) ==
    /\ Trading(p)
    /\ accepted' = [accepted EXCEPT ![p] = FALSE]
    /\ UNCHANGED <<partner, offer, bound>>
    /\ UNCHANGED storeVars

\* Also the effect of moving an offered item or of boarding a taxi.
HandleCancelTrade(p) ==
    /\ Trading(p)
    /\ CloseTrade(p)
    /\ UNCHANGED bound
    /\ UNCHANGED storeVars

-----------------------------------------------------------------------------
(***************************************************************************)
(* HandleAcceptTradeOpcode, one action per way out.  q is the trader.      *)
(***************************************************************************)

HasMoney(p) == money[p] >= offer[p].gold
ItemsTradable(p) == TradedItems(p) \cap bound = {}
CanAccept(p, q) == HasMoney(p) /\ HasMoney(q) /\ ItemsTradable(p) /\ ItemsTradable(q)

\* Mutant: only the maximum count is tested.
CanStoreItemsNoRoom(p, got, gone) ==
    \A i \in got : CanTakeMoreSimilarItems(i, inv[p])

\* CanStoreItems: room for all items of got together, counting the slots of
\* the items that leave as free.  The maximum count is tested for each item
\* alone, against the inventory as it is.
CanStoreItems(p, got, gone) ==
    /\ \A i \in got : CanTakeMoreSimilarItems(i, inv[p])
    /\ Cardinality(inv[p] \ gone) + Cardinality(got) <= BagSize[p]

AcceptPoor(p, q) ==
    /\ ~HasMoney(p)
    /\ accepted' = [accepted EXCEPT ![p] = FALSE]
    /\ UNCHANGED offer

AcceptTraderPoor(p, q) ==
    /\ HasMoney(p) /\ ~HasMoney(q)
    /\ SetAccepted(p, TRUE, q, FALSE)
    /\ UNCHANGED offer

AcceptUntradable(p, q) ==
    /\ HasMoney(p) /\ HasMoney(q) /\ ~(ItemsTradable(p) /\ ItemsTradable(q))
    /\ accepted' = [accepted EXCEPT ![p] = TRUE]
    /\ UNCHANGED offer

AcceptWait(p, q) ==
    /\ CanAccept(p, q) /\ ~accepted[q]
    /\ accepted' = [accepted EXCEPT ![p] = TRUE]
    /\ UNCHANGED offer

\* The spell of one side is dropped: its target is gone, or CheckCast fails.
AcceptSpellFails(p, q) ==
    /\ CanAccept(p, q) /\ accepted[q]
    /\ \E x \in {p, q} : offer[x].spell /\ offer' = [offer EXCEPT ![x].spell = FALSE]
    /\ SetAccepted(p, FALSE, q, FALSE)

\* A spell without its target never reaches this point.
Castable(p, q) == offer[p].spell => GetItem(q, NonTraded) # NoItem

AcceptNoSpace(p, q) ==
    /\ CanAccept(p, q) /\ accepted[q] /\ Castable(p, q) /\ Castable(q, p)
    /\ \/ ~CanStoreItems(q, TradedItems(p), TradedItems(q))
       \/ ~CanStoreItems(p, TradedItems(q), TradedItems(p))
    /\ SetAccepted(p, FALSE, q, FALSE)
    /\ UNCHANGED offer

HandleAcceptRefused(p) ==
    /\ Trading(p)
    /\ \/ AcceptPoor(p, partner[p])
       \/ AcceptTraderPoor(p, partner[p])
       \/ AcceptUntradable(p, partner[p])
       \/ AcceptWait(p, partner[p])
       \/ AcceptSpellFails(p, partner[p])
       \/ AcceptNoSpace(p, partner[p])
    /\ UNCHANGED <<partner, bound>>
    /\ UNCHANGED storeVars

\* One slot of moveItems: mine goes to the trader and his to me if both fit,
\* otherwise each goes back to its owner if it still fits there.  bags holds
\* the inventories of p and q; the items are no longer in them.  The vector of
\* destinations still holds the place found for the item of the other side, so
\* the way back needs a place besides it.  (StoreItem then fills both places,
\* the first one with a copy of the returned item.  The copy is a new item and
\* left out.)
MoveSlot(bags, p, q, mine, his) ==
    LET Fits(x, i) == i = NoItem \/ CanStoreItem(x, bags[x], i)
        With(x, i) == (bags[x] \cup {i}) \ {NoItem}
        Kept(x, i) == IF i # NoItem /\ Fits(x, i) THEN 1 ELSE 0
        Back(x, own, other) ==
            IF Fits(x, own) /\ Cardinality(bags[x]) + Kept(x, other) < BagSize[x]
            THEN With(x, own) ELSE bags[x]
    IN  IF Fits(q, mine) /\ Fits(p, his)
        THEN [x \in {p, q} |-> With(x, IF x = p THEN his ELSE mine)]
        ELSE [x \in {p, q} |-> IF x = p THEN Back(p, mine, his)
                                        ELSE Back(q, his, mine)]

\* moveItems, slot after slot.
MoveItems(p, q) ==
    LET start == [x \in {p, q} |-> inv[x] \ TradedItems(x)]
        after[n \in 0 .. TradedCount] ==
            IF n = 0 THEN start
            ELSE MoveSlot(after[n - 1], p, q, GetItem(p, n - 1), GetItem(q, n - 1))
    IN  after[TradedCount]

\* Mutant: the trader is not part of the transaction.
TradeRowsMine(p, q, bags, m) ==
    GoldRows({p}, m) ++ ItemRows(bags[p] \ inv[p], p)

\* SaveInventoryAndGoldToDB of both players in one transaction.
TradeRows(p, q, bags, m) ==
    GoldRows({p, q}, m)
        ++ ItemRows(bags[p] \ inv[p], p)
        ++ ItemRows(bags[q] \ inv[q], q)

\* The trade is executed: the items are moved, then the money, both trades are
\* deleted and both players are saved.
HandleAcceptComplete(p) ==
    LET q == partner[p]
        bags == MoveItems(p, q)
        m == [money EXCEPT
                ![p] = Received(Paid(@, offer[p].gold), offer[q].gold),
                ![q] = Received(Paid(@, offer[q].gold), offer[p].gold)]
    IN  /\ Trading(p)
        /\ CanAccept(p, q) /\ accepted[q] /\ Castable(p, q) /\ Castable(q, p)
        /\ CanStoreItems(q, TradedItems(p), TradedItems(q))
        /\ CanStoreItems(p, TradedItems(q), TradedItems(p))
        /\ inv' = [x \in Player |-> IF x \in {p, q} THEN bags[x] ELSE inv[x]]
        /\ money' = m
        /\ CloseTrade(p)
        /\ Commit(TradeRows(p, q, bags, m))
        /\ UNCHANGED <<online, db, crashes, bound>>

-----------------------------------------------------------------------------
(***************************************************************************)
(* What else happens to the players.                                       *)
(***************************************************************************)

\* HandleSendMail takes an item out of the inventory whether or not it lies in
\* the trade window.  Where mail goes from here is not followed.
HandleSendMail(p, i) ==
    /\ p \in online /\ i \in inv[p] \ bound
    /\ inv' = [inv EXCEPT ![p] = @ \ {i}]
    /\ Commit(GoldRows({p}, money) ++ Write(ItemRow(i), Nobody))
    /\ UNCHANGED <<online, money, db, crashes>>
    /\ UNCHANGED tradeVars

\* HandleUseItemOpcode binds the item before the cast.
HandleUseItem(p, i) ==
    /\ p \in online /\ i \in (inv[p] \cap BindOnUse) \ bound
    /\ bound' = bound \cup {i}
    /\ UNCHANGED <<partner, accepted, offer>>
    /\ UNCHANGED storeVars

\* Money is spent, at a vendor or a trainer; the next save stores it.
Spend(p, g) ==
    /\ p \in online /\ g \in 1 .. money[p]
    /\ money' = [money EXCEPT ![p] = Paid(@, g)]
    /\ UNCHANGED <<online, inv, db, queue, crashes>>
    /\ UNCHANGED tradeVars

Logout(p) ==
    /\ LogoutPlayer(p, [r \in {} |-> r])
    /\ CloseTrade(p)
    /\ UNCHANGED bound

ServerCrash ==
    /\ Crash
    /\ partner' = [p \in Player |-> Nobody]
    /\ accepted' = [p \in Player |-> FALSE]
    /\ offer' = [p \in Player |-> EmptyOffer]
    /\ UNCHANGED bound

-----------------------------------------------------------------------------
Init ==
    /\ StoreInit
    /\ db = InitRows
    /\ partner = [p \in Player |-> Nobody]
    /\ accepted = [p \in Player |-> FALSE]
    /\ offer = [p \in Player |-> EmptyOffer]
    /\ bound = {}

WindowStep(p) ==
    \/ \E q \in Player : HandleInitiateTrade(p, q)
    \/ \E g \in 0 .. MaxMoney : HandleSetTradeGold(p, g)
    \/ \E s \in Slot, i \in Item : HandleSetTradeItem(p, s, i)
    \/ \E s \in Slot : HandleClearTradeItem(p, s)
    \/ CastTradeSpell(p)
    \/ HandleUnacceptTrade(p)
    \/ HandleCancelTrade(p)
    \/ HandleAcceptRefused(p)
    \/ HandleAcceptComplete(p)

PlayerStep(p) ==
    \/ \E i \in Item : HandleSendMail(p, i)
    \/ \E i \in BindOnUse : HandleUseItem(p, i)
    \/ \E g \in 1 .. MaxMoney : Spend(p, g)
    \/ Logout(p)
    \/ LoginPlayer(p) /\ UNCHANGED tradeVars
    \/ \E k \in 1 .. MaxQueue : LoadFromDB(p, k) /\ UNCHANGED tradeVars

Next ==
    \/ \E p \in Player : WindowStep(p) \/ PlayerStep(p)
    \/ \E k \in 1 .. MaxQueue : Execute(k) /\ UNCHANGED tradeVars
    \/ ServerCrash

Spec == Init /\ [][Next]_vars

-----------------------------------------------------------------------------
(***************************************************************************)
(* Properties.                                                             *)
(***************************************************************************)

Offers == [items : [Slot -> Item \cup {NoItem}], gold : Nat, spell : BOOLEAN]

\* Every variable has its type, and a player who is not in the world holds
\* nothing in memory.
TypeOK ==
    /\ StoreTypeOK
    /\ partner \in [Player -> Player \cup {Nobody}]
    /\ accepted \in [Player -> BOOLEAN]
    /\ offer \in [Player -> Offers]
    /\ bound \subseteq Item

\* The two halves of a trade exist together, point at each other and belong to
\* players in the world: TradeData::GetTraderData and m_trader are dereferenced
\* without a test in SetItem, SetMoney, SetSpell and TradeCancel.
TradePaired ==
    \A p \in Player :
        IF Trading(p)
        THEN /\ p \in online /\ partner[p] \in online \ {p}
             /\ partner[partner[p]] = p
        ELSE ~accepted[p] /\ offer[p] = EmptyOffer

\* The items that the window of p shows for the trade.
Shown(p) == {offer[p].items[s] : s \in Slot \ {NonTraded}}

\* x gives and gets nothing but what the window shows.
WithinWindow(x, y) ==
    /\ inv[x] \ inv'[x] \subseteq Shown(x)
    /\ inv'[x] \ inv[x] \subseteq Shown(y)
    /\ money'[x] - (money[x] - offer[x].gold) \in 0 .. offer[y].gold

\* While the acceptance of a player stands, neither side of the window changes;
\* and when the trade is executed, both acceptances stand, and no item and no sum
\* changes hands that is not in the window.  So nobody ever gives what he did not
\* show, or gets what he did not see, at his acceptance.  What was shown need not
\* arrive: an item that was mailed away since (HandleSendMail does not look at the
\* window) is missing from the executed trade.
AcceptanceBinds ==
    [][\A p \in Player :
        /\ accepted[p] /\ accepted'[p] =>
                offer'[p] = offer[p] /\ offer'[partner[p]] = offer[partner[p]]
        /\ HandleAcceptComplete(p) =>
                /\ accepted[partner[p]]
                /\ WithinWindow(p, partner[p]) /\ WithinWindow(partner[p], p)]_vars

\* An item is in one inventory at most, through trades, mails, logouts, logins
\* from the tables and crashes.
ItemOnce ==
    \A p, q \in Player : p # q => inv[p] \cap inv[q] = {}

\* No inventory holds more than its slots and no more than the maximum count
\* of limited items.
BagsRespected ==
    \A p \in Player :
        /\ Cardinality(inv[p]) <= BagSize[p]
        /\ Cardinality(inv[p] \cap Limited) <= Limit

Total(f) == FoldFunction(+, 0, f)

\* Whenever the server crashes, the tables hold no more money than there was,
\* although a trade is stored later than it happens.
NoMoneyCreated ==
    Total([p \in Player |-> db[GoldRow(p)]]) <= Total(InitMoney)

\* What a player in the world holds is what the tables say once the queue is
\* empty; of the money, some may be spent and not yet saved.
MemoryBacked ==
    \A p \in online :
        /\ \A i \in inv[p] : Latest(ItemRow(i)) = p
        /\ money[p] <= Latest(GoldRow(p))

\* What x is left with when the items of y have come.
Exchanged(x, y) == (inv[x] \ TradedItems(x)) \cup TradedItems(y)

\* With the items of y, x stays within the maximum count, if one of them has one.
CountRespected(x, y) ==
    TradedItems(y) \cap Limited # {} =>
        Cardinality(Exchanged(x, y) \cap Limited) <= Limit

\* moveItems, slot after slot, finds the room that CanStoreItems found for all
\* items together: whatever the slots hold, a trade whose items keep to the maximum
\* count is executed as a whole, every item changes hands and nothing else moves.
\* (The maximum count is tested by CanStoreItems for each item alone, so that a
\* later slot may fail without the condition; see ItemsReturned.)
TradedWhole ==
    [][\A p \in Player :
        LET q == partner[p]
        IN  HandleAcceptComplete(p) /\ CountRespected(p, q) /\ CountRespected(q, p) =>
                inv'[p] = Exchanged(p, q) /\ inv'[q] = Exchanged(q, p)]_vars

\* No trade makes an item disappear from both inventories.
ItemsReturned ==
    [][\A p \in Player : HandleAcceptComplete(p) =>
            TradedItems(p) \subseteq inv'[p] \cup inv'[partner[p]]]_vars

=============================================================================
