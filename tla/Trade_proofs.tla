---------------------------- MODULE Trade_proofs ----------------------------
(***************************************************************************)
(* Proofs about Trade, for any number of players, items, slots and         *)
(* crashes and any length of the queue.                                    *)
(*                                                                         *)
(* The window, for any number of workers: TradePaired is inductive with    *)
(* the types of the window, because every step that touches it leaves the  *)
(* partners alone, links two free players, or unlinks a linked pair.       *)
(* A step that changes an offer clears the acceptances of both partners;   *)
(* with the types of the store and the way moveItems deals with the slots, *)
(* AcceptanceBinds follows.                                                *)
(*                                                                         *)
(* The store, for one worker: the queue is the history of the tables still *)
(* to come (CharacterStore_proofs).  MemoryBacked says what its end holds, *)
(* MoneyInv and RoomInv what every moment of it holds, and a login or a    *)
(* crash continues from one of these moments.                              *)
(***************************************************************************)
EXTENDS Trade, CharacterStore_proofs

WindowType ==
    /\ online \subseteq Player
    /\ partner \in [Player -> Player \cup {Nobody}]
    /\ accepted \in [Player -> BOOLEAN]
    /\ offer = [x \in Player |-> offer[x]]

WindowInv == WindowType /\ TradePaired

\* What AcceptanceBinds asks of a step that does not execute a trade.
Binds ==
    \A p \in Player : accepted[p] /\ accepted'[p] =>
        offer'[p] = offer[p] /\ offer'[partner[p]] = offer[partner[p]]

\* The three things that a step can do to a window.
Untouched == UNCHANGED <<partner, offer>> /\ \A x \in Player : ~Trading(x) => ~accepted'[x]
Changed(p) ==
    /\ Trading(p) /\ UNCHANGED partner
    /\ accepted' = [accepted EXCEPT ![p] = FALSE, ![partner[p]] = FALSE]
    /\ offer' = [x \in Player |-> offer'[x]]
    /\ \A x \in Player \ {p, partner[p]} : offer'[x] = offer[x]

-----------------------------------------------------------------------------
\* A step that leaves partners and offers alone keeps the invariant.
LEMMA UntouchedKeeps ==
    ASSUME WindowInv, Untouched, online' = online, accepted' \in [Player -> BOOLEAN]
    PROVE  WindowInv' /\ Binds
<1>1. WindowType' BY DEF WindowInv, WindowType, Untouched
<1>2. TradePaired'
    BY DEF WindowInv, WindowType, TradePaired, Trading, Untouched
<1>3. Binds BY DEF Binds, Untouched
<1> QED BY <1>1, <1>2, <1>3 DEF WindowInv

\* A step that changes the offers of a pair and clears both acceptances keeps
\* the invariant and binds.
LEMMA ChangedKeeps ==
    ASSUME WindowInv, NEW p \in Player, Changed(p), online' = online
    PROVE  WindowInv' /\ Binds
<1>1. partner[p] \in Player /\ partner[partner[p]] = p /\ Nobody \notin Player
    BY StoreAssumption DEF WindowInv, WindowType, TradePaired, Changed, Trading
<1>2. WindowType' BY <1>1 DEF WindowInv, WindowType, Changed
<1>3. TradePaired'
    BY <1>1 DEF WindowInv, WindowType, TradePaired, Trading, Changed
<1>4. ASSUME NEW x \in Player, accepted[x], accepted'[x]
      PROVE  offer'[x] = offer[x] /\ offer'[partner[x]] = offer[partner[x]]
    <2>1. x \notin {p, partner[p]} BY <1>1, <1>4 DEF WindowInv, WindowType, Changed
    <2>2. partner[x] \in Player /\ partner[partner[x]] = x
        BY <1>4, StoreAssumption DEF WindowInv, WindowType, TradePaired, Trading
    <2>3. partner[x] \notin {p, partner[p]} BY <1>1, <2>1, <2>2
    <2> QED BY <2>1, <2>2, <2>3 DEF Changed
<1> QED BY <1>2, <1>3, <1>4 DEF WindowInv, Binds

\* CloseTrade unlinks the pair of p, if there is one; p may leave the world.
LEMMA CloseKeeps ==
    ASSUME WindowInv, NEW p \in Player, CloseTrade(p),
           online' = online \/ online' = online \ {p}
    PROVE  WindowInv' /\ Binds
<1> DEFINE both == IF Trading(p) THEN {p, partner[p]} ELSE {}
<1>1. \A x \in both : partner[x] \in both
    BY StoreAssumption DEF WindowInv, WindowType, TradePaired, Trading
<1>2. \A x \in Player \ both : partner[x] \notin both
    BY StoreAssumption DEF WindowInv, WindowType, TradePaired, Trading
<1>3. /\ partner' = [x \in Player |-> IF x \in both THEN Nobody ELSE partner[x]]
      /\ accepted' = [x \in Player |-> x \notin both /\ accepted[x]]
      /\ offer' = [x \in Player |-> IF x \in both THEN EmptyOffer ELSE offer[x]]
    BY DEF CloseTrade
<1>4. p \notin both => ~Trading(p) BY DEF Trading
<1>5. WindowType' BY <1>3 DEF WindowInv, WindowType
<1> HIDE DEF both
<1>6. TradePaired'
    <2> SUFFICES ASSUME NEW x \in Player
                 PROVE  IF Trading(x)'
                        THEN /\ x \in online' /\ partner'[x] \in online' \ {x}
                             /\ partner'[partner'[x]] = x
                        ELSE ~accepted'[x] /\ offer'[x] = EmptyOffer
        BY DEF TradePaired, Trading
    <2>1. CASE x \in both BY <1>3, <2>1 DEF Trading
    <2>2. CASE x \notin both
        BY <1>2, <1>3, <1>4, <2>2, StoreAssumption
           DEF WindowInv, WindowType, TradePaired, Trading
    <2> QED BY <2>1, <2>2
<1>7. Binds
    <2> SUFFICES ASSUME NEW x \in Player, accepted[x], accepted'[x]
                 PROVE  offer'[x] = offer[x] /\ offer'[partner[x]] = offer[partner[x]]
        BY DEF Binds
    <2>1. x \notin both BY <1>3
    <2>2. partner[x] \in Player
        BY StoreAssumption DEF WindowInv, WindowType, TradePaired, Trading
    <2> QED BY <1>2, <1>3, <2>1, <2>2
<1> QED BY <1>5, <1>6, <1>7 DEF WindowInv

-----------------------------------------------------------------------------
\* The setters of TradeData change the window of p or leave it untouched.
LEMMA SettersChange ==
    ASSUME WindowInv, NEW p \in Player, Trading(p), partner' = partner,
           \/ \E g : SetMoney(p, g)
           \/ \E s, i : SetItem(p, s, i)
           \/ \E on : SetSpell(p, on)
    PROVE  Changed(p) \/ (Untouched /\ accepted' = accepted)
<1>1. partner[p] \in Player
    BY StoreAssumption DEF WindowInv, WindowType, Trading
<1>2. UNCHANGED <<accepted, offer>> => Untouched /\ accepted' = accepted
    BY DEF Untouched, WindowInv, TradePaired, Trading
<1>3. ASSUME NEW g, SetMoney(p, g) PROVE Changed(p) \/ UNCHANGED <<accepted, offer>>
    BY <1>1, <1>3 DEF SetMoney, SetAccepted, Changed, WindowInv, WindowType
<1>4. ASSUME NEW s, NEW i, SetItem(p, s, i)
      PROVE  Changed(p) \/ UNCHANGED <<accepted, offer>>
    BY <1>1, <1>4 DEF SetItem, SetAccepted, Changed, WindowInv, WindowType
<1>5. ASSUME NEW on, SetSpell(p, on) PROVE Changed(p) \/ UNCHANGED <<accepted, offer>>
    BY <1>1, <1>5 DEF SetSpell, SetAccepted, Changed, WindowInv, WindowType
<1> QED BY <1>2, <1>3, <1>4, <1>5

\* What the handlers of the window do to it.
LEMMA WindowStepKeeps ==
    ASSUME WindowInv, NEW p \in Player, WindowStep(p)
    PROVE  WindowInv' /\ Binds
<1> USE DEF storeVars
<1>1. ASSUME NEW q \in Player, HandleInitiateTrade(p, q) PROVE WindowInv' /\ Binds
    <2> USE <1>1 DEF HandleInitiateTrade
    <2>1. WindowType' BY DEF WindowInv, WindowType
    <2>2. \A x \in Player \ {p, q} : partner[x] \notin {p, q}
        BY StoreAssumption DEF WindowInv, WindowType, TradePaired, Trading
    <2>3. TradePaired'
        BY <2>2, StoreAssumption DEF WindowInv, WindowType, TradePaired, Trading
    <2>4. Binds BY DEF Binds
    <2> QED BY <2>1, <2>3, <2>4 DEF WindowInv
<1>2. ASSUME Trading(p), UNCHANGED partner, online' = online,
             \/ \E g : SetMoney(p, g)
             \/ \E s, i : SetItem(p, s, i)
             \/ \E on : SetSpell(p, on)
      PROVE  WindowInv' /\ Binds
    <2>1. Changed(p) \/ (Untouched /\ accepted' = accepted) BY <1>2, SettersChange
    <2>2. accepted \in [Player -> BOOLEAN] BY DEF WindowInv, WindowType
    <2> QED BY <1>2, <2>1, <2>2, ChangedKeeps, UntouchedKeeps
<1>3. ASSUME NEW g \in 0 .. MaxMoney, HandleSetTradeGold(p, g) PROVE WindowInv' /\ Binds
    BY <1>2, <1>3 DEF HandleSetTradeGold
<1>4. ASSUME NEW s \in Slot, NEW i \in Item, HandleSetTradeItem(p, s, i)
      PROVE  WindowInv' /\ Binds
    BY <1>2, <1>4 DEF HandleSetTradeItem
<1>5. ASSUME NEW s \in Slot, HandleClearTradeItem(p, s) PROVE WindowInv' /\ Binds
    BY <1>2, <1>5 DEF HandleClearTradeItem
<1>6. CASE CastTradeSpell(p) BY <1>2, <1>6 DEF CastTradeSpell
<1>7. CASE HandleUnacceptTrade(p)
    <2>1. Untouched /\ accepted' \in [Player -> BOOLEAN] /\ online' = online
        BY <1>7 DEF HandleUnacceptTrade, Untouched, WindowInv, WindowType, TradePaired, Trading
    <2> QED BY <2>1, UntouchedKeeps
<1>8. CASE HandleCancelTrade(p) BY <1>8, CloseKeeps DEF HandleCancelTrade
<1>9. CASE HandleAcceptRefused(p)
    <2> DEFINE q == partner[p]
    <2>1. q \in Player /\ Trading(p) /\ Trading(q) /\ UNCHANGED partner /\ online' = online
        BY <1>9, StoreAssumption
           DEF HandleAcceptRefused, WindowInv, WindowType, TradePaired, Trading
    <2>2. CASE AcceptSpellFails(p, q)
        <3>1. Changed(p)
            BY <2>1, <2>2 DEF AcceptSpellFails, SetAccepted, Changed, WindowInv, WindowType
        <3> QED BY <2>1, <3>1, ChangedKeeps
    <2>3. CASE \/ AcceptPoor(p, q) \/ AcceptTraderPoor(p, q) \/ AcceptUntradable(p, q)
               \/ AcceptWait(p, q) \/ AcceptNoSpace(p, q)
        <3>1. Untouched /\ accepted' \in [Player -> BOOLEAN]
            BY <2>1, <2>3
               DEF AcceptPoor, AcceptTraderPoor, AcceptUntradable, AcceptWait,
                   AcceptNoSpace, SetAccepted, Untouched, WindowInv, WindowType,
                   TradePaired, Trading
        <3> QED BY <2>1, <3>1, UntouchedKeeps
    <2> QED BY <1>9, <2>2, <2>3 DEF HandleAcceptRefused
<1>10. CASE HandleAcceptComplete(p)
    BY <1>10, CloseKeeps DEF HandleAcceptComplete
<1> QED BY <1>1, <1>3, <1>4, <1>5, <1>6, <1>7, <1>8, <1>9, <1>10 DEF WindowStep

\* What else the players do leaves the windows alone or closes them.
LEMMA PlayerStepKeeps ==
    ASSUME WindowInv, NEW p \in Player, PlayerStep(p)
    PROVE  WindowInv' /\ Binds
<1>1. ASSUME UNCHANGED <<partner, accepted, offer>>,
             online' = online \/ online' = online \cup {p}
      PROVE  WindowInv' /\ Binds
    <2>1. WindowType' BY <1>1 DEF WindowInv, WindowType
    <2>2. TradePaired' BY <1>1 DEF WindowInv, WindowType, TradePaired, Trading
    <2>3. Binds BY <1>1 DEF Binds
    <2> QED BY <2>1, <2>2, <2>3 DEF WindowInv
<1>2. CASE Logout(p) BY <1>2, CloseKeeps DEF Logout, LogoutPlayer
<1>3. ASSUME NEW i \in Item, HandleSendMail(p, i) PROVE WindowInv' /\ Binds
    BY <1>1, <1>3 DEF HandleSendMail, tradeVars
<1>4. ASSUME NEW i \in BindOnUse, HandleUseItem(p, i) PROVE WindowInv' /\ Binds
    BY <1>1, <1>4 DEF HandleUseItem, storeVars
<1>5. ASSUME NEW g \in 1 .. MaxMoney, Spend(p, g) PROVE WindowInv' /\ Binds
    BY <1>1, <1>5 DEF Spend, tradeVars
<1>6. CASE LoginPlayer(p) /\ UNCHANGED tradeVars
    BY <1>1, <1>6 DEF LoginPlayer, tradeVars
<1>7. ASSUME NEW k \in 1 .. MaxQueue, LoadFromDB(p, k) /\ UNCHANGED tradeVars
      PROVE  WindowInv' /\ Binds
    BY <1>1, <1>7 DEF LoadFromDB, tradeVars
<1> QED BY <1>2, <1>3, <1>4, <1>5, <1>6, <1>7 DEF PlayerStep

\* A crash closes every window.
LEMMA CrashKeeps ==
    ASSUME WindowInv, ServerCrash PROVE WindowInv' /\ Binds
<1>1. WindowType' BY DEF ServerCrash, Crash, WindowType
<1>2. TradePaired' BY DEF ServerCrash, TradePaired, Trading
<1>3. Binds BY DEF ServerCrash, Binds
<1> QED BY <1>1, <1>2, <1>3 DEF WindowInv

\* Every step keeps the invariant and binds.
LEMMA StepKeeps ==
    ASSUME WindowInv, [Next]_vars PROVE WindowInv' /\ Binds
<1>1. ASSUME UNCHANGED <<partner, accepted, offer, online>> PROVE WindowInv' /\ Binds
    <2>1. WindowType' BY <1>1 DEF WindowInv, WindowType
    <2>2. TradePaired' BY <1>1 DEF WindowInv, TradePaired, Trading
    <2>3. Binds BY <1>1 DEF Binds
    <2> QED BY <2>1, <2>2, <2>3 DEF WindowInv
<1>2. CASE UNCHANGED vars BY <1>1, <1>2 DEF vars
<1>3. ASSUME NEW k \in 1 .. MaxQueue, Execute(k), UNCHANGED tradeVars
      PROVE  WindowInv' /\ Binds
    BY <1>1, <1>3 DEF Execute, tradeVars
<1> QED BY <1>2, <1>3, WindowStepKeeps, PlayerStepKeeps, CrashKeeps DEF Next

-----------------------------------------------------------------------------
\* The invariant of the trade window: both halves exist together, whatever the
\* handlers, logouts, logins and crashes do.
THEOREM WindowInvariant == Spec => []WindowInv
<1>1. Init => WindowInv
    BY DEF Init, StoreInit, WindowInv, WindowType, TradePaired, Trading
<1>2. WindowInv /\ [Next]_vars => WindowInv' BY StepKeeps
<1> QED BY <1>1, <1>2, PTL DEF Spec

\* TradeData::GetTraderData and m_trader never point at a trade that is gone.
THEOREM TradesPaired == Spec => []TradePaired
<1>1. WindowInv => TradePaired BY DEF WindowInv
<1> QED BY <1>1, WindowInvariant, PTL

-----------------------------------------------------------------------------
(***************************************************************************)
(* The items.  moveItems deals with the slots one after the other; what it *)
(* makes of the two bags is shown by induction over the slots.             *)
(***************************************************************************)

Bags(p, q) == [{p, q} -> SUBSET Item]

\* The bags c are b with the two items exchanged, or with some of them returned.
Moved(b, c, p, q, mine, his) ==
    \/ /\ c[p] = (b[p] \cup {his}) \ {NoItem}
       /\ c[q] = (b[q] \cup {mine}) \ {NoItem}
    \/ /\ c[p] \in {b[p], (b[p] \cup {mine}) \ {NoItem}}
       /\ c[q] \in {b[q], (b[q] \cup {his}) \ {NoItem}}

\* One slot: each item ends on one side at most.
LEMMA MoveSlotMoves ==
    ASSUME NEW p \in Player, NEW q \in Player, p # q, NEW b \in Bags(p, q),
           NEW mine \in Item \cup {NoItem}, NEW his \in Item \cup {NoItem}
    PROVE  /\ MoveSlot(b, p, q, mine, his) \in Bags(p, q)
           /\ Moved(b, MoveSlot(b, p, q, mine, his), p, q, mine, his)
<1> DEFINE Fits(x, i) == i = NoItem \/ CanStoreItem(x, b[x], i)
           With(x, i) == (b[x] \cup {i}) \ {NoItem}
           Taken(x, i) == IF i # NoItem /\ Fits(x, i) THEN 1 ELSE 0
           Back(x, own, other) ==
               IF Fits(x, own) /\ Cardinality(b[x]) + Taken(x, other) < BagSize[x]
               THEN With(x, own) ELSE b[x]
           c == MoveSlot(b, p, q, mine, his)
<1>1. c = IF Fits(q, mine) /\ Fits(p, his)
          THEN [x \in {p, q} |-> With(x, IF x = p THEN his ELSE mine)]
          ELSE [x \in {p, q} |-> IF x = p THEN Back(p, mine, his) ELSE Back(q, his, mine)]
    BY Zenon DEF MoveSlot
<1>2. Back(p, mine, his) \in {b[p], With(p, mine)} /\ Back(q, his, mine) \in {b[q], With(q, his)}
    OBVIOUS
<1> HIDE DEF Fits, Back, c
<1>3. /\ b[p] \in SUBSET Item /\ b[q] \in SUBSET Item
      /\ \A x \in {p, q}, i \in Item \cup {NoItem} : With(x, i) \in SUBSET Item
    BY DEF Bags
<1>4. CASE Fits(q, mine) /\ Fits(p, his)
    <2>1. c = [x \in {p, q} |-> With(x, IF x = p THEN his ELSE mine)] BY <1>1, <1>4
    <2>2. c[p] = With(p, his) /\ c[q] = With(q, mine) BY <2>1
    <2> QED BY <1>3, <2>1, <2>2 DEF Bags, Moved, c
<1>5. CASE ~(Fits(q, mine) /\ Fits(p, his))
    <2>1. c = [x \in {p, q} |-> IF x = p THEN Back(p, mine, his) ELSE Back(q, his, mine)]
        BY <1>1, <1>5
    <2>2. c[p] = Back(p, mine, his) /\ c[q] = Back(q, his, mine) BY <2>1
    <2>3. c \in Bags(p, q) BY <1>2, <1>3, <2>1 DEF Bags
    <2> QED BY <1>2, <2>2, <2>3 DEF Moved, c
<1> QED BY <1>4, <1>5

\* No item lies in two slots of one side.
OffersDistinct ==
    \A p \in Player : \A s, t \in Slot :
        s # t /\ offer[p].items[s] = offer[p].items[t] => offer[p].items[s] = NoItem

\* The bags hold items of the two inventories only, none of them twice and none
\* that is still to be moved, when the slots before n are done.
Sorted(b, p, q, n) ==
    /\ b[p] \cup b[q] \subseteq inv[p] \cup inv[q]
    /\ b[p] \cap b[q] = {}
    /\ \A s \in n .. TradedCount - 1 : {GetItem(p, s), GetItem(q, s)} \cap (b[p] \cup b[q]) = {}

\* moveItems as a history of the bags, slot after slot.
LEMMA MoveItemsHistory ==
    ASSUME NEW p \in Player, NEW q \in Player, p # q,
           inv \in [Player -> SUBSET Item], offer \in [Player -> Offers]
    PROVE  \E f : /\ MoveItems(p, q) = f[TradedCount]
                  /\ f[0] = [x \in {p, q} |-> inv[x] \ TradedItems(x)]
                  /\ \A n \in 1 .. TradedCount :
                        f[n] = MoveSlot(f[n - 1], p, q, GetItem(p, n - 1), GetItem(q, n - 1))
<1> DEFINE start == [x \in {p, q} |-> inv[x] \ TradedItems(x)]
           B == Bags(p, q)
           Move(b, n) == MoveSlot(b, p, q, GetItem(p, n - 1), GetItem(q, n - 1))
           h == [n \in 1 .. TradedCount |-> [b \in B |-> Move(b, n)]]
<1>1. TradedCount \in Nat BY TradeAssumption
<1>2. start \in B BY DEF Bags
<1>3. \A x \in Player, s \in Slot : GetItem(x, s) \in Item \cup {NoItem}
    BY DEF GetItem
<1>4. ASSUME NEW n \in 1 .. TradedCount, NEW b \in B PROVE Move(b, n) \in B
    <2>1. n - 1 \in Slot BY <1>1 DEF Slot
    <2>2. GetItem(p, n - 1) \in Item \cup {NoItem} /\ GetItem(q, n - 1) \in Item \cup {NoItem}
        BY <1>3, <2>1
    <2> QED BY <2>2, MoveSlotMoves
<1>5. h \in Steps(B, TradedCount) BY <1>4 DEF Steps
<1> HIDE DEF start, B, Move
<1>6. PICK f \in [0 .. TradedCount -> B] :
        f[0] = start /\ \A n \in 1 .. TradedCount : f[n] = h[n][f[n - 1]]
    <2> HIDE DEF h
    <2>1. Histories(B, start, TradedCount, h) # {} BY <1>1, <1>2, <1>5, Iterates, Zenon
    <2> QED BY <2>1 DEF Histories
<1>7. \A n \in 1 .. TradedCount : f[n] = Move(f[n - 1], n)
    <2> SUFFICES ASSUME NEW n \in 1 .. TradedCount PROVE f[n] = Move(f[n - 1], n) OBVIOUS
    <2>1. f[n - 1] \in B BY <1>1, <1>6
    <2>2. f[n] = h[n][f[n - 1]] BY <1>6
    <2> QED BY <2>1, <2>2
<1>8. f = [n \in 0 .. TradedCount |-> IF n = 0 THEN start ELSE Move(f[n - 1], n)]
    <2>1. ASSUME NEW n \in 0 .. TradedCount
          PROVE  f[n] = IF n = 0 THEN start ELSE Move(f[n - 1], n)
        BY <1>1, <1>6, <1>7
    <2> HIDE DEF h
    <2> QED BY <1>6, <2>1
<1> DEFINE after[n \in 0 .. TradedCount] == IF n = 0 THEN start ELSE Move(after[n - 1], n)
<1>9. after = [n \in 0 .. TradedCount |-> IF n = 0 THEN start ELSE Move(after[n - 1], n)]
    BY <1>8, Zenon
<1>10. MoveItems(p, q) = after[TradedCount] BY Zenon DEF MoveItems, start, Move
<1> HIDE DEF after
<1>11. after[0] = start /\ \A n \in 1 .. TradedCount : after[n] = Move(after[n - 1], n)
    BY <1>1, <1>9
<1> QED BY <1>10, <1>11, Zenon DEF start, Move

\* What a slot offers, in terms of the inventory.
LEMMA OfferedItems ==
    ASSUME NEW p \in Player, inv \in [Player -> SUBSET Item], offer \in [Player -> Offers],
           OffersDistinct
    PROVE  /\ \A s \in Slot : GetItem(p, s) \in inv[p] \cup {NoItem}
           /\ \A s \in 0 .. TradedCount - 1 : GetItem(p, s) \in TradedItems(p) \cup {NoItem}
           /\ \A s, t \in Slot : s # t /\ GetItem(p, s) = GetItem(p, t) => GetItem(p, s) = NoItem
<1>1. \A s \in Slot : GetItem(p, s) \in inv[p] \cup {NoItem} BY DEF GetItem
<1>2. \A s \in 0 .. TradedCount - 1 : s \in Slot \ {NonTraded}
    BY TradeAssumption DEF Slot, NonTraded
<1>3. \A s \in 0 .. TradedCount - 1 : GetItem(p, s) \in TradedItems(p) \cup {NoItem}
    BY <1>2 DEF TradedItems
<1>4. \A s \in Slot : GetItem(p, s) # NoItem => GetItem(p, s) = offer[p].items[s]
    BY DEF GetItem
<1> QED BY <1>1, <1>3, <1>4 DEF OffersDistinct

\* moveItems: no item is in both bags and none is made up.
LEMMA MoveItemsSorted ==
    ASSUME NEW p \in Player, NEW q \in Player, p # q,
           inv \in [Player -> SUBSET Item], offer \in [Player -> Offers],
           OffersDistinct, inv[p] \cap inv[q] = {}
    PROVE  /\ MoveItems(p, q) \in Bags(p, q)
           /\ MoveItems(p, q)[p] \cup MoveItems(p, q)[q] \subseteq inv[p] \cup inv[q]
           /\ MoveItems(p, q)[p] \cap MoveItems(p, q)[q] = {}
<1>1. TradedCount \in Nat /\ NoItem \notin Item BY TradeAssumption
<1>2. PICK f : /\ MoveItems(p, q) = f[TradedCount]
               /\ f[0] = [x \in {p, q} |-> inv[x] \ TradedItems(x)]
               /\ \A n \in 1 .. TradedCount :
                     f[n] = MoveSlot(f[n - 1], p, q, GetItem(p, n - 1), GetItem(q, n - 1))
    BY MoveItemsHistory
<1>3. /\ inv[p] \subseteq Item /\ inv[q] \subseteq Item
      /\ \A s \in Slot : GetItem(p, s) \in inv[p] \cup {NoItem} /\ GetItem(q, s) \in inv[q] \cup {NoItem}
      /\ \A s \in 0 .. TradedCount - 1 : /\ GetItem(p, s) \in TradedItems(p) \cup {NoItem}
                                         /\ GetItem(q, s) \in TradedItems(q) \cup {NoItem}
      /\ \A s, t \in Slot : s # t => /\ GetItem(p, s) = GetItem(p, t) => GetItem(p, s) = NoItem
                                     /\ GetItem(q, s) = GetItem(q, t) => GetItem(q, s) = NoItem
    BY OfferedItems
<1>4. \A n \in 1 .. TradedCount : n - 1 \in Slot /\ n - 1 \in 0 .. TradedCount - 1
    BY <1>1 DEF Slot
<1> DEFINE P == {n \in Nat : n <= TradedCount => f[n] \in Bags(p, q) /\ Sorted(f[n], p, q, n)}
<1>5. 0 \in P
    <2>1. f[0] \in Bags(p, q) BY <1>2, <1>3 DEF Bags
    <2>2. f[0][p] = inv[p] \ TradedItems(p) /\ f[0][q] = inv[q] \ TradedItems(q) BY <1>2
    <2>3. ASSUME NEW s \in 0 .. TradedCount - 1
          PROVE  {GetItem(p, s), GetItem(q, s)} \cap (f[0][p] \cup f[0][q]) = {}
        <3>1. s \in Slot BY <1>1 DEF Slot
        <3>2. GetItem(p, s) \notin f[0][p] \cup f[0][q] BY <1>1, <1>3, <2>2, <3>1
        <3>3. GetItem(q, s) \notin f[0][p] \cup f[0][q] BY <1>1, <1>3, <2>2, <3>1
        <3> QED BY <3>2, <3>3
    <2> QED BY <2>1, <2>2, <2>3 DEF Sorted
<1>6. ASSUME NEW n \in Nat, n \in P PROVE n + 1 \in P
    <2>1. SUFFICES ASSUME n + 1 <= TradedCount
                   PROVE  f[n + 1] \in Bags(p, q) /\ Sorted(f[n + 1], p, q, n + 1)
        OBVIOUS
    <2> DEFINE mine == GetItem(p, n)
               his == GetItem(q, n)
               b == f[n]
               c == f[n + 1]
    <2>2. b \in Bags(p, q) /\ Sorted(b, p, q, n) BY <1>1, <1>6, <2>1
    <2>3. n \in Slot /\ n \in n .. TradedCount - 1 BY <1>1, <2>1 DEF Slot
    <2>4. mine \in inv[p] \cup {NoItem} /\ his \in inv[q] \cup {NoItem} BY <1>3, <2>3
    <2>5. c = MoveSlot(b, p, q, mine, his)
        <3>1. n + 1 \in 1 .. TradedCount /\ (n + 1) - 1 = n BY <1>1, <2>1
        <3>2. f[n + 1] = MoveSlot(f[(n + 1) - 1], p, q, GetItem(p, (n + 1) - 1), GetItem(q, (n + 1) - 1))
            BY <1>2, <3>1, Zenon
        <3> QED BY <3>1, <3>2
    <2>6. {mine, his} \cap (b[p] \cup b[q]) = {} BY <2>2, <2>3 DEF Sorted
    <2>7. \A s \in n + 1 .. TradedCount - 1 :
            {GetItem(p, s), GetItem(q, s)} \cap (b[p] \cup b[q] \cup ({mine, his} \ {NoItem})) = {}
        <3> SUFFICES ASSUME NEW s \in n + 1 .. TradedCount - 1
                     PROVE  {GetItem(p, s), GetItem(q, s)}
                                \cap (b[p] \cup b[q] \cup ({mine, his} \ {NoItem})) = {}
            OBVIOUS
        <3>1. s \in Slot /\ s # n /\ s \in n .. TradedCount - 1 BY <1>1 DEF Slot
        <3>2. {GetItem(p, s), GetItem(q, s)} \cap (b[p] \cup b[q]) = {} BY <2>2, <3>1 DEF Sorted
        <3>3. GetItem(p, s) \notin {mine, his} \ {NoItem} BY <1>1, <1>3, <2>3, <2>4, <3>1
        <3>4. GetItem(q, s) \notin {mine, his} \ {NoItem} BY <1>1, <1>3, <2>3, <2>4, <3>1
        <3> QED BY <3>2, <3>3, <3>4
    <2>8. mine = his => mine = NoItem BY <1>3, <2>4
    <2> HIDE DEF mine, his, b, c
    <2>9. c \in Bags(p, q) /\ Moved(b, c, p, q, mine, his)
        BY <1>3, <2>2, <2>4, <2>5, MoveSlotMoves
    <2>10. b[p] \cup b[q] \subseteq inv[p] \cup inv[q] /\ b[p] \cap b[q] = {} BY <2>2 DEF Sorted
    <2>11. /\ c[p] \cup c[q] \subseteq b[p] \cup b[q] \cup ({mine, his} \ {NoItem})
           /\ c[p] \cap c[q] = {}
        BY <2>6, <2>8, <2>9, <2>10 DEF Moved
    <2>12. c[p] \cup c[q] \subseteq inv[p] \cup inv[q] BY <2>4, <2>10, <2>11
    <2>13. Sorted(c, p, q, n + 1) BY <2>7, <2>11, <2>12 DEF Sorted
    <2> QED BY <2>9, <2>13 DEF c
<1> HIDE DEF P
<1>7. TradedCount \in P BY <1>1, <1>5, <1>6, SetInduction
<1>8. f[TradedCount] \in Bags(p, q) /\ Sorted(f[TradedCount], p, q, TradedCount) BY <1>1, <1>7 DEF P
<1> QED BY <1>2, <1>8 DEF Sorted

\* The bags hold what was not offered, and of the other side's items offered ones only.
Between(b, x, y) ==
    /\ inv[x] \ TradedItems(x) \subseteq b
    /\ b \subseteq inv[x] \cup TradedItems(y)

\* moveItems: nothing leaves or enters a bag that was not offered.
LEMMA MoveItemsWithin ==
    ASSUME NEW p \in Player, NEW q \in Player, p # q,
           inv \in [Player -> SUBSET Item], offer \in [Player -> Offers], OffersDistinct
    PROVE  /\ Between(MoveItems(p, q)[p], p, q)
           /\ Between(MoveItems(p, q)[q], q, p)
<1>1. TradedCount \in Nat /\ NoItem \notin Item BY TradeAssumption
<1>2. PICK f : /\ MoveItems(p, q) = f[TradedCount]
               /\ f[0] = [x \in {p, q} |-> inv[x] \ TradedItems(x)]
               /\ \A n \in 1 .. TradedCount :
                     f[n] = MoveSlot(f[n - 1], p, q, GetItem(p, n - 1), GetItem(q, n - 1))
    BY MoveItemsHistory
<1>3. /\ inv[p] \subseteq Item /\ inv[q] \subseteq Item
      /\ \A s \in 0 .. TradedCount - 1 : /\ GetItem(p, s) \in TradedItems(p) \cup {NoItem}
                                         /\ GetItem(q, s) \in TradedItems(q) \cup {NoItem}
    BY OfferedItems
<1>4. TradedItems(p) \subseteq inv[p] /\ TradedItems(q) \subseteq inv[q]
    BY DEF TradedItems, GetItem
<1> DEFINE P == {n \in Nat : n <= TradedCount =>
                    f[n] \in Bags(p, q) /\ Between(f[n][p], p, q) /\ Between(f[n][q], q, p)}
<1>5. 0 \in P
    <2>1. f[0] \in Bags(p, q) BY <1>2, <1>3 DEF Bags
    <2>2. f[0][p] = inv[p] \ TradedItems(p) /\ f[0][q] = inv[q] \ TradedItems(q) BY <1>2
    <2> QED BY <2>1, <2>2 DEF Between
<1>6. ASSUME NEW n \in Nat, n \in P PROVE n + 1 \in P
    <2>1. SUFFICES ASSUME n + 1 <= TradedCount
                   PROVE  /\ f[n + 1] \in Bags(p, q)
                          /\ Between(f[n + 1][p], p, q) /\ Between(f[n + 1][q], q, p)
        OBVIOUS
    <2> DEFINE mine == GetItem(p, n)
               his == GetItem(q, n)
               b == f[n]
               c == f[n + 1]
    <2>2. b \in Bags(p, q) /\ Between(b[p], p, q) /\ Between(b[q], q, p) BY <1>1, <1>6, <2>1
    <2>3. n \in 0 .. TradedCount - 1 BY <1>1, <2>1
    <2>4. mine \in TradedItems(p) \cup {NoItem} /\ his \in TradedItems(q) \cup {NoItem}
        BY <1>3, <2>3
    <2>5. c = MoveSlot(b, p, q, mine, his)
        <3>1. n + 1 \in 1 .. TradedCount /\ (n + 1) - 1 = n BY <1>1, <2>1
        <3>2. f[n + 1] = MoveSlot(f[(n + 1) - 1], p, q, GetItem(p, (n + 1) - 1), GetItem(q, (n + 1) - 1))
            BY <1>2, <3>1, Zenon
        <3> QED BY <3>1, <3>2
    <2> HIDE DEF mine, his, b, c
    <2>6. mine \in Item \cup {NoItem} /\ his \in Item \cup {NoItem} BY <1>3, <1>4, <2>4
    <2>7. c \in Bags(p, q) /\ Moved(b, c, p, q, mine, his) BY <2>2, <2>5, <2>6, MoveSlotMoves
    <2>8. NoItem \notin inv[p] /\ NoItem \notin inv[q] BY <1>1, <1>3
    <2>9. Between(c[p], p, q) BY <1>4, <2>2, <2>4, <2>7, <2>8 DEF Between, Moved
    <2>10. Between(c[q], q, p) BY <1>4, <2>2, <2>4, <2>7, <2>8 DEF Between, Moved
    <2> QED BY <2>7, <2>9, <2>10 DEF c
<1> HIDE DEF P
<1>7. TradedCount \in P BY <1>1, <1>5, <1>6, SetInduction
<1> QED BY <1>1, <1>2, <1>7 DEF P

-----------------------------------------------------------------------------
(***************************************************************************)
(* The store under the trade, with one worker.                             *)
(***************************************************************************)

RowNames == {GoldRow(p) : p \in Player} \cup {ItemRow(i) : i \in Item}
RowValue == Nat \cup Player \cup {Nobody}
Transactions == UNION {[D -> RowValue] : D \in SUBSET RowNames}
Entries == [load : Player \cup {Nobody}, rows : Transactions]

QueueTypes ==
    /\ queue \in Seq(Entries)
    /\ db \in [RowNames -> RowValue]
    /\ \A p \in Player : db[GoldRow(p)] \in Nat
    /\ \A k \in DOMAIN queue : \A p \in Player :
            GoldRow(p) \in DOMAIN queue[k].rows => queue[k].rows[GoldRow(p)] \in Nat

\* A player whose query is under way is not in the world, and it is the only one
\* of this player.  A query writes nothing.
QueriesApart ==
    \A k \in DOMAIN queue : queue[k].load # Nobody =>
        /\ DOMAIN queue[k].rows = {}
        /\ queue[k].load \notin online
        /\ \A l \in DOMAIN queue : l # k => queue[l].load # queue[k].load

\* What a query will find of its player is not changed by the entries behind it.
QueriesCurrent ==
    \A k \in DOMAIN queue : \A p \in Player : queue[k].load = p =>
        /\ Value(k, GoldRow(p)) = Latest(GoldRow(p))
        /\ \A i \in Item : Value(k, ItemRow(i)) = p <=> Latest(ItemRow(i)) = p

QueueInv == QueueTypes /\ QueriesApart /\ QueriesCurrent

\* Rows of different players, items or tables are different.
LEMMA RowsDiffer ==
    /\ \A p, q : GoldRow(p) = GoldRow(q) => p = q
    /\ \A i, j : ItemRow(i) = ItemRow(j) => i = j
    /\ \A p, i : GoldRow(p) # ItemRow(i)
    /\ \A p \in Player : GoldRow(p) \in RowNames
    /\ \A i \in Item : ItemRow(i) \in RowNames
  BY DEF GoldRow, ItemRow, RowNames

\* A function on rows with the right values is a transaction.
LEMMA TransactionType ==
    ASSUME NEW f, f = [r \in DOMAIN f |-> f[r]], DOMAIN f \subseteq RowNames,
           \A r \in DOMAIN f : f[r] \in RowValue
    PROVE  f \in Transactions
<1>1. f \in [DOMAIN f -> RowValue] OBVIOUS
<1> QED BY <1>1 DEF Transactions

\* A transaction that writes only the money of players in the world and items
\* that belong to them leaves what the queries will find.
LEMMA CommitKeeps ==
    ASSUME QueueInv, NEW rows \in Transactions, Commit(rows), db' = db, online' \subseteq online,
           online \subseteq Player,
           \A p \in Player : GoldRow(p) \in DOMAIN rows => p \in online /\ rows[GoldRow(p)] \in Nat,
           \A i \in Item : ItemRow(i) \in DOMAIN rows =>
                Latest(ItemRow(i)) \in online /\ rows[ItemRow(i)] \in online \cup {Nobody}
    PROVE  /\ QueueInv'
           /\ \A r : Latest(r)' = IF r \in DOMAIN rows THEN rows[r] ELSE Latest(r)
<1> DEFINE e == [load |-> Nobody, rows |-> rows]
<1>1. e \in Entries /\ queue \in Seq(Entries) /\ queue' = Append(queue, e) /\ Nobody \notin Player
    BY StoreAssumption DEF Entries, Commit, QueueInv, QueueTypes
<1>2. /\ \A r : \A n \in 0 .. Len(queue) : Value(n, r)' = Value(n, r)
      /\ \A r : Latest(r)' = IF r \in DOMAIN rows THEN rows[r] ELSE Latest(r)
      /\ Len(queue') = Len(queue) + 1 /\ queue' \in Seq(Entries)
    <2>1. e.rows = rows OBVIOUS
    <2> HIDE DEF e
    <2> QED BY <1>1, <2>1, AppendValues
<1>3. /\ DOMAIN queue' = DOMAIN queue \cup {Len(queue) + 1}
      /\ \A k \in DOMAIN queue : queue'[k] = queue[k] /\ k \in 0 .. Len(queue)
      /\ queue'[Len(queue) + 1] = e
    BY <1>1, <1>2, AppendProperties, LenProperties
<1>4. \A k \in DOMAIN queue' : \/ k \in DOMAIN queue /\ queue'[k] = queue[k]
                               \/ queue'[k].load = Nobody /\ queue'[k].rows = rows
    BY <1>3
<1> HIDE DEF e
<1>5. QueueTypes' BY <1>2, <1>4 DEF QueueInv, QueueTypes
<1>6. QueriesApart' BY <1>4 DEF QueueInv, QueriesApart
<1>7. QueriesCurrent'
    <2> SUFFICES ASSUME NEW k \in DOMAIN queue', NEW p \in Player, queue'[k].load = p
                 PROVE  /\ Value(k, GoldRow(p))' = Latest(GoldRow(p))'
                        /\ \A i \in Item : Value(k, ItemRow(i))' = p <=> Latest(ItemRow(i))' = p
        BY DEF QueriesCurrent
    <2>1. k \in DOMAIN queue /\ queue[k].load = p /\ k \in 0 .. Len(queue)
        BY <1>1, <1>3, <1>4
    <2>2. p \notin online BY <1>1, <2>1 DEF QueueInv, QueriesApart
    <2>3. /\ Value(k, GoldRow(p)) = Latest(GoldRow(p))
          /\ \A i \in Item : Value(k, ItemRow(i)) = p <=> Latest(ItemRow(i)) = p
        BY <2>1 DEF QueueInv, QueriesCurrent
    <2>4. Latest(GoldRow(p))' = Latest(GoldRow(p)) BY <1>2, <2>2
    <2>5. \A i \in Item : Latest(ItemRow(i))' = p <=> Latest(ItemRow(i)) = p
        BY <1>1, <1>2, <2>2
    <2> QED BY <1>2, <2>1, <2>3, <2>4, <2>5
<1> QED BY <1>2, <1>5, <1>6, <1>7 DEF QueueInv

\* The query of a player who logs in finds what the tables say in the end.
LEMMA QueryKeeps ==
    ASSUME QueueInv, NEW p \in Player, LoginPlayer(p)
    PROVE  QueueInv' /\ \A r : Latest(r)' = Latest(r)
<1> DEFINE e == Query(p)
<1>1. e \in Entries /\ queue \in Seq(Entries) /\ queue' = Append(queue, e) /\ db' = db
    <2>1. e.rows \in Transactions BY TransactionType DEF Query
    <2> QED BY <2>1 DEF Entries, LoginPlayer, Query, QueueInv, QueueTypes
<1>2. e.load = p /\ DOMAIN e.rows = {} /\ p # Nobody BY StoreAssumption DEF Query
<1> HIDE DEF e
<1>3. /\ \A r : \A n \in 0 .. Len(queue) : Value(n, r)' = Value(n, r)
      /\ \A r : Latest(r)' = Latest(r)
      /\ \A r : \A n : n = Len(queue) + 1 => Value(n, r)' = Latest(r)'
      /\ Len(queue') = Len(queue) + 1 /\ queue' \in Seq(Entries)
    BY <1>1, <1>2, AppendValues
<1>4. /\ DOMAIN queue' = DOMAIN queue \cup {Len(queue) + 1}
      /\ \A k \in DOMAIN queue : queue'[k] = queue[k] /\ k \in 0 .. Len(queue)
      /\ queue'[Len(queue) + 1] = e
    BY <1>1, <1>3, AppendProperties, LenProperties
<1>5. \A k \in DOMAIN queue' : \/ k \in DOMAIN queue /\ queue'[k] = queue[k]
                               \/ k = Len(queue) + 1 /\ queue'[k] = e
    BY <1>4
<1>6. QueueTypes' BY <1>1, <1>2, <1>3, <1>5 DEF QueueInv, QueueTypes
<1>7. QueriesApart'
    <2>1. p \notin online /\ \A k \in DOMAIN queue : queue[k].load # p
        BY DEF LoginPlayer, Loading
    <2>2. online' = online BY DEF LoginPlayer
    <2> QED BY <1>2, <1>5, <2>1, <2>2 DEF QueueInv, QueriesApart
<1>8. QueriesCurrent'
    <2> SUFFICES ASSUME NEW k \in DOMAIN queue', NEW x \in Player, queue'[k].load = x
                 PROVE  /\ Value(k, GoldRow(x))' = Latest(GoldRow(x))'
                        /\ \A i \in Item : Value(k, ItemRow(i))' = x <=> Latest(ItemRow(i))' = x
        BY DEF QueriesCurrent
    <2>1. CASE k = Len(queue) + 1 BY <1>3, <2>1
    <2>2. CASE k \in DOMAIN queue /\ queue'[k] = queue[k]
        <3>1. /\ Value(k, GoldRow(x)) = Latest(GoldRow(x))
              /\ \A i \in Item : Value(k, ItemRow(i)) = x <=> Latest(ItemRow(i)) = x
            BY <2>2 DEF QueueInv, QueriesCurrent
        <3> QED BY <1>3, <1>4, <2>2, <3>1
    <2> QED BY <1>5, <2>1, <2>2
<1> QED BY <1>3, <1>6, <1>7, <1>8 DEF QueueInv

\* The first entry takes effect: a transaction, or the query of a player who
\* enters the world.
LEMMA TakeKeeps ==
    ASSUME QueueInv, Finish(1),
           \/ db' = queue[1].rows ++ db /\ queue[1].load = Nobody /\ online' = online
           \/ db' = db /\ queue[1].load \in Player /\ online' = online \cup {queue[1].load}
    PROVE  QueueInv' /\ \A r \in RowNames : Latest(r)' = Latest(r)
<1>0. 1 \in DOMAIN queue /\ queue \in Seq(Entries) /\ DOMAIN db = RowNames /\ Nobody \notin Player
    BY StoreAssumption DEF Finish, QueueInv, QueueTypes
<1>1. \/ db' = queue[1].rows ++ db
      \/ db' = db /\ DOMAIN queue[1].rows = {}
    BY <1>0 DEF QueueInv, QueriesApart
<1>2. /\ \A r \in RowNames : \A n \in 0 .. Len(queue) - 1 : Value(n, r)' = Value(n + 1, r)
      /\ \A r \in RowNames : Latest(r)' = Latest(r)
      /\ queue # <<>> /\ queue' = Tail(queue) /\ queue' \in Seq(Entries)
    BY <1>0, <1>1, TakeValues
<1>3. \A k \in DOMAIN queue' : /\ k + 1 \in DOMAIN queue /\ queue'[k] = queue[k + 1]
                               /\ k \in 0 .. Len(queue) - 1 /\ k + 1 # 1
    BY <1>0, <1>2, HeadTailProperties, LenProperties
<1>4. QueueTypes'
    <2>1. db' \in [RowNames -> RowValue] /\ \A p \in Player : db'[GoldRow(p)] \in Nat
        <3>1. CASE db' = db BY <3>1 DEF QueueInv, QueueTypes
        <3>2. CASE db' = queue[1].rows ++ db
            <4>1. queue[1] \in Entries BY <1>0, ElementOfSeq, LenProperties
            <4>2. PICK D \in SUBSET RowNames : queue[1].rows \in [D -> RowValue]
                BY <4>1 DEF Entries, Transactions
            <4>3. db \in [RowNames -> RowValue] BY DEF QueueInv, QueueTypes
            <4>4. db' \in [RowNames -> RowValue] BY <3>2, <4>2, <4>3 DEF ++
            <4>5. ASSUME NEW p \in Player PROVE db'[GoldRow(p)] \in Nat
                <5>1. GoldRow(p) \in RowNames BY RowsDiffer
                <5>2. db'[GoldRow(p)] = IF GoldRow(p) \in DOMAIN queue[1].rows
                                        THEN queue[1].rows[GoldRow(p)] ELSE db[GoldRow(p)]
                    BY <1>0, <3>2, <5>1 DEF ++
                <5> QED BY <1>0, <5>2 DEF QueueInv, QueueTypes
            <4> QED BY <4>4, <4>5
        <3> QED BY <1>1, <3>1, <3>2
    <2>2. \A k \in DOMAIN queue' : \A p \in Player :
            GoldRow(p) \in DOMAIN queue'[k].rows => queue'[k].rows[GoldRow(p)] \in Nat
        BY <1>3 DEF QueueInv, QueueTypes
    <2> QED BY <1>2, <2>1, <2>2 DEF QueueTypes
<1>5. QueriesApart'
    <2> SUFFICES ASSUME NEW k \in DOMAIN queue', queue'[k].load # Nobody
                 PROVE  /\ DOMAIN queue'[k].rows = {}
                        /\ queue'[k].load \notin online'
                        /\ \A l \in DOMAIN queue' : l # k => queue'[l].load # queue'[k].load
        BY DEF QueriesApart
    <2>1. /\ DOMAIN queue[k + 1].rows = {} /\ queue[k + 1].load \notin online
          /\ \A l \in DOMAIN queue : l # k + 1 => queue[l].load # queue[k + 1].load
        BY <1>3 DEF QueueInv, QueriesApart
    <2>2. queue[1].load # queue[k + 1].load BY <1>0, <1>3, <2>1
    <2>3. ASSUME NEW l \in DOMAIN queue', l # k PROVE queue'[l].load # queue'[k].load
        <3>1. l + 1 # k + 1 BY <1>3, <2>3
        <3> QED BY <1>3, <2>1, <3>1
    <2> QED BY <1>3, <2>1, <2>2, <2>3
<1>6. QueriesCurrent'
    <2> SUFFICES ASSUME NEW k \in DOMAIN queue', NEW x \in Player, queue'[k].load = x
                 PROVE  /\ Value(k, GoldRow(x))' = Latest(GoldRow(x))'
                        /\ \A i \in Item : Value(k, ItemRow(i))' = x <=> Latest(ItemRow(i))' = x
        BY DEF QueriesCurrent
    <2>1. /\ Value(k + 1, GoldRow(x)) = Latest(GoldRow(x))
          /\ \A i \in Item : Value(k + 1, ItemRow(i)) = x <=> Latest(ItemRow(i)) = x
        BY <1>3 DEF QueueInv, QueriesCurrent
    <2> QED BY <1>2, <1>3, <2>1, RowsDiffer
<1> QED BY <1>2, <1>4, <1>5, <1>6 DEF QueueInv

-----------------------------------------------------------------------------
HoldTypes ==
    /\ money \in [Player -> Nat]
    /\ inv \in [Player -> SUBSET Item]
    /\ \A p \in Player \ online : inv[p] = {}
    /\ offer \in [Player -> Offers]

\* What the steps keep: the rows and queries, and that the memory is backed by
\* them, so that an item is in the inventory of the one player its row names.
StoreInv == QueueInv /\ HoldTypes /\ OffersDistinct /\ MemoryBacked

\* A row names one player.
LEMMA BackedOnce ==
    WindowInv /\ StoreInv => ItemOnce
<1> SUFFICES ASSUME WindowInv, StoreInv, NEW p \in Player, NEW q \in Player, p # q,
                    NEW i \in inv[p], i \in inv[q]
             PROVE  FALSE
    BY DEF ItemOnce
<1>1. p \in online /\ q \in online BY DEF StoreInv, HoldTypes
<1>2. Latest(ItemRow(i)) = p /\ Latest(ItemRow(i)) = q BY <1>1 DEF StoreInv, MemoryBacked
<1> QED BY <1>2

\* The last value of the money is a number.
LEMMA GoldType ==
    ASSUME QueueInv, NEW p \in Player PROVE Latest(GoldRow(p)) \in Nat
<1>1. queue \in Seq(Entries) /\ db[GoldRow(p)] \in Nat
    BY DEF QueueInv, QueueTypes
<1>2. \A k \in DOMAIN queue : GoldRow(p) \in DOMAIN queue[k].rows => queue[k].rows[GoldRow(p)] \in Nat
    BY DEF QueueInv, QueueTypes
<1> QED BY <1>1, <1>2, LatestType

\* A step that changes nothing but windows and money that is spent.
LEMMA SameStore ==
    ASSUME StoreInv, WindowInv, UNCHANGED <<online, inv, db, queue>>,
           money' \in [Player -> Nat], \A p \in Player : money'[p] <= money[p],
           offer' \in [Player -> Offers], OffersDistinct'
    PROVE  StoreInv'
<1>1. \A r : Latest(r)' = Latest(r) BY LatestSame
<1>2. \A r, n : Value(n, r)' = Value(n, r)
    <2> SUFFICES ASSUME NEW r, NEW n PROVE Value(n, r)' = Value(n, r) OBVIOUS
    <2>1. Value(n, r)' = ValueIn(db', queue', n, r) BY ValuePrimed
    <2> QED BY <2>1 DEF Value
<1>3. QueueInv'
    <2>1. QueueTypes' /\ QueriesApart' BY DEF StoreInv, QueueInv, QueueTypes, QueriesApart
    <2>2. QueriesCurrent' BY <1>1, <1>2 DEF StoreInv, QueueInv, QueriesCurrent
    <2> QED BY <2>1, <2>2 DEF QueueInv
<1>4. HoldTypes' BY DEF StoreInv, HoldTypes
<1>5. MemoryBacked'
    <2> SUFFICES ASSUME NEW p \in online'
                 PROVE  /\ \A i \in inv'[p] : Latest(ItemRow(i))' = p
                        /\ money'[p] <= Latest(GoldRow(p))'
        BY DEF MemoryBacked
    <2>1. p \in Player /\ p \in online BY DEF WindowInv, WindowType
    <2>2. Latest(GoldRow(p)) \in Nat BY <2>1, GoldType DEF StoreInv
    <2>3. /\ \A i \in inv[p] : Latest(ItemRow(i)) = p
          /\ money[p] <= Latest(GoldRow(p)) /\ money[p] \in Nat
        BY <2>1 DEF StoreInv, MemoryBacked, HoldTypes
    <2>4. money'[p] <= Latest(GoldRow(p)) BY <2>1, <2>2, <2>3
    <2> QED BY <1>1, <2>3, <2>4
<1> QED BY <1>3, <1>4, <1>5 DEF StoreInv

\* The setters keep the offers in order.
LEMMA OffersKept ==
    ASSUME WindowInv, StoreInv, NEW p \in Player, Trading(p),
           \/ \E g \in Nat : SetMoney(p, g)
           \/ \E s \in Slot, i \in Item : ~Offered(p, i) /\ SetItem(p, s, i)
           \/ \E s \in Slot : SetItem(p, s, NoItem)
           \/ \E on \in BOOLEAN : SetSpell(p, on)
    PROVE  offer' \in [Player -> Offers] /\ OffersDistinct'
<1>1. partner[p] \in Player \ {p}
    BY StoreAssumption DEF WindowInv, WindowType, TradePaired, Trading
<1>2. offer \in [Player -> Offers] /\ OffersDistinct BY DEF StoreInv, HoldTypes
<1>3. CASE UNCHANGED offer BY <1>2, <1>3 DEF OffersDistinct
<1>4. ASSUME NEW g \in Nat, SetMoney(p, g) PROVE offer' \in [Player -> Offers] /\ OffersDistinct'
    <2>1. CASE offer[p].gold = g BY <1>3, <1>4, <2>1 DEF SetMoney
    <2>2. CASE offer[p].gold # g
        <3>1. offer' = [offer EXCEPT ![p].gold = g] BY <1>4, <2>2 DEF SetMoney
        <3>2. offer' \in [Player -> Offers] BY <1>2, <3>1 DEF Offers
        <3>3. \A x \in Player : offer'[x].items = offer[x].items BY <1>2, <3>1 DEF Offers
        <3> QED BY <1>2, <3>2, <3>3 DEF OffersDistinct
    <2> QED BY <2>1, <2>2
<1>5. ASSUME NEW on \in BOOLEAN, SetSpell(p, on) PROVE offer' \in [Player -> Offers] /\ OffersDistinct'
    <2>1. CASE offer[p].spell = on BY <1>3, <1>5, <2>1 DEF SetSpell
    <2>2. CASE offer[p].spell # on
        <3>1. offer' = [offer EXCEPT ![p].spell = on] BY <1>5, <2>2 DEF SetSpell
        <3>2. offer' \in [Player -> Offers] BY <1>2, <3>1 DEF Offers
        <3>3. \A x \in Player : offer'[x].items = offer[x].items BY <1>2, <3>1 DEF Offers
        <3> QED BY <1>2, <3>2, <3>3 DEF OffersDistinct
    <2> QED BY <2>1, <2>2
<1>6. ASSUME NEW s \in Slot, NEW i \in Item \cup {NoItem}, i # NoItem => ~Offered(p, i),
             SetItem(p, s, i)
      PROVE  offer' \in [Player -> Offers] /\ OffersDistinct'
    <2>1. CASE offer[p].items[s] = i BY <1>3, <1>6, <2>1 DEF SetItem
    <2>2. CASE offer[p].items[s] # i
        <3> DEFINE q == partner[p]
        <3>1. offer' = [offer EXCEPT ![p].items[s] = i, ![p].spell = FALSE,
                             ![q].spell = @ /\ s # NonTraded]
            BY <1>6, <2>2 DEF SetItem
        <3>2. /\ offer'[p] = [offer[p] EXCEPT !.items[s] = i, !.spell = FALSE]
              /\ offer'[q] = [offer[q] EXCEPT !.spell = @ /\ s # NonTraded]
              /\ \A x \in Player \ {p, q} : offer'[x] = offer[x]
              /\ offer' = [x \in Player |-> offer'[x]]
            BY <1>1, <1>2, <3>1
        <3>3. offer[p] \in Offers /\ offer[q] \in Offers BY <1>1, <1>2
        <3>4. /\ offer'[p] \in Offers /\ offer'[p].items = [offer[p].items EXCEPT ![s] = i]
              /\ offer'[q] \in Offers /\ offer'[q].items = offer[q].items
            <4>1. ASSUME NEW c \in Offers
                  PROVE  /\ [c EXCEPT !.items[s] = i] \in Offers
                         /\ [c EXCEPT !.items[s] = i].items = [c.items EXCEPT ![s] = i]
                BY <1>6 DEF Offers
            <4>2. ASSUME NEW c \in Offers
                  PROVE  /\ [c EXCEPT !.spell = FALSE] \in Offers
                         /\ [c EXCEPT !.spell = FALSE].items = c.items
                BY DEF Offers
            <4> DEFINE c == [offer[p] EXCEPT !.items[s] = i]
            <4>3. offer'[p] = [c EXCEPT !.spell = FALSE] BY <3>2, Zenon
            <4>4. offer'[p] \in Offers /\ offer'[p].items = [offer[p].items EXCEPT ![s] = i]
                <5>1. c \in Offers /\ c.items = [offer[p].items EXCEPT ![s] = i] BY <3>3, <4>1
                <5> HIDE DEF c
                <5> QED BY <4>2, <4>3, <5>1
            <4>5. offer'[q] \in Offers /\ offer'[q].items = offer[q].items
                BY <3>2, <3>3 DEF Offers
            <4> QED BY <4>4, <4>5
        <3>5. offer' \in [Player -> Offers] BY <1>2, <3>2, <3>4
        <3>6. \A t \in Slot : offer[p].items[t] = i => i = NoItem BY <1>6 DEF Offered
        <3>7. offer[p].items \in [Slot -> Item \cup {NoItem}] BY <3>3 DEF Offers
        <3>8. \A t \in Slot : offer'[p].items[t] = IF t = s THEN i ELSE offer[p].items[t]
            BY <3>4, <3>7
        <3>9. \A x \in Player \ {p} : offer'[x].items = offer[x].items BY <3>2, <3>4
        <3>10. OffersDistinct' BY <1>2, <3>6, <3>8, <3>9 DEF OffersDistinct
        <3> QED BY <3>5, <3>10
    <2> QED BY <2>1, <2>2
<1> QED BY <1>4, <1>5, <1>6

\* A closed window offers nothing.
LEMMA CloseOffers ==
    ASSUME StoreInv, NEW p \in Player, CloseTrade(p)
    PROVE  offer' \in [Player -> Offers] /\ OffersDistinct'
<1>1. EmptyOffer \in Offers /\ \A s \in Slot : EmptyOffer.items[s] = NoItem
    BY DEF EmptyOffer, Offers
<1>2. PICK both : offer' = [x \in Player |-> IF x \in both THEN EmptyOffer ELSE offer[x]]
    BY DEF CloseTrade
<1>3. offer' \in [Player -> Offers] BY <1>1, <1>2 DEF StoreInv, HoldTypes
<1> HIDE DEF EmptyOffer
<1>4. OffersDistinct' BY <1>1, <1>2 DEF StoreInv, OffersDistinct
<1> QED BY <1>3, <1>4

\* What the players pay and get.
LEMMA MoneyTypes ==
    ASSUME NEW m \in Nat, NEW d \in Nat
    PROVE  Paid(m, d) \in Nat /\ Paid(m, d) <= m /\ Received(m, d) \in Nat
  BY StoreAssumption DEF Paid, Received

\* The rows of a trade: the money of both, and each moved item for its new owner.
LEMMA TradeRowsWritten ==
    ASSUME NEW p \in Player, NEW q \in Player, p # q, NEW bags \in Bags(p, q),
           bags[p] \cap bags[q] = {}, NEW m \in [Player -> Nat]
    PROVE  LET rows == TradeRows(p, q, bags, m)
           IN  /\ rows \in Transactions
               /\ \A x \in Player : GoldRow(x) \in DOMAIN rows <=> x \in {p, q}
               /\ \A x \in {p, q} : rows[GoldRow(x)] = m[x]
               /\ \A i \in Item : ItemRow(i) \in DOMAIN rows <=>
                        i \in (bags[p] \ inv[p]) \cup (bags[q] \ inv[q])
               /\ \A i \in bags[p] \ inv[p] : rows[ItemRow(i)] = p
               /\ \A i \in bags[q] \ inv[q] : rows[ItemRow(i)] = q
<1> DEFINE g == GoldRows({p, q}, m)
           a == ItemRows(bags[p] \ inv[p], p)
           b == ItemRows(bags[q] \ inv[q], q)
           rows == TradeRows(p, q, bags, m)
<1>1. /\ DOMAIN g = {GoldRow(x) : x \in {p, q}} /\ \A x \in {p, q} : g[GoldRow(x)] = m[x]
      /\ DOMAIN a = {ItemRow(i) : i \in bags[p] \ inv[p]}
      /\ \A i \in bags[p] \ inv[p] : a[ItemRow(i)] = p
      /\ DOMAIN b = {ItemRow(i) : i \in bags[q] \ inv[q]}
      /\ \A i \in bags[q] \ inv[q] : b[ItemRow(i)] = q
    BY DEF GoldRows, ItemRows, GoldRow, ItemRow
<1>2. rows = (g ++ a) ++ b BY DEF TradeRows
<1>3. bags[p] \subseteq Item /\ bags[q] \subseteq Item BY DEF Bags
<1> HIDE DEF g, a, b, rows
<1>4. /\ DOMAIN (g ++ a) = DOMAIN g \cup DOMAIN a
      /\ \A r \in DOMAIN g : (g ++ a)[r] = g[r]
      /\ \A r \in DOMAIN a \ DOMAIN g : (g ++ a)[r] = a[r]
    BY DEF ++
<1>5. /\ DOMAIN rows = DOMAIN g \cup DOMAIN a \cup DOMAIN b
      /\ \A r \in DOMAIN g \cup DOMAIN a : rows[r] = (g ++ a)[r]
      /\ \A r \in DOMAIN b \ (DOMAIN g \cup DOMAIN a) : rows[r] = b[r]
      /\ rows = [r \in DOMAIN rows |-> rows[r]]
    BY <1>2, <1>4 DEF ++
<1>6. \A x \in {p, q} : GoldRow(x) \in DOMAIN g /\ rows[GoldRow(x)] = m[x]
    BY <1>1, <1>4, <1>5
<1>7. \A i \in bags[p] \ inv[p] : ItemRow(i) \in DOMAIN a \ DOMAIN g /\ rows[ItemRow(i)] = p
    BY <1>1, <1>4, <1>5, RowsDiffer
<1>8. \A i \in bags[q] \ inv[q] :
        ItemRow(i) \in DOMAIN b \ (DOMAIN g \cup DOMAIN a) /\ rows[ItemRow(i)] = q
    BY <1>1, <1>5, RowsDiffer
<1>9. \A x \in Player : GoldRow(x) \in DOMAIN rows <=> x \in {p, q}
    BY <1>1, <1>5, RowsDiffer
<1>10. \A i \in Item : ItemRow(i) \in DOMAIN rows <=>
                        i \in (bags[p] \ inv[p]) \cup (bags[q] \ inv[q])
    BY <1>1, <1>5, RowsDiffer
<1>11. DOMAIN rows \subseteq RowNames BY <1>1, <1>3, <1>5, RowsDiffer
<1>12. ASSUME NEW r \in DOMAIN rows PROVE rows[r] \in RowValue
    <2>1. CASE r \in DOMAIN g
        <3>1. PICK x \in {p, q} : r = GoldRow(x) BY <1>1, <2>1
        <3> QED BY <1>6, <3>1 DEF RowValue
    <2>2. CASE r \in DOMAIN a
        <3>1. PICK i \in bags[p] \ inv[p] : r = ItemRow(i) BY <1>1, <2>2
        <3> QED BY <1>7, <3>1 DEF RowValue
    <2>3. CASE r \in DOMAIN b
        <3>1. PICK i \in bags[q] \ inv[q] : r = ItemRow(i) BY <1>1, <2>3
        <3> QED BY <1>8, <3>1 DEF RowValue
    <2> QED BY <1>5, <2>1, <2>2, <2>3
<1>13. rows \in Transactions BY <1>5, <1>11, <1>12, TransactionType
<1> QED BY <1>6, <1>7, <1>8, <1>9, <1>10, <1>13 DEF rows

\* A trade that is executed leaves the memory backed by the rows it stores.
LEMMA CompleteKeeps ==
    ASSUME WindowInv, StoreInv, NEW p \in Player, HandleAcceptComplete(p)
    PROVE  StoreInv'
<1> DEFINE q == partner[p]
           bags == MoveItems(p, q)
           m == [money EXCEPT
                    ![p] = Received(Paid(@, offer[p].gold), offer[q].gold),
                    ![q] = Received(Paid(@, offer[q].gold), offer[p].gold)]
           rows == TradeRows(p, q, bags, m)
<1>1. /\ Trading(p) /\ money' = m /\ CloseTrade(p) /\ Commit(rows) /\ db' = db /\ online' = online
      /\ inv' = [x \in Player |-> IF x \in {p, q} THEN bags[x] ELSE inv[x]]
    BY DEF HandleAcceptComplete
<1>2. q \in Player /\ p # q /\ p \in online /\ q \in online /\ online \subseteq Player
    BY <1>1, StoreAssumption DEF WindowInv, WindowType, TradePaired, Trading
<1> HIDE DEF q
<1>3. /\ money \in [Player -> Nat] /\ inv \in [Player -> SUBSET Item] /\ offer \in [Player -> Offers]
      /\ OffersDistinct /\ QueueInv /\ ItemOnce
    BY BackedOnce DEF StoreInv, HoldTypes
<1>4. m \in [Player -> Nat]
    <2>1. offer[p].gold \in Nat /\ offer[q].gold \in Nat BY <1>2, <1>3 DEF Offers
    <2>2. money[p] \in Nat /\ money[q] \in Nat BY <1>2, <1>3
    <2> QED BY <1>2, <1>3, <2>1, <2>2, MoneyTypes
<1> HIDE DEF m
<1>5. /\ bags \in Bags(p, q) /\ bags[p] \cap bags[q] = {}
      /\ bags[p] \cup bags[q] \subseteq inv[p] \cup inv[q]
    BY <1>2, <1>3, MoveItemsSorted DEF ItemOnce
<1> HIDE DEF bags
<1>6. /\ rows \in Transactions
      /\ \A x \in Player : GoldRow(x) \in DOMAIN rows <=> x \in {p, q}
      /\ \A x \in {p, q} : rows[GoldRow(x)] = m[x]
      /\ \A i \in Item : ItemRow(i) \in DOMAIN rows <=>
                i \in (bags[p] \ inv[p]) \cup (bags[q] \ inv[q])
      /\ \A i \in bags[p] \ inv[p] : rows[ItemRow(i)] = p
      /\ \A i \in bags[q] \ inv[q] : rows[ItemRow(i)] = q
    BY <1>2, <1>4, <1>5, TradeRowsWritten
<1> HIDE DEF rows
<1>7. \A x \in online : \A i \in inv[x] : i \in Item /\ Latest(ItemRow(i)) = x
    BY <1>2, <1>3 DEF StoreInv, MemoryBacked
<1>8. \A i \in Item : ItemRow(i) \in DOMAIN rows =>
        Latest(ItemRow(i)) \in {p, q} /\ rows[ItemRow(i)] \in {p, q}
    <2> SUFFICES ASSUME NEW i \in Item, ItemRow(i) \in DOMAIN rows
                 PROVE  Latest(ItemRow(i)) \in {p, q} /\ rows[ItemRow(i)] \in {p, q}
        OBVIOUS
    <2>1. i \in inv[p] \cup inv[q] BY <1>5, <1>6
    <2> QED BY <1>2, <1>6, <1>7, <2>1
<1>9. /\ QueueInv'
      /\ \A r : Latest(r)' = IF r \in DOMAIN rows THEN rows[r] ELSE Latest(r)
    <2>1. \A x \in Player : GoldRow(x) \in DOMAIN rows => x \in online /\ rows[GoldRow(x)] \in Nat
        BY <1>2, <1>4, <1>6
    <2> QED BY <1>1, <1>2, <1>3, <1>6, <1>8, <2>1, CommitKeeps
<1>10. inv'[p] = bags[p] /\ inv'[q] = bags[q] /\ \A x \in Player \ {p, q} : inv'[x] = inv[x]
    BY <1>1, <1>2
<1>11. HoldTypes' /\ OffersDistinct'
    <2>1. inv' \in [Player -> SUBSET Item] BY <1>1, <1>2, <1>3, <1>5 DEF Bags
    <2>2. \A x \in Player \ online' : inv'[x] = {} BY <1>1, <1>2, <1>10 DEF StoreInv, HoldTypes
    <2> QED BY <1>1, <1>4, <2>1, <2>2, CloseOffers DEF HoldTypes
<1>12. MemoryBacked'
    <2> SUFFICES ASSUME NEW x \in online'
                 PROVE  /\ \A i \in inv'[x] : Latest(ItemRow(i))' = x
                        /\ money'[x] <= Latest(GoldRow(x))'
        BY DEF MemoryBacked
    <2>1. x \in online /\ x \in Player BY <1>1, <1>2
    <2>2. CASE x = p
        <3>1. money'[x] = Latest(GoldRow(x))' /\ money'[x] \in Nat BY <1>1, <1>2, <1>4, <1>6, <1>9, <2>2
        <3>2. ASSUME NEW i \in bags[p] PROVE Latest(ItemRow(i))' = p
            <4>1. i \in Item /\ i \notin bags[q] BY <1>2, <1>5, <1>7
            <4>2. CASE i \in inv[p]
                BY <1>2, <1>6, <1>7, <1>9, <4>1, <4>2
            <4>3. CASE i \notin inv[p]
                BY <1>6, <1>9, <4>1, <4>3
            <4> QED BY <4>2, <4>3
        <3> QED BY <1>10, <2>2, <3>1, <3>2
    <2>3. CASE x = q
        <3>1. money'[x] = Latest(GoldRow(x))' /\ money'[x] \in Nat BY <1>1, <1>2, <1>4, <1>6, <1>9, <2>3
        <3>2. ASSUME NEW i \in bags[q] PROVE Latest(ItemRow(i))' = q
            <4>1. i \in Item /\ i \notin bags[p] BY <1>2, <1>5, <1>7
            <4>2. CASE i \in inv[q]
                BY <1>2, <1>6, <1>7, <1>9, <4>1, <4>2
            <4>3. CASE i \notin inv[q]
                BY <1>6, <1>9, <4>1, <4>3
            <4> QED BY <4>2, <4>3
        <3> QED BY <1>10, <2>3, <3>1, <3>2
    <2>4. CASE x \notin {p, q}
        <3>1. money'[x] = money[x] BY <1>1, <1>2, <1>3, <2>1, <2>4 DEF m
        <3>2. Latest(GoldRow(x))' = Latest(GoldRow(x)) BY <1>6, <1>9, <2>1, <2>4
        <3>3. money[x] <= Latest(GoldRow(x)) BY <2>1 DEF StoreInv, MemoryBacked
        <3>4. ASSUME NEW i \in inv[x] PROVE Latest(ItemRow(i))' = x
            <4>1. i \in Item /\ Latest(ItemRow(i)) = x BY <1>7, <2>1
            <4>2. ItemRow(i) \notin DOMAIN rows BY <1>8, <2>4, <4>1
            <4> QED BY <1>9, <4>1, <4>2
        <3> QED BY <1>10, <2>1, <2>4, <3>1, <3>2, <3>3, <3>4
    <2> QED BY <2>2, <2>3, <2>4
<1> QED BY <1>9, <1>11, <1>12 DEF StoreInv

\* The spell of one side is dropped.
LEMMA SpellDropped ==
    ASSUME StoreInv, NEW x \in Player, offer' = [offer EXCEPT ![x].spell = FALSE]
    PROVE  offer' \in [Player -> Offers] /\ OffersDistinct'
<1>1. offer \in [Player -> Offers] /\ OffersDistinct BY DEF StoreInv, HoldTypes
<1>2. offer' \in [Player -> Offers] BY <1>1 DEF Offers
<1>3. \A y \in Player : offer'[y].items = offer[y].items BY <1>1 DEF Offers
<1> QED BY <1>1, <1>2, <1>3 DEF OffersDistinct

\* The handlers of the window keep the store; all but the last leave it alone.
LEMMA WindowStores ==
    ASSUME WindowInv, StoreInv, NEW p \in Player, WindowStep(p)
    PROVE  StoreInv'
<1>0. money \in [Player -> Nat] /\ offer \in [Player -> Offers] /\ OffersDistinct
    BY DEF StoreInv, HoldTypes
<1>1. ASSUME UNCHANGED storeVars, offer' \in [Player -> Offers], OffersDistinct' PROVE StoreInv'
    BY <1>0, <1>1, SameStore DEF storeVars
<1>2. ASSUME UNCHANGED storeVars, UNCHANGED offer PROVE StoreInv'
    BY <1>0, <1>1, <1>2 DEF OffersDistinct
<1>3. ASSUME NEW q \in Player, HandleInitiateTrade(p, q) PROVE StoreInv'
    BY <1>2, <1>3 DEF HandleInitiateTrade
<1>4. ASSUME NEW g \in 0 .. MaxMoney, HandleSetTradeGold(p, g) PROVE StoreInv'
    <2>1. (IF g <= money[p] THEN g ELSE money[p]) \in Nat BY <1>0
    <2>2. \E c \in Nat : SetMoney(p, c) BY <1>4, <2>1 DEF HandleSetTradeGold
    <2> QED BY <1>1, <1>4, <2>2, OffersKept DEF HandleSetTradeGold
<1>5. ASSUME NEW s \in Slot, NEW i \in Item, HandleSetTradeItem(p, s, i) PROVE StoreInv'
    BY <1>1, <1>5, OffersKept DEF HandleSetTradeItem
<1>6. ASSUME NEW s \in Slot, HandleClearTradeItem(p, s) PROVE StoreInv'
    BY <1>1, <1>6, OffersKept DEF HandleClearTradeItem
<1>7. CASE CastTradeSpell(p) BY <1>1, <1>7, OffersKept DEF CastTradeSpell
<1>8. CASE HandleUnacceptTrade(p) BY <1>2, <1>8 DEF HandleUnacceptTrade
<1>9. CASE HandleCancelTrade(p) BY <1>1, <1>9, CloseOffers DEF HandleCancelTrade
<1>10. CASE HandleAcceptRefused(p)
    <2>1. UNCHANGED storeVars /\ partner[p] \in Player
        BY <1>10, StoreAssumption
           DEF HandleAcceptRefused, WindowInv, WindowType, TradePaired, Trading
    <2>2. UNCHANGED offer \/ \E x \in Player : offer' = [offer EXCEPT ![x].spell = FALSE]
        BY <1>10, <2>1 DEF HandleAcceptRefused, AcceptPoor, AcceptTraderPoor,
           AcceptUntradable, AcceptWait, AcceptSpellFails, AcceptNoSpace
    <2> QED BY <1>1, <1>2, <2>1, <2>2, SpellDropped
<1>11. CASE HandleAcceptComplete(p) BY <1>11, CompleteKeeps
<1> QED BY <1>3, <1>4, <1>5, <1>6, <1>7, <1>8, <1>9, <1>10, <1>11 DEF WindowStep

\* The transaction of a save that gives the items is away.
SavedRows(p, is) == GoldRows({p}, money) ++ ItemRows(is, Nobody)

\* What it writes.
LEMMA SaveRows ==
    ASSUME NEW p \in Player, money \in [Player -> Nat], NEW is \in SUBSET Item
    PROVE  LET rows == SavedRows(p, is)
           IN  /\ rows \in Transactions
               /\ \A x \in Player : GoldRow(x) \in DOMAIN rows <=> x = p
               /\ rows[GoldRow(p)] = money[p]
               /\ \A i \in Item : ItemRow(i) \in DOMAIN rows <=> i \in is
               /\ \A i \in is : rows[ItemRow(i)] = Nobody
<1> DEFINE g == GoldRows({p}, money)
           more == ItemRows(is, Nobody)
           rows == SavedRows(p, is)
<1>0. rows = g ++ more BY DEF SavedRows
<1>1. /\ DOMAIN g = {GoldRow(p)} /\ g[GoldRow(p)] = money[p]
      /\ DOMAIN more = {ItemRow(i) : i \in is} /\ \A i \in is : more[ItemRow(i)] = Nobody
    BY DEF GoldRows, ItemRows, GoldRow, ItemRow
<1> HIDE DEF g, more, rows
<1>2. /\ DOMAIN rows = DOMAIN g \cup DOMAIN more
      /\ \A r \in DOMAIN g : rows[r] = g[r]
      /\ \A r \in DOMAIN more \ DOMAIN g : rows[r] = more[r]
      /\ rows = [r \in DOMAIN rows |-> rows[r]]
    BY <1>0 DEF ++
<1>3. rows[GoldRow(p)] = money[p] BY <1>1, <1>2
<1>4. \A i \in is : ItemRow(i) \in DOMAIN rows /\ rows[ItemRow(i)] = Nobody
    BY <1>1, <1>2, RowsDiffer
<1>5. /\ \A x \in Player : GoldRow(x) \in DOMAIN rows <=> x = p
      /\ \A i \in Item : ItemRow(i) \in DOMAIN rows <=> i \in is
    BY <1>1, <1>2, RowsDiffer
<1>6. DOMAIN rows \subseteq RowNames BY <1>1, <1>2, RowsDiffer
<1>7. \A r \in DOMAIN rows : rows[r] \in RowValue
    <2> SUFFICES ASSUME NEW r \in DOMAIN rows PROVE rows[r] \in RowValue OBVIOUS
    <2>1. CASE r = GoldRow(p) BY <1>3, <2>1 DEF RowValue
    <2>2. CASE r # GoldRow(p)
        <3>1. PICK i \in is : r = ItemRow(i) BY <1>1, <1>2, <2>2
        <3> QED BY <1>4, <3>1 DEF RowValue
    <2> QED BY <2>1, <2>2
<1>8. rows \in Transactions BY <1>2, <1>6, <1>7, TransactionType
<1> QED BY <1>3, <1>4, <1>5, <1>8 DEF rows

\* A save of one player that gives away the items is and may end the session.
LEMMA SaveKeeps ==
    ASSUME WindowInv, StoreInv, NEW p \in online, NEW is \in SUBSET inv[p],
           Commit(SavedRows(p, is)),
           db' = db, inv' \in [Player -> SUBSET Item], money' \in [Player -> Nat],
           \A x \in Player \ {p} : inv'[x] = inv[x] /\ money'[x] = money[x],
           \/ online' = online /\ inv'[p] = inv[p] \ is /\ money'[p] = money[p]
           \/ online' = online \ {p} /\ inv'[p] = {},
           offer' \in [Player -> Offers], OffersDistinct'
    PROVE  StoreInv'
<1> DEFINE rows == SavedRows(p, is)
<1>1. /\ online \subseteq Player /\ p \in Player /\ QueueInv /\ is \subseteq Item
      /\ money \in [Player -> Nat] /\ inv \in [Player -> SUBSET Item]
    BY DEF WindowInv, WindowType, StoreInv, HoldTypes
<1>2. /\ rows \in Transactions
      /\ \A x \in Player : GoldRow(x) \in DOMAIN rows <=> x = p
      /\ rows[GoldRow(p)] = money[p]
      /\ \A i \in Item : ItemRow(i) \in DOMAIN rows <=> i \in is
      /\ \A i \in is : rows[ItemRow(i)] = Nobody
    BY <1>1, SaveRows
<1>3. Commit(rows) OBVIOUS
<1> HIDE DEF rows
<1>4. \A x \in online : /\ \A i \in inv[x] : i \in Item /\ Latest(ItemRow(i)) = x
                        /\ money[x] <= Latest(GoldRow(x))
    BY <1>1 DEF StoreInv, MemoryBacked
<1>5. \A i \in Item : ItemRow(i) \in DOMAIN rows =>
        Latest(ItemRow(i)) \in online /\ rows[ItemRow(i)] \in online \cup {Nobody}
    BY <1>2, <1>4
<1>6. \A x \in Player : GoldRow(x) \in DOMAIN rows => x \in online /\ rows[GoldRow(x)] \in Nat
    BY <1>1, <1>2
<1>7. /\ QueueInv'
      /\ \A r : Latest(r)' = IF r \in DOMAIN rows THEN rows[r] ELSE Latest(r)
    <2>1. online' \subseteq online OBVIOUS
    <2> QED BY <1>1, <1>2, <1>3, <1>5, <1>6, <2>1, CommitKeeps
<1>8. HoldTypes' BY <1>1 DEF StoreInv, HoldTypes
<1>9. MemoryBacked'
    <2> SUFFICES ASSUME NEW x \in online'
                 PROVE  /\ \A i \in inv'[x] : Latest(ItemRow(i))' = x
                        /\ money'[x] <= Latest(GoldRow(x))'
        BY DEF MemoryBacked
    <2>1. x \in online /\ x \in Player BY <1>1
    <2>2. CASE x = p
        <3>1. inv'[x] = inv[x] \ is /\ money'[x] = money[x] /\ money[x] \in Nat BY <1>1, <2>1, <2>2
        <3>2. Latest(GoldRow(x))' = money[x] BY <1>2, <1>7, <2>1, <2>2
        <3>3. ASSUME NEW i \in inv'[x] PROVE Latest(ItemRow(i))' = x
            BY <1>2, <1>4, <1>7, <2>1, <3>1
        <3> QED BY <3>1, <3>2, <3>3
    <2>3. CASE x # p
        <3>1. inv'[x] = inv[x] /\ money'[x] = money[x] BY <2>1, <2>3
        <3>2. \A i \in inv[x] : i \notin is BY <1>4, <2>1, <2>3
        <3> QED BY <1>2, <1>4, <1>7, <2>1, <2>3, <3>1, <3>2
    <2> QED BY <2>2, <2>3
<1> QED BY <1>7, <1>8, <1>9 DEF StoreInv

\* What else the players do keeps the store; with one worker a login finds what
\* the queue has still to write of the player written.
LEMMA PlayerStores ==
    ASSUME Workers = 1, WindowInv, StoreInv, NEW p \in Player, PlayerStep(p)
    PROVE  StoreInv'
<1>0. /\ online \subseteq Player /\ money \in [Player -> Nat] /\ inv \in [Player -> SUBSET Item]
      /\ offer \in [Player -> Offers] /\ OffersDistinct /\ QueueInv
    BY DEF WindowInv, WindowType, StoreInv, HoldTypes
<1>1. UNCHANGED offer => offer' \in [Player -> Offers] /\ OffersDistinct'
    BY <1>0 DEF OffersDistinct
<1>2. ASSUME NEW i \in Item, HandleSendMail(p, i) PROVE StoreInv'
    <2> DEFINE is == {i}
    <2>1. /\ p \in online /\ is \in SUBSET inv[p] /\ inv' = [inv EXCEPT ![p] = inv[p] \ is]
          /\ Commit(GoldRows({p}, money) ++ Write(ItemRow(i), Nobody))
          /\ UNCHANGED <<online, money, db, offer>>
        BY <1>2 DEF HandleSendMail, tradeVars
    <2>2. Write(ItemRow(i), Nobody) = ItemRows(is, Nobody)
        <3>1. {ItemRow(j) : j \in is} = {ItemRow(i)} OBVIOUS
        <3> QED BY <3>1 DEF Write, ItemRows
    <2> HIDE DEF is
    <2>3. Commit(SavedRows(p, is)) BY <2>1, <2>2 DEF SavedRows
    <2>4. /\ inv' \in [Player -> SUBSET Item] /\ inv'[p] = inv[p] \ is
          /\ \A x \in Player \ {p} : inv'[x] = inv[x] /\ money'[x] = money[x]
        BY <1>0, <2>1
    <2> QED BY <1>0, <1>1, <2>1, <2>3, <2>4, SaveKeeps
<1>3. ASSUME NEW i \in BindOnUse, HandleUseItem(p, i) PROVE StoreInv'
    BY <1>0, <1>1, <1>3, SameStore DEF HandleUseItem, storeVars
<1>4. ASSUME NEW g \in 1 .. MaxMoney, Spend(p, g) PROVE StoreInv'
    <2>1. Paid(money[p], g) \in Nat /\ Paid(money[p], g) <= money[p]
        BY <1>0, MoneyTypes
    <2>2. money' = [money EXCEPT ![p] = Paid(money[p], g)] BY <1>4 DEF Spend
    <2>3. money' \in [Player -> Nat] /\ \A x \in Player : money'[x] <= money[x]
        BY <1>0, <2>1, <2>2
    <2> QED BY <1>1, <1>4, <2>3, SameStore DEF Spend, tradeVars
<1>5. CASE Logout(p)
    <2> DEFINE is == {}
    <2>1. /\ p \in online /\ CloseTrade(p) /\ db' = db /\ online' = online \ {p}
          /\ Commit(GoldRows({p}, money) ++ [r \in {} |-> r])
          /\ inv' = [inv EXCEPT ![p] = {}] /\ money' = [money EXCEPT ![p] = 0]
        BY <1>5 DEF Logout, LogoutPlayer
    <2>2. [r \in {} |-> r] = ItemRows(is, Nobody)
        <3>1. {ItemRow(j) : j \in is} = {} OBVIOUS
        <3> QED BY <3>1 DEF ItemRows
    <2>3. is \in SUBSET inv[p] OBVIOUS
    <2> HIDE DEF is
    <2>4. Commit(SavedRows(p, is)) BY <2>1, <2>2 DEF SavedRows
    <2>5. /\ inv' \in [Player -> SUBSET Item] /\ inv'[p] = {} /\ money' \in [Player -> Nat]
          /\ \A x \in Player \ {p} : inv'[x] = inv[x] /\ money'[x] = money[x]
        BY <1>0, <2>1
    <2>6. offer' \in [Player -> Offers] /\ OffersDistinct' BY <2>1, CloseOffers
    <2> QED BY <2>1, <2>3, <2>4, <2>5, <2>6, SaveKeeps
<1>6. CASE LoginPlayer(p) /\ UNCHANGED tradeVars
    <2>1. QueueInv' /\ \A r : Latest(r)' = Latest(r) BY <1>0, <1>6, QueryKeeps
    <2>2. UNCHANGED <<online, inv, money, offer>> BY <1>6 DEF LoginPlayer, tradeVars
    <2>3. HoldTypes' /\ OffersDistinct' BY <1>1, <2>2 DEF StoreInv, HoldTypes
    <2>4. MemoryBacked' BY <2>1, <2>2 DEF StoreInv, MemoryBacked
    <2> QED BY <2>1, <2>3, <2>4 DEF StoreInv
<1>7. ASSUME NEW k \in 1 .. MaxQueue, LoadFromDB(p, k), UNCHANGED tradeVars PROVE StoreInv'
    <2>1. k = 1 /\ 1 \in DOMAIN queue BY <1>7 DEF LoadFromDB, Finish
    <2>2. /\ Finish(1) /\ queue[1].load = p /\ online' = online \cup {p} /\ db' = db
          /\ inv' = [inv EXCEPT ![p] = {i \in Item : db[ItemRow(i)] = p}]
          /\ money' = [money EXCEPT ![p] = IF db[GoldRow(p)] > MaxMoney
                                           THEN MaxMoney ELSE db[GoldRow(p)]]
          /\ UNCHANGED offer
        BY <1>7, <2>1 DEF LoadFromDB, tradeVars
    <2>3. p # Nobody /\ MaxMoney \in Nat BY StoreAssumption
    <2>4. QueueInv' /\ \A r \in RowNames : Latest(r)' = Latest(r)
        BY <1>0, <2>2, TakeKeeps
    <2>5. DOMAIN queue[1].rows = {} /\ p \notin online
        BY <1>0, <2>1, <2>2, <2>3 DEF QueueInv, QueriesApart
    <2>6. \A r : Value(1, r) = db[r]
        <3> SUFFICES ASSUME NEW r PROVE Value(1, r) = db[r] OBVIOUS
        <3>1. ValueIn(db, queue, 0 + 1, r) =
                IF r \in DOMAIN queue[0 + 1].rows THEN queue[0 + 1].rows[r]
                ELSE ValueIn(db, queue, 0, r)
            <4>1. 0 \in Nat OBVIOUS
            <4> QED BY <4>1, ValueNext, Zenon
        <3>2. ValueIn(db, queue, 0, r) = db[r] BY ValueNow
        <3> QED BY <2>5, <3>1, <3>2 DEF Value
    <2>7. /\ db[GoldRow(p)] = Latest(GoldRow(p))
          /\ \A i \in Item : db[ItemRow(i)] = p <=> Latest(ItemRow(i)) = p
        BY <1>0, <2>1, <2>2, <2>6 DEF QueueInv, QueriesCurrent
    <2>8. db[GoldRow(p)] \in Nat BY <1>0 DEF QueueInv, QueueTypes
    <2>9. /\ money' \in [Player -> Nat] /\ money'[p] <= db[GoldRow(p)]
          /\ inv' \in [Player -> SUBSET Item] /\ \A i \in inv'[p] : i \in Item /\ db[ItemRow(i)] = p
          /\ \A x \in Player \ {p} : money'[x] = money[x] /\ inv'[x] = inv[x]
        BY <1>0, <2>2, <2>3, <2>8
    <2>10. HoldTypes' /\ OffersDistinct'
        BY <1>1, <2>2, <2>9 DEF StoreInv, HoldTypes
    <2>11. MemoryBacked'
        <3> SUFFICES ASSUME NEW x \in online'
                     PROVE  /\ \A i \in inv'[x] : Latest(ItemRow(i))' = x
                            /\ money'[x] <= Latest(GoldRow(x))'
            BY DEF MemoryBacked
        <3>1. x \in Player /\ Latest(GoldRow(x))' = Latest(GoldRow(x)) BY <1>0, <2>2, <2>4, RowsDiffer
        <3>2. \A i \in Item : Latest(ItemRow(i))' = Latest(ItemRow(i)) BY <2>4, RowsDiffer
        <3>3. CASE x = p BY <2>7, <2>9, <3>1, <3>2, <3>3
        <3>4. CASE x # p
            <4>1. x \in online /\ inv'[x] = inv[x] /\ money'[x] = money[x] /\ inv[x] \subseteq Item
                BY <1>0, <2>2, <2>9, <3>1, <3>4
            <4> QED BY <3>1, <3>2, <4>1 DEF StoreInv, MemoryBacked
        <3> QED BY <3>3, <3>4
    <2> QED BY <2>4, <2>10, <2>11 DEF StoreInv
<1> QED BY <1>2, <1>3, <1>4, <1>5, <1>6, <1>7 DEF PlayerStep

\* Every step keeps the store.
LEMMA StepStores ==
    ASSUME Workers = 1, WindowInv, StoreInv, [Next]_vars PROVE StoreInv'
<1>0. /\ online \subseteq Player /\ money \in [Player -> Nat] /\ inv \in [Player -> SUBSET Item]
      /\ offer \in [Player -> Offers] /\ OffersDistinct /\ QueueInv
    BY DEF WindowInv, WindowType, StoreInv, HoldTypes
<1>1. CASE UNCHANGED vars
    <2>1. OffersDistinct' BY <1>0, <1>1 DEF vars, OffersDistinct
    <2> QED BY <1>0, <1>1, <2>1, SameStore DEF vars
<1>2. ASSUME NEW k \in 1 .. MaxQueue, Execute(k), UNCHANGED tradeVars PROVE StoreInv'
    <2>1. k = 1 BY <1>2 DEF Execute, Finish
    <2>2. Finish(1) /\ queue[1].load = Nobody /\ db' = queue[1].rows ++ db
        BY <1>2, <2>1 DEF Execute
    <2>3. UNCHANGED <<online, inv, money, offer>> BY <1>2 DEF Execute, tradeVars
    <2>4. QueueInv' /\ \A r \in RowNames : Latest(r)' = Latest(r) BY <1>0, <2>2, <2>3, TakeKeeps
    <2>5. HoldTypes' /\ OffersDistinct' BY <1>0, <2>3 DEF StoreInv, HoldTypes, OffersDistinct
    <2>6. ASSUME NEW x \in online
          PROVE  (\A i \in inv[x] : Latest(ItemRow(i))' = x) /\ money[x] <= Latest(GoldRow(x))'
        <3>1. x \in Player /\ inv[x] \subseteq Item BY <1>0
        <3> QED BY <2>4, <3>1, RowsDiffer DEF StoreInv, MemoryBacked
    <2>7. MemoryBacked' BY <2>3, <2>6 DEF MemoryBacked
    <2> QED BY <2>4, <2>5, <2>7 DEF StoreInv
<1>3. CASE ServerCrash
    <2>1. /\ online' = {} /\ queue' = <<>> /\ db' = db /\ inv' = [p \in Player |-> {}]
          /\ money' = [p \in Player |-> 0] /\ offer' = [p \in Player |-> EmptyOffer]
        BY <1>3 DEF ServerCrash, Crash
    <2>2. QueueInv' BY <1>0, <2>1 DEF QueueInv, QueueTypes, QueriesApart, QueriesCurrent
    <2>3. EmptyOffer \in Offers /\ \A s \in Slot : EmptyOffer.items[s] = NoItem
        BY DEF EmptyOffer, Offers
    <2>4. HoldTypes' BY <2>1, <2>3 DEF HoldTypes
    <2>5. OffersDistinct' BY <2>1, <2>3, Zenon DEF OffersDistinct
    <2>6. MemoryBacked' BY <2>1 DEF MemoryBacked
    <2> QED BY <2>2, <2>4, <2>5, <2>6 DEF StoreInv
<1> QED BY <1>1, <1>2, <1>3, WindowStores, PlayerStores DEF Next

\* At the start the tables hold what the players hold.
LEMMA InitStores == Init => StoreInv
<1> SUFFICES ASSUME Init PROVE StoreInv OBVIOUS
<1>0. /\ online = Player /\ inv = [p \in Player |-> {i \in Item : InitOwner[i] = p}]
      /\ money = InitMoney /\ queue = <<>> /\ db = InitRows
      /\ offer = [p \in Player |-> EmptyOffer]
      /\ InitMoney \in [Player -> Nat] /\ InitOwner \in [Item -> Player]
    BY StoreAssumption DEF Init, StoreInit
<1>1. /\ \A p \in Player : GoldRow(p) \in DOMAIN db /\ db[GoldRow(p)] = InitMoney[p]
      /\ \A i \in Item : ItemRow(i) \in DOMAIN db /\ db[ItemRow(i)] = InitOwner[i]
      /\ DOMAIN db = RowNames /\ db = [r \in DOMAIN db |-> db[r]]
    <2> DEFINE g == [r \in {GoldRow(p) : p \in Player} |-> InitMoney[r[2]]]
               o == [r \in {ItemRow(i) : i \in Item} |-> InitOwner[r[2]]]
    <2>1. /\ DOMAIN g = {GoldRow(p) : p \in Player} /\ \A p \in Player : g[GoldRow(p)] = InitMoney[p]
          /\ DOMAIN o = {ItemRow(i) : i \in Item} /\ \A i \in Item : o[ItemRow(i)] = InitOwner[i]
        BY DEF GoldRow, ItemRow
    <2>2. db = g ++ o BY <1>0 DEF InitRows
    <2> HIDE DEF g, o
    <2>3. /\ DOMAIN db = DOMAIN g \cup DOMAIN o /\ db = [r \in DOMAIN db |-> db[r]]
          /\ \A r \in DOMAIN g : db[r] = g[r]
          /\ \A r \in DOMAIN o \ DOMAIN g : db[r] = o[r]
        BY <2>2 DEF ++
    <2> QED BY <2>1, <2>3, RowsDiffer DEF RowNames
<1>2. db \in [RowNames -> RowValue]
    <2>1. \A p \in Player : db[GoldRow(p)] \in RowValue BY <1>0, <1>1 DEF RowValue
    <2>2. \A i \in Item : db[ItemRow(i)] \in RowValue BY <1>0, <1>1 DEF RowValue
    <2>3. \A r \in RowNames : db[r] \in RowValue BY <2>1, <2>2, Zenon DEF RowNames
    <2> QED BY <1>1, <2>3
<1>3. QueueInv
    <2>1. \A p \in Player : db[GoldRow(p)] \in Nat BY <1>0, <1>1
    <2> QED BY <1>0, <1>2, <2>1 DEF QueueInv, QueueTypes, QueriesApart, QueriesCurrent
<1>4. EmptyOffer \in Offers /\ \A s \in Slot : EmptyOffer.items[s] = NoItem
    BY DEF EmptyOffer, Offers
<1>5. HoldTypes /\ OffersDistinct
    <2>1. HoldTypes BY <1>0, <1>4 DEF HoldTypes
    <2>2. OffersDistinct BY <1>0, <1>4, Zenon DEF OffersDistinct
    <2> QED BY <2>1, <2>2
<1>6. MemoryBacked
    <2>1. \A r : Latest(r) = db[r] BY <1>0 DEF Latest
    <2> QED BY <1>0, <1>1, <2>1 DEF MemoryBacked
<1> QED BY <1>3, <1>5, <1>6 DEF StoreInv

-----------------------------------------------------------------------------
\* The invariant of the store under the trade, when the transactions take effect
\* in the order in which they were committed (CharacterDatabase.WorkerThreads = 1).
THEOREM StoreInvariant ==
    ASSUME Workers = 1 PROVE Spec => []StoreInv
<1>1. WindowInv /\ StoreInv /\ [Next]_vars => StoreInv' BY StepStores
<1> QED BY <1>1, InitStores, WindowInvariant, PTL DEF Spec

\* What a player in the world holds is what the tables say once the queue is
\* empty, through trades, mails, logouts, logins and crashes.
THEOREM MemoryAlwaysBacked ==
    ASSUME Workers = 1 PROVE Spec => []MemoryBacked
<1>1. StoreInv => MemoryBacked BY DEF StoreInv
<1> QED BY <1>1, StoreInvariant, PTL

\* No trade, save, login or crash puts an item into two inventories.
THEOREM ItemsOnce ==
    ASSUME Workers = 1 PROVE Spec => []ItemOnce
<1> QED BY BackedOnce, StoreInvariant, WindowInvariant, PTL

-----------------------------------------------------------------------------
(***************************************************************************)
(* The acceptances.                                                        *)
(***************************************************************************)

\* No player holds more than the gold limit.
GoldLimited == \A p \in Player : money[p] <= MaxMoney

\* Every step keeps the gold limit.
LEMMA LimitKept ==
    ASSUME WindowInv, StoreInv, GoldLimited, [Next]_vars PROVE GoldLimited'
<1>0. MaxMoney \in Nat /\ money \in [Player -> Nat] BY StoreAssumption DEF StoreInv, HoldTypes
<1>1. CASE UNCHANGED money BY <1>1 DEF GoldLimited
<1>2. ASSUME NEW p \in Player, HandleAcceptComplete(p) PROVE GoldLimited'
    <2> DEFINE q == partner[p]
    <2>1. q \in Player /\ p # q
        BY <1>2, StoreAssumption
        DEF HandleAcceptComplete, WindowInv, WindowType, TradePaired, Trading
    <2>2. money' = [money EXCEPT
                ![p] = Received(Paid(@, offer[p].gold), offer[q].gold),
                ![q] = Received(Paid(@, offer[q].gold), offer[p].gold)]
        BY <1>2 DEF HandleAcceptComplete
    <2>3. offer[p].gold \in Nat /\ offer[q].gold \in Nat
        BY <2>1 DEF StoreInv, HoldTypes, Offers
    <2> HIDE DEF q
    <2>4. \A m, d \in Nat : Paid(m, d) \in Nat BY MoneyTypes
    <2>5. \A m, d \in Nat : Received(m, d) <= MaxMoney BY <1>0 DEF Received
    <2>6. \A x \in Player \ {p, q} : money'[x] = money[x] BY <1>0, <2>2
    <2>7. money'[p] = Received(Paid(money[p], offer[p].gold), offer[q].gold) BY <1>0, <2>1, <2>2
    <2>8. money'[q] = Received(Paid(money[q], offer[q].gold), offer[p].gold) BY <1>0, <2>1, <2>2
    <2>9. money'[p] <= MaxMoney /\ money'[q] <= MaxMoney
        BY <1>0, <2>1, <2>3, <2>4, <2>5, <2>7, <2>8
    <2> QED BY <2>6, <2>9 DEF GoldLimited
<1>3. ASSUME NEW p \in Player, WindowStep(p) PROVE GoldLimited'
    <2>1. CASE UNCHANGED storeVars BY <1>1, <2>1 DEF storeVars
    <2> QED BY <1>2, <1>3, <2>1
            DEF WindowStep, HandleInitiateTrade, HandleSetTradeGold, HandleSetTradeItem,
                HandleClearTradeItem, CastTradeSpell, HandleUnacceptTrade, HandleCancelTrade,
                HandleAcceptRefused
<1>4. ASSUME NEW p \in Player, NEW k \in 1 .. MaxQueue, LoadFromDB(p, k) PROVE GoldLimited'
    <2> DEFINE g == IF db[GoldRow(p)] > MaxMoney THEN MaxMoney ELSE db[GoldRow(p)]
    <2>1. money' = [money EXCEPT ![p] = g] BY <1>4 DEF LoadFromDB
    <2>2. db[GoldRow(p)] \in Nat BY DEF StoreInv, QueueInv, QueueTypes
    <2>3. g <= MaxMoney BY <1>0, <2>2
    <2> HIDE DEF g
    <2> QED BY <1>0, <2>1, <2>3 DEF GoldLimited
<1>5. ASSUME NEW p \in Player, PlayerStep(p) PROVE GoldLimited'
    <2>1. ASSUME NEW i \in Item, HandleSendMail(p, i) PROVE GoldLimited'
        BY <1>1, <2>1 DEF HandleSendMail
    <2>2. ASSUME NEW i \in BindOnUse, HandleUseItem(p, i) PROVE GoldLimited'
        BY <1>1, <2>2 DEF HandleUseItem, storeVars
    <2>3. ASSUME NEW g \in 1 .. MaxMoney, Spend(p, g) PROVE GoldLimited'
        <3>1. money' = [money EXCEPT ![p] = Paid(@, g)] /\ g \in Nat
            BY <1>0, <2>3 DEF Spend
        <3>2. Paid(money[p], g) <= money[p] /\ Paid(money[p], g) \in Nat
            BY <1>0, <3>1, MoneyTypes
        <3> QED BY <1>0, <3>1, <3>2 DEF GoldLimited
    <2>4. CASE Logout(p)
        <3>1. money' = [money EXCEPT ![p] = 0] BY <2>4 DEF Logout, LogoutPlayer
        <3> QED BY <1>0, <3>1 DEF GoldLimited
    <2>5. CASE LoginPlayer(p) BY <1>1, <2>5 DEF LoginPlayer
    <2> QED BY <1>4, <1>5, <2>1, <2>2, <2>3, <2>4, <2>5 DEF PlayerStep
<1>6. ASSUME NEW k \in 1 .. MaxQueue, Execute(k) PROVE GoldLimited'
    BY <1>1, <1>6 DEF Execute
<1>7. CASE ServerCrash
    <2>1. money' = [p \in Player |-> 0] BY <1>7 DEF ServerCrash, Crash
    <2> QED BY <1>0, <2>1 DEF GoldLimited
<1>8. CASE UNCHANGED vars BY <1>1, <1>8 DEF vars
<1> QED BY <1>3, <1>5, <1>6, <1>7, <1>8 DEF Next

\* What a player gives and gets in a trade of money.
LEMMA GoldWithin ==
    ASSUME NEW m \in Nat, NEW g \in Nat, NEW h \in Nat, m <= MaxMoney, g <= m
    PROVE  Received(Paid(m, g), h) - (m - g) \in 0 .. h
<1>1. MaxMoney \in Nat BY StoreAssumption
<1>2. Paid(m, g) = m - g BY DEF Paid
<1>3. PICK n \in Nat : n = m - g /\ n <= MaxMoney BY <1>1
<1>4. Received(n, h) - n \in 0 .. h BY <1>1, <1>3 DEF Received
<1> QED BY <1>2, <1>3, <1>4

\* The trade that is executed is within the window, for both sides.
LEMMA CompleteWithin ==
    ASSUME WindowInv, StoreInv, GoldLimited, NEW p \in Player, HandleAcceptComplete(p)
    PROVE  /\ accepted[partner[p]]
           /\ WithinWindow(p, partner[p]) /\ WithinWindow(partner[p], p)
<1> DEFINE q == partner[p]
           bags == MoveItems(p, q)
<1>1. /\ Trading(p) /\ accepted[q] /\ HasMoney(p) /\ HasMoney(q)
      /\ inv' = [x \in Player |-> IF x \in {p, q} THEN bags[x] ELSE inv[x]]
      /\ money' = [money EXCEPT
                ![p] = Received(Paid(@, offer[p].gold), offer[q].gold),
                ![q] = Received(Paid(@, offer[q].gold), offer[p].gold)]
    BY DEF HandleAcceptComplete, CanAccept
<1>2. q \in Player /\ p # q
    BY <1>1, StoreAssumption DEF WindowInv, WindowType, TradePaired, Trading
<1>3. /\ inv \in [Player -> SUBSET Item] /\ offer \in [Player -> Offers] /\ OffersDistinct
      /\ money \in [Player -> Nat]
    BY DEF StoreInv, HoldTypes
<1>4. Between(bags[p], p, q) /\ Between(bags[q], q, p) BY <1>2, <1>3, MoveItemsWithin
<1> HIDE DEF bags
<1>5. inv'[p] = bags[p] /\ inv'[q] = bags[q] BY <1>1, <1>2
<1> HIDE DEF q
<1>6. \A x \in Player : TradedItems(x) \subseteq Shown(x)
    BY DEF TradedItems, GetItem, Shown
<1>7. /\ inv[p] \ inv'[p] \subseteq Shown(p) /\ inv'[p] \ inv[p] \subseteq Shown(q)
      /\ inv[q] \ inv'[q] \subseteq Shown(q) /\ inv'[q] \ inv[q] \subseteq Shown(p)
    BY <1>2, <1>4, <1>5, <1>6 DEF Between
<1>8. PICK g \in Nat, h \in Nat : g = offer[p].gold /\ h = offer[q].gold
    BY <1>2, <1>3 DEF Offers
<1>9. PICK m \in Nat, n \in Nat : m = money[p] /\ n = money[q] BY <1>2, <1>3
<1>10. g <= m /\ h <= n /\ m <= MaxMoney /\ n <= MaxMoney
    BY <1>1, <1>2, <1>8, <1>9 DEF HasMoney, GoldLimited
<1>11. Received(Paid(m, g), h) - (m - g) \in 0 .. h BY <1>10, GoldWithin
<1>12. Received(Paid(n, h), g) - (n - h) \in 0 .. g BY <1>10, GoldWithin
<1>13. money'[p] = Received(Paid(m, g), h) /\ money'[q] = Received(Paid(n, h), g)
    BY <1>1, <1>2, <1>3, <1>8, <1>9
<1>14. money'[p] - (money[p] - offer[p].gold) \in 0 .. offer[q].gold
    BY <1>8, <1>9, <1>11, <1>13
<1>15. money'[q] - (money[q] - offer[q].gold) \in 0 .. offer[p].gold
    BY <1>8, <1>9, <1>12, <1>13
<1>16. WithinWindow(p, q) BY <1>7, <1>14, Zenon DEF WithinWindow
<1>17. WithinWindow(q, p) BY <1>7, <1>15, Zenon DEF WithinWindow
<1> QED BY <1>1, <1>16, <1>17 DEF q

\* A standing acceptance is always for the offers that the player accepted, and the
\* trade that is executed moves nothing else: no item that was not in the window
\* leaves or enters an inventory, and nobody pays more than his own sum or gets more
\* than the other's.  (An accepted item that was mailed away since is missing.)
THEOREM AcceptancesBind ==
    ASSUME Workers = 1, \A p \in Player : InitMoney[p] <= MaxMoney
    PROVE  Spec => AcceptanceBinds
<1>1. Init => GoldLimited BY DEF Init, StoreInit, GoldLimited
<1>2. WindowInv /\ StoreInv /\ GoldLimited /\ [Next]_vars => GoldLimited' BY LimitKept
<1>3. WindowInv /\ StoreInv /\ GoldLimited /\ [Next]_vars =>
        [\A p \in Player :
            /\ accepted[p] /\ accepted'[p] =>
                    offer'[p] = offer[p] /\ offer'[partner[p]] = offer[partner[p]]
            /\ HandleAcceptComplete(p) =>
                    /\ accepted[partner[p]]
                    /\ WithinWindow(p, partner[p]) /\ WithinWindow(partner[p], p)]_vars
    <2> SUFFICES ASSUME WindowInv, StoreInv, GoldLimited, [Next]_vars, NEW p \in Player
                 PROVE  /\ accepted[p] /\ accepted'[p] =>
                                offer'[p] = offer[p] /\ offer'[partner[p]] = offer[partner[p]]
                        /\ HandleAcceptComplete(p) =>
                                /\ accepted[partner[p]]
                                /\ WithinWindow(p, partner[p]) /\ WithinWindow(partner[p], p)
        OBVIOUS
    <2>1. Binds BY StepKeeps
    <2> QED BY <2>1, CompleteWithin, Zenon DEF Binds
<1> QED BY <1>1, <1>2, <1>3, WindowInvariant, StoreInvariant, PTL DEF Spec, AcceptanceBinds

-----------------------------------------------------------------------------
(***************************************************************************)
(* The money.  No moment of the history of the tables holds more than the  *)
(* players had at the start: a save stores no more than the last value it  *)
(* replaces, and a trade stores both sides at once.                        *)
(***************************************************************************)

Gold(n) == [p \in Player |-> Value(n, GoldRow(p))]
LastGold == [p \in Player |-> Latest(GoldRow(p))]

MoneyInv == \A n \in 0 .. Len(queue) : SumOn(Player, Gold(n)) <= SumOn(Player, InitMoney)

\* The sums are numbers.
LEMMA NatSum ==
    ASSUME NEW S, IsFiniteSet(S), NEW f \in [S -> Nat] PROVE SumOn(S, f) \in Int
<1>1. \A x \in S : f[x] \in Int OBVIOUS
<1> QED BY <1>1, SumParts

\* So is what the rows say in the end.
LEMMA GoldSums ==
    ASSUME QueueInv
    PROVE  /\ IsFiniteSet(Player)
           /\ SumOn(Player, InitMoney) \in Int
           /\ LastGold \in [Player -> Nat] /\ SumOn(Player, LastGold) \in Int
           /\ queue \in Seq(Entries) /\ Len(queue) \in Nat /\ DOMAIN queue = 1 .. Len(queue)
           /\ Gold(Len(queue)) = LastGold
           /\ \A n \in 0 .. Len(queue) : Gold(n) \in [Player -> Nat]
<1>1. IsFiniteSet(Player) /\ InitMoney \in [Player -> Nat] BY StoreAssumption
<1>2. LastGold \in [Player -> Nat] BY GoldType DEF LastGold
<1>3. queue \in Seq(Entries) BY DEF QueueInv, QueueTypes
<1>4. Len(queue) \in Nat /\ DOMAIN queue = 1 .. Len(queue) BY <1>3, LenProperties
<1>5. Gold(Len(queue)) = LastGold
    <2>1. \A p \in Player : Latest(GoldRow(p)) = Value(Len(queue), GoldRow(p)) BY <1>3, LatestIsLast
    <2> QED BY <2>1 DEF Gold, LastGold
<1>6. ASSUME NEW n \in 0 .. Len(queue) PROVE Gold(n) \in [Player -> Nat]
    <2>1. ASSUME NEW p \in Player PROVE Value(n, GoldRow(p)) \in Nat
        <3>1. /\ db[GoldRow(p)] \in Nat
              /\ \A k \in DOMAIN queue : GoldRow(p) \in DOMAIN queue[k].rows =>
                    queue[k].rows[GoldRow(p)] \in Nat
            BY DEF QueueInv, QueueTypes
        <3>2. \A j \in 0 .. Len(queue) : ValueIn(db, queue, j, GoldRow(p)) \in Nat
            BY <1>3, <3>1, ValueType
        <3> QED BY <3>2 DEF Value
    <2> QED BY <2>1 DEF Gold
<1>7. SumOn(Player, InitMoney) \in Int BY <1>1, NatSum
<1>8. SumOn(Player, LastGold) \in Int BY <1>1, <1>2, NatSum
<1> QED BY <1>1, <1>2, <1>3, <1>4, <1>5, <1>6, <1>7, <1>8

\* An entry that leaves no more money than there was.
LEMMA AppendGold ==
    ASSUME QueueInv, MoneyInv, NEW e \in Entries, queue' = Append(queue, e), db' = db,
           NEW f, \A p \in Player : f[p] = IF GoldRow(p) \in DOMAIN e.rows
                                           THEN e.rows[GoldRow(p)] ELSE Latest(GoldRow(p)),
           f \in [Player -> Nat],
           SumOn(Player, f) <= SumOn(Player, LastGold)
    PROVE  MoneyInv'
<1>1. /\ \A r : \A n \in 0 .. Len(queue) : Value(n, r)' = Value(n, r)
      /\ \A r : Latest(r)' = IF r \in DOMAIN e.rows THEN e.rows[r] ELSE Latest(r)
      /\ \A r : \A n : n = Len(queue) + 1 => Value(n, r)' = Latest(r)'
      /\ Len(queue') = Len(queue) + 1
    BY GoldSums, AppendValues
<1>2. SumOn(Player, f) \in Int /\ SumOn(Player, f) <= SumOn(Player, InitMoney)
    <2>1. Len(queue) \in 0 .. Len(queue) BY GoldSums
    <2>2. SumOn(Player, LastGold) <= SumOn(Player, InitMoney) BY <2>1, GoldSums DEF MoneyInv
    <2>3. SumOn(Player, f) \in Int BY GoldSums, NatSum
    <2> QED BY <2>2, <2>3, GoldSums
<1>3. ASSUME NEW n \in 0 .. Len(queue) + 1
      PROVE  SumOn(Player, [p \in Player |-> Value(n, GoldRow(p))']) <= SumOn(Player, InitMoney)
    <2>1. CASE n \in 0 .. Len(queue)
        <3>1. [p \in Player |-> Value(n, GoldRow(p))'] = Gold(n) BY <1>1, <2>1 DEF Gold
        <3> QED BY <2>1, <3>1 DEF MoneyInv
    <2>2. CASE n = Len(queue) + 1
        <3>1. [p \in Player |-> Value(n, GoldRow(p))'] = f BY <1>1, <2>2
        <3> QED BY <1>2, <3>1
    <2> QED BY <2>1, <2>2, GoldSums
<1> QED BY <1>1, <1>3 DEF MoneyInv, Gold

\* A step that leaves tables and queue alone.
LEMMA SameGold ==
    ASSUME MoneyInv, db' = db, queue' = queue PROVE MoneyInv'
<1>1. ASSUME NEW n, NEW r PROVE Value(n, r)' = Value(n, r)
    <2>1. Value(n, r)' = ValueIn(db', queue', n, r) BY ValuePrimed
    <2> QED BY <2>1 DEF Value
<1> QED BY <1>1 DEF MoneyInv, Gold

\* The save of one player stores no more money than the tables give him.
LEMMA SaveGold ==
    ASSUME WindowInv, StoreInv, MoneyInv, NEW p \in online, NEW is \in SUBSET Item,
           Commit(SavedRows(p, is)), db' = db
    PROVE  MoneyInv'
<1> DEFINE rows == SavedRows(p, is)
           e == [load |-> Nobody, rows |-> rows]
           f == [LastGold EXCEPT ![p] = money[p]]
<1>1. p \in Player /\ QueueInv /\ money \in [Player -> Nat] /\ money[p] <= Latest(GoldRow(p))
    BY DEF WindowInv, WindowType, StoreInv, HoldTypes, MemoryBacked
<1>2. /\ rows \in Transactions
      /\ \A x \in Player : GoldRow(x) \in DOMAIN rows <=> x = p
      /\ rows[GoldRow(p)] = money[p]
    BY <1>1, SaveRows
<1>3. Commit(rows) OBVIOUS
<1> HIDE DEF rows
<1>4. e \in Entries /\ e.rows = rows /\ queue' = Append(queue, e)
    BY <1>2, <1>3 DEF Entries, Commit
<1>5. /\ IsFiniteSet(Player) /\ LastGold \in [Player -> Nat] /\ SumOn(Player, LastGold) \in Int
    BY <1>1, GoldSums
<1>6. f \in [Player -> Nat] /\ f[p] = money[p] /\ \A x \in Player \ {p} : f[x] = LastGold[x]
    BY <1>1, <1>5
<1> HIDE DEF e, f
<1>7. SumOn(Player, f) = SumOn(Player, LastGold) - LastGold[p] + f[p]
    BY <1>1, <1>5, <1>6, SumChange
<1>8. LastGold[p] = Latest(GoldRow(p)) BY <1>1 DEF LastGold
<1>9. SumOn(Player, f) <= SumOn(Player, LastGold) BY <1>1, <1>5, <1>6, <1>7, <1>8
<1>10. \A x \in Player : f[x] = IF GoldRow(x) \in DOMAIN e.rows
                                THEN e.rows[GoldRow(x)] ELSE Latest(GoldRow(x))
    BY <1>2, <1>4, <1>6 DEF LastGold
<1> QED BY <1>1, <1>4, <1>6, <1>9, <1>10, AppendGold

\* Two players who trade have together no more money than before.
LEMMA TradeSum ==
    ASSUME NEW a \in Nat, NEW b \in Nat, NEW c \in Nat, NEW d \in Nat, c <= a, d <= b
    PROVE  Received(Paid(a, c), d) + Received(Paid(b, d), c) <= a + b
<1>1. Paid(a, c) = a - c /\ Paid(b, d) = b - d BY DEF Paid
<1>2. Received(a - c, d) <= (a - c) + d /\ Received(a - c, d) \in Nat BY StoreAssumption DEF Received
<1>3. Received(b - d, c) <= (b - d) + c /\ Received(b - d, c) \in Nat BY StoreAssumption DEF Received
<1> QED BY <1>1, <1>2, <1>3

\* A trade stores the money of both players at once.
LEMMA CompleteGold ==
    ASSUME WindowInv, StoreInv, MoneyInv, NEW p \in Player, HandleAcceptComplete(p)
    PROVE  MoneyInv'
<1> DEFINE q == partner[p]
           bags == MoveItems(p, q)
           m == [money EXCEPT
                    ![p] = Received(Paid(@, offer[p].gold), offer[q].gold),
                    ![q] = Received(Paid(@, offer[q].gold), offer[p].gold)]
           rows == TradeRows(p, q, bags, m)
           e == [load |-> Nobody, rows |-> rows]
           f == [LastGold EXCEPT ![p] = m[p]]
           h == [f EXCEPT ![q] = m[q]]
<1>1. Trading(p) /\ Commit(rows) /\ db' = db /\ HasMoney(p) /\ HasMoney(q)
    BY DEF HandleAcceptComplete, CanAccept
<1>2. q \in Player /\ p # q /\ p \in online /\ q \in online
    BY <1>1, StoreAssumption DEF WindowInv, WindowType, TradePaired, Trading
<1> HIDE DEF q
<1>3. /\ money \in [Player -> Nat] /\ inv \in [Player -> SUBSET Item] /\ offer \in [Player -> Offers]
      /\ OffersDistinct /\ QueueInv /\ ItemOnce
    BY BackedOnce DEF StoreInv, HoldTypes
<1>4. /\ offer[p].gold \in Nat /\ offer[q].gold \in Nat /\ money[p] \in Nat /\ money[q] \in Nat
      /\ offer[p].gold <= money[p] /\ offer[q].gold <= money[q]
    BY <1>1, <1>2, <1>3 DEF Offers, HasMoney
<1>5. m \in [Player -> Nat] /\ m[p] + m[q] <= money[p] + money[q]
    <2>1. /\ m[p] = Received(Paid(money[p], offer[p].gold), offer[q].gold)
          /\ m[q] = Received(Paid(money[q], offer[q].gold), offer[p].gold)
        BY <1>2, <1>3
    <2>2. m \in [Player -> Nat] BY <1>2, <1>3, <1>4, MoneyTypes
    <2>3. Received(Paid(money[p], offer[p].gold), offer[q].gold)
            + Received(Paid(money[q], offer[q].gold), offer[p].gold) <= money[p] + money[q]
        BY <1>4, TradeSum, Zenon
    <2> HIDE DEF m
    <2> QED BY <2>1, <2>2, <2>3
<1> HIDE DEF m
<1>6. bags \in Bags(p, q) /\ bags[p] \cap bags[q] = {}
    BY <1>2, <1>3, MoveItemsSorted DEF ItemOnce
<1> HIDE DEF bags
<1>7. /\ rows \in Transactions
      /\ \A x \in Player : GoldRow(x) \in DOMAIN rows <=> x \in {p, q}
      /\ \A x \in {p, q} : rows[GoldRow(x)] = m[x]
    BY <1>2, <1>5, <1>6, TradeRowsWritten
<1> HIDE DEF rows
<1>8. e \in Entries /\ e.rows = rows /\ queue' = Append(queue, e)
    BY <1>1, <1>7 DEF Entries, Commit
<1>9. IsFiniteSet(Player) /\ LastGold \in [Player -> Nat] /\ SumOn(Player, LastGold) \in Int
    BY <1>3, GoldSums
<1>10. f \in [Player -> Nat] /\ f[p] = m[p] /\ \A x \in Player \ {p} : f[x] = LastGold[x]
    BY <1>5, <1>9
<1> HIDE DEF f
<1>11. h \in [Player -> Nat] /\ h[q] = m[q] /\ \A x \in Player \ {q} : h[x] = f[x]
    BY <1>2, <1>5, <1>10
<1> HIDE DEF e, h
<1>12. SumOn(Player, f) = SumOn(Player, LastGold) - LastGold[p] + f[p]
    BY <1>9, <1>10, SumChange
<1>13. SumOn(Player, h) = SumOn(Player, f) - f[q] + h[q] /\ SumOn(Player, f) \in Int
    BY <1>2, <1>9, <1>10, <1>11, SumChange
<1>14. /\ LastGold[p] = Latest(GoldRow(p)) /\ LastGold[q] = Latest(GoldRow(q))
       /\ money[p] <= Latest(GoldRow(p)) /\ money[q] <= Latest(GoldRow(q))
    BY <1>2 DEF LastGold, StoreInv, MemoryBacked
<1>15. f[q] = LastGold[q] /\ h[q] = m[q] BY <1>2, <1>10, <1>11
<1>16. SumOn(Player, h) <= SumOn(Player, LastGold)
    <2>1. LastGold[p] \in Nat /\ LastGold[q] \in Nat /\ m[p] \in Nat /\ m[q] \in Nat
        BY <1>2, <1>5, <1>9
    <2>2. m[p] + m[q] <= LastGold[p] + LastGold[q] BY <1>4, <1>5, <1>14, <2>1
    <2> QED BY <1>9, <1>10, <1>12, <1>13, <1>15, <2>1, <2>2
<1>17. \A x \in Player : h[x] = IF GoldRow(x) \in DOMAIN e.rows
                                THEN e.rows[GoldRow(x)] ELSE Latest(GoldRow(x))
    BY <1>2, <1>7, <1>8, <1>10, <1>11 DEF LastGold
<1> QED BY <1>1, <1>3, <1>8, <1>11, <1>16, <1>17, AppendGold

\* The first entry takes effect.
LEMMA TakeGold ==
    ASSUME QueueInv, MoneyInv, Finish(1),
           \/ db' = queue[1].rows ++ db
           \/ db' = db /\ DOMAIN queue[1].rows = {}
    PROVE  MoneyInv'
<1>1. queue \in Seq(Entries) /\ Len(queue) \in Nat /\ DOMAIN db = RowNames
    BY GoldSums DEF QueueInv, QueueTypes
<1>2. /\ \A r \in RowNames : \A n \in 0 .. Len(queue) - 1 : Value(n, r)' = Value(n + 1, r)
      /\ queue # <<>> /\ queue' = Tail(queue)
    BY <1>1, TakeValues
<1>3. Len(queue') = Len(queue) - 1 BY <1>1, <1>2, HeadTailProperties
<1>4. ASSUME NEW n \in 0 .. Len(queue) - 1
      PROVE  SumOn(Player, [p \in Player |-> Value(n, GoldRow(p))']) <= SumOn(Player, InitMoney)
    <2>1. n + 1 \in 0 .. Len(queue) BY <1>1
    <2>2. [p \in Player |-> Value(n, GoldRow(p))'] = Gold(n + 1) BY <1>2, RowsDiffer DEF Gold
    <2> QED BY <2>1, <2>2 DEF MoneyInv
<1> QED BY <1>3, <1>4 DEF MoneyInv, Gold

\* Every step keeps the money.
LEMMA StepGold ==
    ASSUME Workers = 1, WindowInv, StoreInv, MoneyInv, [Next]_vars PROVE MoneyInv'
<1>0. QueueInv /\ money \in [Player -> Nat] /\ inv \in [Player -> SUBSET Item] BY DEF StoreInv, HoldTypes
<1>1. CASE UNCHANGED vars BY <1>1, SameGold DEF vars
<1>2. ASSUME NEW p \in Player, WindowStep(p) PROVE MoneyInv'
    <2>1. CASE HandleAcceptComplete(p) BY <2>1, CompleteGold
    <2>2. CASE UNCHANGED storeVars BY <2>2, SameGold DEF storeVars
    <2> QED BY <1>2, <2>1, <2>2
            DEF WindowStep, HandleInitiateTrade, HandleSetTradeGold, HandleSetTradeItem,
                HandleClearTradeItem, CastTradeSpell, HandleUnacceptTrade, HandleCancelTrade,
                HandleAcceptRefused
<1>3. ASSUME NEW p \in Player, NEW i \in Item, HandleSendMail(p, i) PROVE MoneyInv'
    <2> DEFINE is == {i}
    <2>1. /\ p \in online /\ is \in SUBSET Item /\ db' = db
          /\ Commit(GoldRows({p}, money) ++ Write(ItemRow(i), Nobody))
        BY <1>3 DEF HandleSendMail
    <2>2. Write(ItemRow(i), Nobody) = ItemRows(is, Nobody)
        <3>1. {ItemRow(j) : j \in is} = {ItemRow(i)} OBVIOUS
        <3> QED BY <3>1 DEF Write, ItemRows
    <2> HIDE DEF is
    <2>3. Commit(SavedRows(p, is)) BY <2>1, <2>2 DEF SavedRows
    <2> QED BY <2>1, <2>3, SaveGold
<1>4. ASSUME NEW p \in Player, Logout(p) PROVE MoneyInv'
    <2> DEFINE is == {}
    <2>1. p \in online /\ db' = db /\ Commit(GoldRows({p}, money) ++ [r \in {} |-> r])
        BY <1>4 DEF Logout, LogoutPlayer
    <2>2. [r \in {} |-> r] = ItemRows(is, Nobody)
        <3>1. {ItemRow(j) : j \in is} = {} OBVIOUS
        <3> QED BY <3>1 DEF ItemRows
    <2>3. is \in SUBSET Item OBVIOUS
    <2> HIDE DEF is
    <2>4. Commit(SavedRows(p, is)) BY <2>1, <2>2 DEF SavedRows
    <2> QED BY <2>1, <2>3, <2>4, SaveGold
<1>5. ASSUME NEW p \in Player, LoginPlayer(p) PROVE MoneyInv'
    <2> DEFINE e == Query(p)
    <2>1. e \in Entries /\ queue' = Append(queue, e) /\ db' = db
        <3>1. e.rows \in Transactions BY TransactionType DEF Query
        <3> QED BY <1>5, <3>1 DEF Entries, LoginPlayer, Query
    <2>2. DOMAIN e.rows = {} BY DEF Query
    <2> HIDE DEF e
    <2>3. \A x \in Player : LastGold[x] = IF GoldRow(x) \in DOMAIN e.rows
                                          THEN e.rows[GoldRow(x)] ELSE Latest(GoldRow(x))
        BY <2>2 DEF LastGold
    <2>4. LastGold \in [Player -> Nat] /\ SumOn(Player, LastGold) <= SumOn(Player, LastGold)
        BY <1>0, GoldSums
    <2> QED BY <1>0, <2>1, <2>3, <2>4, AppendGold
<1>6. ASSUME NEW p \in Player, NEW k \in 1 .. MaxQueue, LoadFromDB(p, k) PROVE MoneyInv'
    <2>1. k = 1 /\ 1 \in DOMAIN queue BY <1>6 DEF LoadFromDB, Finish
    <2>2. Finish(1) /\ queue[1].load = p /\ db' = db /\ p # Nobody
        BY <1>6, <2>1, StoreAssumption DEF LoadFromDB
    <2>3. DOMAIN queue[1].rows = {} BY <1>0, <2>1, <2>2 DEF QueueInv, QueriesApart
    <2> QED BY <1>0, <2>2, <2>3, TakeGold
<1>7. ASSUME NEW k \in 1 .. MaxQueue, Execute(k) PROVE MoneyInv'
    <2>1. k = 1 BY <1>7 DEF Execute, Finish
    <2>2. Finish(1) /\ db' = queue[1].rows ++ db BY <1>7, <2>1 DEF Execute
    <2> QED BY <1>0, <2>2, TakeGold
<1>8. CASE ServerCrash
    <2>1. queue' = <<>> /\ db' = db BY <1>8 DEF ServerCrash, Crash
    <2>2. ASSUME NEW r PROVE Value(0, r)' = Value(0, r)
        <3>1. Value(0, r)' = ValueIn(db', queue', 0, r) BY ValuePrimed
        <3>2. ValueIn(db', queue', 0, r) = db[r] BY <2>1, ValueNow
        <3>3. ValueIn(db, queue, 0, r) = db[r] BY ValueNow
        <3> QED BY <3>1, <3>2, <3>3 DEF Value
    <2>3. Len(queue') = 0 /\ 0 \in 0 .. Len(queue) BY <1>0, <2>1, GoldSums
    <2>4. [p \in Player |-> Value(0, GoldRow(p))'] = Gold(0) BY <2>2 DEF Gold
    <2>5. SumOn(Player, [p \in Player |-> Value(0, GoldRow(p))']) <= SumOn(Player, InitMoney)
        BY <2>3, <2>4 DEF MoneyInv
    <2>6. \A n \in 0 .. 0 : n = 0 OBVIOUS
    <2> QED BY <2>3, <2>5, <2>6 DEF MoneyInv, Gold
<1>9. ASSUME NEW p \in Player, PlayerStep(p) PROVE MoneyInv'
    <2>1. ASSUME NEW i \in BindOnUse, HandleUseItem(p, i) PROVE MoneyInv'
        BY <2>1, SameGold DEF HandleUseItem, storeVars
    <2>2. ASSUME NEW g \in 1 .. MaxMoney, Spend(p, g) PROVE MoneyInv'
        BY <2>2, SameGold DEF Spend
    <2> QED BY <1>3, <1>4, <1>5, <1>6, <1>9, <2>1, <2>2 DEF PlayerStep
<1> QED BY <1>1, <1>2, <1>7, <1>8, <1>9 DEF Next

\* The money in the tables is never more than there was at the start, although
\* a trade is stored after it happens and crashes lose what is not yet stored.
THEOREM MoneyNeverCreated ==
    ASSUME Workers = 1 PROVE Spec => []NoMoneyCreated
<1>1. Init => MoneyInv
    <2> SUFFICES ASSUME Init PROVE MoneyInv OBVIOUS
    <2>1. queue = <<>> /\ QueueInv /\ MemoryBacked /\ money = InitMoney /\ online = Player
        BY InitStores DEF Init, StoreInit, StoreInv
    <2>2. \A p \in Player : db[GoldRow(p)] = InitMoney[p]
        <3> DEFINE g == [r \in {GoldRow(p) : p \in Player} |-> InitMoney[r[2]]]
                   o == [r \in {ItemRow(i) : i \in Item} |-> InitOwner[r[2]]]
        <3>1. DOMAIN g = {GoldRow(p) : p \in Player} /\ \A p \in Player : g[GoldRow(p)] = InitMoney[p]
            BY DEF GoldRow
        <3>2. db = g ++ o BY DEF Init, InitRows
        <3> HIDE DEF g, o
        <3>3. \A r \in DOMAIN g : db[r] = g[r] BY <3>2 DEF ++
        <3> QED BY <3>1, <3>3
    <2>3. \A p \in Player : Value(0, GoldRow(p)) = InitMoney[p] BY <2>2, ValueNow DEF Value
    <2>4. Gold(0) = InitMoney BY <2>3, StoreAssumption DEF Gold
    <2>5. Len(queue) = 0 /\ SumOn(Player, InitMoney) \in Int BY <2>1, GoldSums
    <2> QED BY <2>4, <2>5 DEF MoneyInv
<1>2. WindowInv /\ StoreInv /\ MoneyInv /\ [Next]_vars => MoneyInv' BY StepGold
<1>3. StoreInv /\ MoneyInv => NoMoneyCreated
    <2> SUFFICES ASSUME StoreInv, MoneyInv PROVE NoMoneyCreated OBVIOUS
    <2> DEFINE f == [p \in Player |-> db[GoldRow(p)]]
    <2>1. QueueInv BY DEF StoreInv
    <2>2. \A p \in Player : Value(0, GoldRow(p)) = db[GoldRow(p)] BY ValueNow DEF Value
    <2>3. f = Gold(0) BY <2>2 DEF Gold
    <2>4. 0 \in 0 .. Len(queue) BY <2>1, GoldSums
    <2>5. SumOn(Player, f) <= SumOn(Player, InitMoney) BY <2>3, <2>4 DEF MoneyInv
    <2>6. DOMAIN f = Player /\ DOMAIN InitMoney = Player BY StoreAssumption
    <2>7. Total(f) = SumOn(Player, f) /\ Total(InitMoney) = SumOn(Player, InitMoney)
        <3>1. Total(f) = SumOn(DOMAIN f, f) BY Zenon DEF Total, FoldFunction, SumOn
        <3>2. Total(InitMoney) = SumOn(DOMAIN InitMoney, InitMoney)
            BY Zenon DEF Total, FoldFunction, SumOn
        <3> QED BY <2>6, <3>1, <3>2
    <2> QED BY <2>5, <2>7 DEF NoMoneyCreated
<1> QED BY <1>1, <1>2, <1>3, WindowInvariant, StoreInvariant, PTL DEF Spec

-----------------------------------------------------------------------------
(***************************************************************************)
(* The bags.  CanStoreItems finds room for all items together before the   *)
(* first of them is moved; the maximum count it tests only for each item   *)
(* alone.  When the items together keep to it, every slot of moveItems     *)
(* succeeds; without items of a maximum count what the players hold        *)
(* therefore fits into their bags.                                         *)
(***************************************************************************)

\* The items of x in the slots before n.
Passed(x, n) == {GetItem(x, s) : s \in 0 .. n - 1} \ {NoItem}

\* One slot: when CanStoreItems has found room, the next item of y fits.
LEMMA SlotFits ==
    ASSUME NEW x \in Player, NEW y \in Player, x # y,
           inv \in [Player -> SUBSET Item], offer \in [Player -> Offers], OffersDistinct,
           CanStoreItems(x, TradedItems(y), TradedItems(x)), CountRespected(x, y),
           NEW n \in 0 .. TradedCount - 1, GetItem(y, n) # NoItem,
           NEW b, b = (inv[x] \ TradedItems(x)) \cup Passed(y, n)
    PROVE  CanStoreItem(x, b, GetItem(y, n))
<1> DEFINE i == GetItem(y, n)
           had == inv[x] \ TradedItems(x)
           got == TradedItems(y)
<1>0. TradedCount \in Nat /\ BagSize[x] \in Nat /\ IsFiniteSet(Item)
    BY TradeAssumption, StoreAssumption
<1>1. n \in Slot BY <1>0 DEF Slot
<1>2. /\ \A s \in Slot : GetItem(y, s) \in inv[y] \cup {NoItem}
      /\ \A s \in 0 .. TradedCount - 1 : GetItem(y, s) \in TradedItems(y) \cup {NoItem}
      /\ \A s, t \in Slot : s # t /\ GetItem(y, s) = GetItem(y, t) => GetItem(y, s) = NoItem
    BY OfferedItems
<1>3. got \subseteq Item /\ had \subseteq Item
    BY <1>2 DEF TradedItems
<1>4. i \in got BY <1>2
<1>5. Passed(y, n) \subseteq got \ {i}
    <2> SUFFICES ASSUME NEW s \in 0 .. n - 1, GetItem(y, s) # NoItem
                 PROVE  GetItem(y, s) \in got /\ GetItem(y, s) # i
        BY DEF Passed
    <2>1. s \in 0 .. TradedCount - 1 /\ s \in Slot /\ s # n BY <1>0 DEF Slot
    <2> QED BY <1>1, <1>2, <2>1
<1> HIDE DEF i, got, had
<1>6. IsFiniteSet(got) /\ IsFiniteSet(had) /\ IsFiniteSet(got \ {i})
    BY <1>0, <1>3, FS_Subset
<1>7. /\ Cardinality(got) \in Nat /\ Cardinality(had) \in Nat
      /\ Cardinality(got \ {i}) = Cardinality(got) - 1
    BY <1>4, <1>6, FS_CardinalityType, FS_RemoveElement
<1>8. b \in SUBSET (had \cup (got \ {i})) BY <1>5 DEF had
<1>9. /\ IsFiniteSet(had \cup (got \ {i}))
      /\ Cardinality(had \cup (got \ {i})) \in Nat
      /\ Cardinality(had \cup (got \ {i})) <= Cardinality(had) + Cardinality(got \ {i})
    <2>1. /\ IsFiniteSet(had \cup (got \ {i}))
          /\ Cardinality(had \cup (got \ {i})) =
                Cardinality(had) + Cardinality(got \ {i}) - Cardinality(had \cap (got \ {i}))
        BY <1>6, FS_Union
    <2>2. Cardinality(had \cap (got \ {i})) \in Nat
        BY <1>6, FS_Intersection, FS_CardinalityType
    <2>3. Cardinality(had \cup (got \ {i})) \in Nat BY <2>1, FS_CardinalityType
    <2> QED BY <1>7, <2>1, <2>2, <2>3
<1>10. Cardinality(b) \in Nat /\ Cardinality(b) <= Cardinality(had \cup (got \ {i}))
    BY <1>8, <1>9, FS_Subset, FS_CardinalityType
<1>11. Cardinality(had) + Cardinality(got) <= BagSize[x] BY DEF CanStoreItems, had, got
<1>12. Cardinality(b) < BagSize[x] BY <1>0, <1>7, <1>9, <1>10, <1>11
<1>13. CanTakeMoreSimilarItems(i, b)
    <2>1. SUFFICES ASSUME i \in Limited PROVE Cardinality((b \ {i}) \cap Limited) + 1 <= Limit
        BY DEF CanTakeMoreSimilarItems
    <2> DEFINE all == Exchanged(x, y) \cap Limited
               other == (b \ {i}) \cap Limited
    <2>2. Cardinality(all) <= Limit BY <1>4, <2>1 DEF CountRespected, got
    <2>3. all = (had \cup got) \cap Limited BY DEF Exchanged, had, got
    <2>4. all \in SUBSET Item /\ i \in all BY <1>3, <1>4, <2>1, <2>3
    <2>5. other \in SUBSET (all \ {i}) BY <1>8, <2>3
    <2> HIDE DEF all, other
    <2>6. /\ IsFiniteSet(all) /\ IsFiniteSet(all \ {i}) /\ Cardinality(all) \in Nat
          /\ Cardinality(all \ {i}) = Cardinality(all) - 1
        BY <1>0, <2>4, FS_Subset, FS_CardinalityType, FS_RemoveElement
    <2>7. Cardinality(other) \in Nat /\ Cardinality(other) <= Cardinality(all \ {i})
        BY <2>5, <2>6, FS_Subset, FS_CardinalityType
    <2>8. Limit \in Nat BY StoreAssumption
    <2>9. Cardinality(other) + 1 <= Limit BY <2>2, <2>6, <2>7, <2>8
    <2> QED BY <2>9 DEF other
<1> QED BY <1>12, <1>13 DEF CanStoreItem, i

\* moveItems moves all items when they keep to the maximum count together.
LEMMA MoveItemsWhole ==
    ASSUME NEW p \in Player, NEW q \in Player, p # q,
           inv \in [Player -> SUBSET Item], offer \in [Player -> Offers], OffersDistinct,
           CanStoreItems(q, TradedItems(p), TradedItems(q)),
           CanStoreItems(p, TradedItems(q), TradedItems(p)),
           CountRespected(p, q), CountRespected(q, p)
    PROVE  MoveItems(p, q)[p] = Exchanged(p, q) /\ MoveItems(p, q)[q] = Exchanged(q, p)
<1>1. TradedCount \in Nat /\ NoItem \notin Item BY TradeAssumption
<1>2. PICK f : /\ MoveItems(p, q) = f[TradedCount]
               /\ f[0] = [x \in {p, q} |-> inv[x] \ TradedItems(x)]
               /\ \A n \in 1 .. TradedCount :
                     f[n] = MoveSlot(f[n - 1], p, q, GetItem(p, n - 1), GetItem(q, n - 1))
    BY MoveItemsHistory
<1> DEFINE Half(x, y, n) == (inv[x] \ TradedItems(x)) \cup Passed(y, n)
           P == {n \in Nat : n <= TradedCount => f[n][p] = Half(p, q, n) /\ f[n][q] = Half(q, p, n)}
<1>3. 0 \in P
    <2>1. Passed(p, 0) = {} /\ Passed(q, 0) = {} BY DEF Passed
    <2>2. f[0][p] = inv[p] \ TradedItems(p) /\ f[0][q] = inv[q] \ TradedItems(q) BY <1>2
    <2> QED BY <2>1, <2>2
<1>4. ASSUME NEW n \in Nat, n \in P PROVE n + 1 \in P
    <2>1. SUFFICES ASSUME n + 1 <= TradedCount
                   PROVE  f[n + 1][p] = Half(p, q, n + 1) /\ f[n + 1][q] = Half(q, p, n + 1)
        OBVIOUS
    <2> DEFINE mine == GetItem(p, n)
               his == GetItem(q, n)
               b == f[n]
               c == f[n + 1]
               Fits(x, i) == i = NoItem \/ CanStoreItem(x, b[x], i)
               With(x, i) == (b[x] \cup {i}) \ {NoItem}
               Taken(x, i) == IF i # NoItem /\ Fits(x, i) THEN 1 ELSE 0
               Back(x, own, other) ==
                   IF Fits(x, own) /\ Cardinality(b[x]) + Taken(x, other) < BagSize[x]
                   THEN With(x, own) ELSE b[x]
    <2>2. b[p] = Half(p, q, n) /\ b[q] = Half(q, p, n) BY <1>1, <1>4, <2>1
    <2>3. n \in 0 .. TradedCount - 1 BY <1>1, <2>1
    <2>4. c = MoveSlot(b, p, q, mine, his)
        <3>1. n + 1 \in 1 .. TradedCount /\ (n + 1) - 1 = n BY <1>1, <2>1
        <3>2. f[n + 1] = MoveSlot(f[(n + 1) - 1], p, q, GetItem(p, (n + 1) - 1), GetItem(q, (n + 1) - 1))
            BY <1>2, <3>1, Zenon
        <3> QED BY <3>1, <3>2
    <2>5. c = IF Fits(q, mine) /\ Fits(p, his)
              THEN [x \in {p, q} |-> With(x, IF x = p THEN his ELSE mine)]
              ELSE [x \in {p, q} |-> IF x = p THEN Back(p, mine, his) ELSE Back(q, his, mine)]
        BY <2>4, Zenon DEF MoveSlot
    <2>7. Fits(q, mine)
        <3>1. CASE mine = NoItem BY <3>1
        <3>2. CASE mine # NoItem
            <4>1. CanStoreItem(q, b[q], GetItem(p, n)) BY <2>2, <2>3, <3>2, SlotFits
            <4> QED BY <4>1
        <3> QED BY <3>1, <3>2
    <2>8. Fits(p, his)
        <3>1. CASE his = NoItem BY <3>1
        <3>2. CASE his # NoItem
            <4>1. CanStoreItem(p, b[p], GetItem(q, n)) BY <2>2, <2>3, <3>2, SlotFits
            <4> QED BY <4>1
        <3> QED BY <3>1, <3>2
    <2> HIDE DEF Fits, Back, Taken
    <2>9. c[p] = With(p, his) /\ c[q] = With(q, mine) BY <2>5, <2>7, <2>8
    <2>10. Passed(p, n + 1) = (Passed(p, n) \cup {mine}) \ {NoItem}
        <3>1. 0 .. (n + 1) - 1 = (0 .. n - 1) \cup {n} OBVIOUS
        <3> QED BY <3>1 DEF Passed
    <2>11. Passed(q, n + 1) = (Passed(q, n) \cup {his}) \ {NoItem}
        <3>1. 0 .. (n + 1) - 1 = (0 .. n - 1) \cup {n} OBVIOUS
        <3> QED BY <3>1 DEF Passed
    <2>12. NoItem \notin inv[p] /\ NoItem \notin inv[q] BY <1>1
    <2> QED BY <2>2, <2>9, <2>10, <2>11, <2>12
<1> HIDE DEF P
<1>5. TradedCount \in P BY <1>1, <1>3, <1>4, SetInduction
<1>6. \A x \in Player : Passed(x, TradedCount) = TradedItems(x)
    <2>1. 0 .. TradedCount - 1 = Slot \ {NonTraded} BY <1>1 DEF Slot, NonTraded
    <2> QED BY <2>1 DEF Passed, TradedItems
<1> QED BY <1>1, <1>2, <1>5, <1>6 DEF P, Exchanged

\* A trade of items that keep to the maximum count is executed as a whole.
LEMMA CompleteWhole ==
    ASSUME WindowInv, StoreInv, NEW p \in Player, HandleAcceptComplete(p),
           CountRespected(p, partner[p]), CountRespected(partner[p], p)
    PROVE  /\ inv'[p] = Exchanged(p, partner[p])
           /\ inv'[partner[p]] = Exchanged(partner[p], p)
           /\ \A x \in Player \ {p, partner[p]} : inv'[x] = inv[x]
<1> DEFINE q == partner[p]
           bags == MoveItems(p, q)
<1>1. /\ Trading(p) /\ inv' = [x \in Player |-> IF x \in {p, q} THEN bags[x] ELSE inv[x]]
      /\ CanStoreItems(q, TradedItems(p), TradedItems(q))
      /\ CanStoreItems(p, TradedItems(q), TradedItems(p))
    BY DEF HandleAcceptComplete
<1>2. q \in Player /\ p # q
    BY <1>1, StoreAssumption DEF WindowInv, WindowType, TradePaired, Trading
<1>3. inv \in [Player -> SUBSET Item] /\ offer \in [Player -> Offers] /\ OffersDistinct
    BY DEF StoreInv, HoldTypes
<1>4. bags[p] = Exchanged(p, q) /\ bags[q] = Exchanged(q, p)
    BY <1>1, <1>2, <1>3, MoveItemsWhole
<1> HIDE DEF bags
<1> QED BY <1>1, <1>2, <1>4

\* With one worker thread every trade whose items keep to the maximum count together
\* is executed as a whole, for any number of slots: moveItems, slot after slot, stores
\* what CanStoreItems found room for, and nothing else moves.
THEOREM TradesWhole ==
    ASSUME Workers = 1 PROVE Spec => TradedWhole
<1>1. ASSUME WindowInv, StoreInv, NEW p \in Player
      PROVE  LET q == partner[p]
             IN  HandleAcceptComplete(p) /\ CountRespected(p, q) /\ CountRespected(q, p) =>
                    inv'[p] = Exchanged(p, q) /\ inv'[q] = Exchanged(q, p)
    BY <1>1, CompleteWhole
<1>2. WindowInv /\ StoreInv /\ [Next]_vars =>
        [\A p \in Player :
            LET q == partner[p]
            IN  HandleAcceptComplete(p) /\ CountRespected(p, q) /\ CountRespected(q, p) =>
                    inv'[p] = Exchanged(p, q) /\ inv'[q] = Exchanged(q, p)]_vars
    BY <1>1, Zenon
<1> QED BY <1>2, WindowInvariant, StoreInvariant, PTL DEF Spec, TradedWhole

-----------------------------------------------------------------------------
\* The items that the rows give p at a moment of the history, and in the end.
Owned(n, p) == {i \in Item : Value(n, ItemRow(i)) = p}
LastOwned(p) == {i \in Item : Latest(ItemRow(i)) = p}
OwnedAfter(rows, p) ==
    {i \in Item : (IF ItemRow(i) \in DOMAIN rows THEN rows[ItemRow(i)] ELSE Latest(ItemRow(i))) = p}

\* The rows of a player fit into his bags at every moment, so also after a crash.
RoomInv ==
    \A n \in 0 .. Len(queue) : \A p \in Player : Cardinality(Owned(n, p)) <= BagSize[p]

\* A player in the world holds all that the rows give him in the end.
HeldInv == \A p \in online : LastOwned(p) \subseteq inv[p]

\* The last moment of the history is the end.
LEMMA LastRoom ==
    ASSUME QueueInv, RoomInv, NEW p \in Player
    PROVE  /\ LastOwned(p) \subseteq Item /\ IsFiniteSet(LastOwned(p))
           /\ Cardinality(LastOwned(p)) \in Nat /\ Cardinality(LastOwned(p)) <= BagSize[p]
           /\ BagSize[p] \in Nat /\ IsFiniteSet(Item)
<1>1. IsFiniteSet(Item) /\ BagSize[p] \in Nat BY StoreAssumption
<1>2. LastOwned(p) \in SUBSET Item BY DEF LastOwned
<1>3. IsFiniteSet(LastOwned(p)) /\ Cardinality(LastOwned(p)) \in Nat
    BY <1>1, <1>2, FS_Subset, FS_CardinalityType
<1>4. queue \in Seq(Entries) /\ Len(queue) \in 0 .. Len(queue) BY GoldSums
<1>5. \A i \in Item : Latest(ItemRow(i)) = Value(Len(queue), ItemRow(i)) BY <1>4, LatestIsLast
<1>6. LastOwned(p) = Owned(Len(queue), p) BY <1>5 DEF LastOwned, Owned
<1> QED BY <1>1, <1>2, <1>3, <1>4, <1>6 DEF RoomInv

\* An entry after which the rows still fit.
LEMMA AppendRoom ==
    ASSUME QueueInv, RoomInv, NEW e \in Entries, queue' = Append(queue, e), db' = db,
           \A p \in Player : Cardinality(OwnedAfter(e.rows, p)) <= BagSize[p]
    PROVE  RoomInv'
<1>1. /\ \A r : \A n \in 0 .. Len(queue) : Value(n, r)' = Value(n, r)
      /\ \A r : Latest(r)' = IF r \in DOMAIN e.rows THEN e.rows[r] ELSE Latest(r)
      /\ \A r : \A n : n = Len(queue) + 1 => Value(n, r)' = Latest(r)'
      /\ Len(queue') = Len(queue) + 1 /\ Len(queue) \in Nat
    BY GoldSums, AppendValues
<1>2. ASSUME NEW n \in 0 .. Len(queue) + 1, NEW p \in Player
      PROVE  Cardinality({i \in Item : Value(n, ItemRow(i))' = p}) <= BagSize[p]
    <2>1. CASE n \in 0 .. Len(queue)
        <3>1. {i \in Item : Value(n, ItemRow(i))' = p} = Owned(n, p) BY <1>1, <2>1 DEF Owned
        <3> QED BY <2>1, <3>1 DEF RoomInv
    <2>2. CASE n = Len(queue) + 1
        <3>1. \A i \in Item : Value(n, ItemRow(i))' =
                IF ItemRow(i) \in DOMAIN e.rows THEN e.rows[ItemRow(i)] ELSE Latest(ItemRow(i))
            BY <1>1, <2>2
        <3>2. {i \in Item : Value(n, ItemRow(i))' = p} = OwnedAfter(e.rows, p)
            BY <3>1 DEF OwnedAfter
        <3> QED BY <3>2
    <2> QED BY <1>1, <2>1, <2>2
<1> QED BY <1>1, <1>2 DEF RoomInv, Owned

\* A save that gives items away makes room.
LEMMA SaveRoom ==
    ASSUME WindowInv, StoreInv, RoomInv, HeldInv, NEW p \in online, NEW is \in SUBSET Item,
           Commit(SavedRows(p, is)), db' = db,
           \A x \in online' : x \in online /\ inv[x] \ is \subseteq inv'[x]
    PROVE  RoomInv' /\ HeldInv'
<1> DEFINE rows == SavedRows(p, is)
           e == [load |-> Nobody, rows |-> rows]
<1>1. p \in Player /\ QueueInv /\ money \in [Player -> Nat] /\ online \subseteq Player /\ Nobody \notin Player
    BY StoreAssumption DEF WindowInv, WindowType, StoreInv, HoldTypes
<1>2. /\ rows \in Transactions
      /\ \A i \in Item : ItemRow(i) \in DOMAIN rows <=> i \in is
      /\ \A i \in is : rows[ItemRow(i)] = Nobody
    BY <1>1, SaveRows
<1>3. Commit(rows) OBVIOUS
<1> HIDE DEF rows
<1>4. e \in Entries /\ e.rows = rows /\ queue' = Append(queue, e) /\ queue \in Seq(Entries)
    BY <1>1, <1>2, <1>3, GoldSums DEF Entries, Commit
<1> HIDE DEF e
<1>5. \A x \in Player : OwnedAfter(rows, x) = LastOwned(x) \ is
    BY <1>1, <1>2 DEF OwnedAfter, LastOwned
<1>6. ASSUME NEW x \in Player PROVE Cardinality(OwnedAfter(e.rows, x)) <= BagSize[x]
    <2>1. /\ IsFiniteSet(LastOwned(x)) /\ BagSize[x] \in Nat /\ Cardinality(LastOwned(x)) \in Nat
          /\ Cardinality(LastOwned(x)) <= BagSize[x]
        BY <1>1, LastRoom
    <2>2. OwnedAfter(e.rows, x) \in SUBSET LastOwned(x) BY <1>4, <1>5
    <2>3. Cardinality(OwnedAfter(e.rows, x)) <= Cardinality(LastOwned(x))
        /\ Cardinality(OwnedAfter(e.rows, x)) \in Nat
        BY <2>1, <2>2, FS_Subset, FS_CardinalityType
    <2> QED BY <2>1, <2>3
<1>7. RoomInv' BY <1>1, <1>4, <1>6, AppendRoom
<1>8. \A r : Latest(r)' = IF r \in DOMAIN rows THEN rows[r] ELSE Latest(r)
    BY <1>4, AppendValues
<1>9. HeldInv'
    <2> SUFFICES ASSUME NEW x \in online', NEW i \in Item, Latest(ItemRow(i))' = x
                 PROVE  i \in inv'[x]
        BY DEF HeldInv, LastOwned
    <2>1. x \in online /\ x \in Player /\ inv[x] \ is \subseteq inv'[x] BY <1>1
    <2>2. i \notin is /\ Latest(ItemRow(i)) = x BY <1>1, <1>2, <1>8, <2>1
    <2>3. i \in inv[x] BY <2>1, <2>2 DEF HeldInv, LastOwned
    <2> QED BY <2>1, <2>2, <2>3
<1> QED BY <1>7, <1>9

\* A trade for which there is room.
LEMMA CompleteRoom ==
    ASSUME Limited = {}, WindowInv, StoreInv, RoomInv, HeldInv,
           NEW p \in Player, HandleAcceptComplete(p)
    PROVE  RoomInv' /\ HeldInv'
<1> DEFINE q == partner[p]
           bags == MoveItems(p, q)
           m == [money EXCEPT
                    ![p] = Received(Paid(@, offer[p].gold), offer[q].gold),
                    ![q] = Received(Paid(@, offer[q].gold), offer[p].gold)]
           rows == TradeRows(p, q, bags, m)
           e == [load |-> Nobody, rows |-> rows]
<1>1. /\ Trading(p) /\ Commit(rows) /\ db' = db /\ online' = online
      /\ inv' = [x \in Player |-> IF x \in {p, q} THEN bags[x] ELSE inv[x]]
      /\ CanStoreItems(q, TradedItems(p), TradedItems(q))
      /\ CanStoreItems(p, TradedItems(q), TradedItems(p))
    BY DEF HandleAcceptComplete
<1>2. /\ q \in Player /\ p # q /\ p \in online /\ q \in online
      /\ online \subseteq Player
    BY <1>1, StoreAssumption DEF WindowInv, WindowType, TradePaired, Trading
<1>3. /\ money \in [Player -> Nat] /\ inv \in [Player -> SUBSET Item] /\ offer \in [Player -> Offers]
      /\ OffersDistinct /\ QueueInv /\ ItemOnce
    BY BackedOnce DEF StoreInv, HoldTypes
<1>4. m \in [Player -> Nat]
    <2>1. offer[p].gold \in Nat /\ offer[q].gold \in Nat /\ money[p] \in Nat /\ money[q] \in Nat
        BY <1>2, <1>3 DEF Offers
    <2> QED BY <1>2, <1>3, <2>1, MoneyTypes
<1> HIDE DEF m
<1>5. bags \in Bags(p, q) /\ bags[p] \cap bags[q] = {}
    BY <1>2, <1>3, MoveItemsSorted DEF ItemOnce
<1>6. /\ inv'[p] = Exchanged(p, q) /\ inv'[q] = Exchanged(q, p)
      /\ \A x \in Player \ {p, q} : inv'[x] = inv[x]
    <2>1. CountRespected(p, q) /\ CountRespected(q, p) BY DEF CountRespected
    <2> QED BY <2>1, CompleteWhole DEF q
<1>7. bags[p] = Exchanged(p, q) /\ bags[q] = Exchanged(q, p) BY <1>1, <1>2, <1>6
<1> HIDE DEF bags, q
<1>8. /\ rows \in Transactions
      /\ \A i \in Item : ItemRow(i) \in DOMAIN rows <=>
                i \in (bags[p] \ inv[p]) \cup (bags[q] \ inv[q])
      /\ \A i \in bags[p] \ inv[p] : rows[ItemRow(i)] = p
      /\ \A i \in bags[q] \ inv[q] : rows[ItemRow(i)] = q
    BY <1>2, <1>4, <1>5, TradeRowsWritten
<1> HIDE DEF rows
<1>9. e \in Entries /\ e.rows = rows /\ queue' = Append(queue, e) /\ queue \in Seq(Entries)
    BY <1>1, <1>3, <1>8, GoldSums DEF Entries, Commit
<1> HIDE DEF e
<1>10. \A x \in online : LastOwned(x) = inv[x]
    BY <1>2, <1>3 DEF HeldInv, StoreInv, MemoryBacked, LastOwned
<1>11. /\ TradedItems(p) \subseteq inv[p] /\ TradedItems(q) \subseteq inv[q]
       /\ inv[p] \cap inv[q] = {} /\ inv[p] \subseteq Item /\ inv[q] \subseteq Item
    BY <1>2, <1>3 DEF TradedItems, GetItem, ItemOnce
<1>12. /\ bags[p] \ inv[p] = TradedItems(q) /\ bags[q] \ inv[q] = TradedItems(p)
    BY <1>7, <1>11 DEF Exchanged
<1>13. /\ OwnedAfter(rows, p) = Exchanged(p, q) /\ OwnedAfter(rows, q) = Exchanged(q, p)
    <2>1. \A i \in Item : Latest(ItemRow(i)) = p <=> i \in inv[p] BY <1>2, <1>10, <1>11 DEF LastOwned
    <2>2. \A i \in Item : Latest(ItemRow(i)) = q <=> i \in inv[q] BY <1>2, <1>10, <1>11 DEF LastOwned
    <2>3. OwnedAfter(rows, p) = Exchanged(p, q)
        BY <1>2, <1>8, <1>11, <1>12, <2>1 DEF OwnedAfter, Exchanged
    <2>4. OwnedAfter(rows, q) = Exchanged(q, p)
        BY <1>2, <1>8, <1>11, <1>12, <2>2 DEF OwnedAfter, Exchanged
    <2> QED BY <2>3, <2>4
<1>14. ASSUME NEW x \in Player \ {p, q} PROVE OwnedAfter(rows, x) = LastOwned(x)
    <2>1. \A i \in Item : ItemRow(i) \in DOMAIN rows =>
            rows[ItemRow(i)] \in {p, q} /\ Latest(ItemRow(i)) \in {p, q}
        <3> SUFFICES ASSUME NEW i \in Item, ItemRow(i) \in DOMAIN rows
                     PROVE  rows[ItemRow(i)] \in {p, q} /\ Latest(ItemRow(i)) \in {p, q}
            OBVIOUS
        <3>1. i \in TradedItems(p) \cup TradedItems(q) BY <1>8, <1>12
        <3>2. i \in LastOwned(p) \cup LastOwned(q) BY <1>2, <1>10, <1>11, <3>1
        <3> QED BY <1>8, <3>2 DEF LastOwned
    <2> QED BY <2>1 DEF OwnedAfter, LastOwned
<1>15. ASSUME NEW x \in {p, q}, NEW y \in {p, q}, CanStoreItems(x, TradedItems(y), TradedItems(x))
       PROVE  Cardinality(Exchanged(x, y)) <= BagSize[x]
    <2> DEFINE had == inv[x] \ TradedItems(x)
               got == TradedItems(y)
    <2>1. had \in SUBSET Item /\ got \in SUBSET Item /\ BagSize[x] \in Nat /\ IsFiniteSet(Item)
        BY <1>2, <1>11, StoreAssumption
    <2>2. Cardinality(had) + Cardinality(got) <= BagSize[x] BY <1>15 DEF CanStoreItems
    <2>3. Exchanged(x, y) = had \cup got BY DEF Exchanged
    <2> HIDE DEF had, got
    <2>4. IsFiniteSet(had) /\ IsFiniteSet(got) BY <2>1, FS_Subset
    <2>5. /\ IsFiniteSet(had \cup got)
          /\ Cardinality(had \cup got) =
                Cardinality(had) + Cardinality(got) - Cardinality(had \cap got)
        BY <2>4, FS_Union
    <2>6. Cardinality(had \cap got) \in Nat BY <2>4, FS_Intersection, FS_CardinalityType
    <2>7. Cardinality(had) \in Nat /\ Cardinality(got) \in Nat BY <2>4, FS_CardinalityType
    <2> QED BY <2>1, <2>2, <2>3, <2>5, <2>6, <2>7
<1>16. ASSUME NEW x \in Player PROVE Cardinality(OwnedAfter(e.rows, x)) <= BagSize[x]
    <2>1. CASE x = p BY <1>1, <1>9, <1>13, <1>15, <2>1
    <2>2. CASE x = q BY <1>1, <1>9, <1>13, <1>15, <2>2
    <2>3. CASE x \notin {p, q} BY <1>3, <1>9, <1>14, <2>3, LastRoom
    <2> QED BY <2>1, <2>2, <2>3
<1>17. RoomInv' BY <1>1, <1>3, <1>9, <1>16, AppendRoom
<1>18. \A r : Latest(r)' = IF r \in DOMAIN rows THEN rows[r] ELSE Latest(r)
    BY <1>1, <1>9, AppendValues
<1>19. HeldInv'
    <2> SUFFICES ASSUME NEW x \in online', NEW i \in Item, Latest(ItemRow(i))' = x
                 PROVE  i \in inv'[x]
        BY DEF HeldInv, LastOwned
    <2>1. x \in online /\ x \in Player BY <1>1, <1>2
    <2>2. i \in OwnedAfter(rows, x) BY <1>18 DEF OwnedAfter
    <2>3. CASE x \in {p, q} BY <1>6, <1>13, <2>2, <2>3
    <2>4. CASE x \notin {p, q} BY <1>6, <1>10, <1>14, <2>1, <2>2, <2>4
    <2> QED BY <2>3, <2>4
<1> QED BY <1>17, <1>19

\* A step that leaves rows, entries and inventories alone.
LEMMA SameRoom ==
    ASSUME RoomInv, HeldInv, UNCHANGED <<online, inv, db, queue>> PROVE RoomInv' /\ HeldInv'
<1>1. ASSUME NEW n, NEW r PROVE Value(n, r)' = Value(n, r)
    <2>1. Value(n, r)' = ValueIn(db', queue', n, r) BY ValuePrimed
    <2> QED BY <2>1 DEF Value
<1>2. \A r : Latest(r)' = Latest(r) BY LatestSame
<1> QED BY <1>1, <1>2 DEF RoomInv, Owned, HeldInv, LastOwned

\* The first entry takes effect.
LEMMA TakeRoom ==
    ASSUME QueueInv, RoomInv, Finish(1),
           \/ db' = queue[1].rows ++ db
           \/ db' = db /\ DOMAIN queue[1].rows = {}
    PROVE  RoomInv' /\ \A i \in Item : Latest(ItemRow(i))' = Latest(ItemRow(i))
<1>1. queue \in Seq(Entries) /\ Len(queue) \in Nat /\ DOMAIN db = RowNames
    BY GoldSums DEF QueueInv, QueueTypes
<1>2. /\ \A r \in RowNames : \A n \in 0 .. Len(queue) - 1 : Value(n, r)' = Value(n + 1, r)
      /\ \A r \in RowNames : Latest(r)' = Latest(r)
      /\ queue # <<>> /\ queue' = Tail(queue)
    BY <1>1, TakeValues
<1>3. Len(queue') = Len(queue) - 1 BY <1>1, <1>2, HeadTailProperties
<1>4. ASSUME NEW n \in 0 .. Len(queue) - 1, NEW p \in Player
      PROVE  Cardinality({i \in Item : Value(n, ItemRow(i))' = p}) <= BagSize[p]
    <2>1. n + 1 \in 0 .. Len(queue) BY <1>1
    <2>2. {i \in Item : Value(n, ItemRow(i))' = p} = Owned(n + 1, p)
        BY <1>2, RowsDiffer DEF Owned
    <2> QED BY <2>1, <2>2 DEF RoomInv
<1>5. RoomInv' BY <1>3, <1>4 DEF RoomInv, Owned
<1> QED BY <1>2, <1>5, RowsDiffer

\* Every step keeps the room in the bags.
LEMMA StepRoom ==
    ASSUME Workers = 1, Limited = {}, WindowInv, StoreInv, RoomInv, HeldInv, [Next]_vars
    PROVE  RoomInv' /\ HeldInv'
<1>0. QueueInv /\ money \in [Player -> Nat] /\ inv \in [Player -> SUBSET Item] /\ online \subseteq Player
    BY DEF StoreInv, HoldTypes, WindowInv, WindowType
<1>1. CASE UNCHANGED vars BY <1>1, SameRoom DEF vars
<1>2. ASSUME NEW p \in Player, WindowStep(p) PROVE RoomInv' /\ HeldInv'
    <2>1. CASE HandleAcceptComplete(p) BY <2>1, CompleteRoom
    <2>2. CASE UNCHANGED storeVars BY <2>2, SameRoom DEF storeVars
    <2> QED BY <1>2, <2>1, <2>2
            DEF WindowStep, HandleInitiateTrade, HandleSetTradeGold, HandleSetTradeItem,
                HandleClearTradeItem, CastTradeSpell, HandleUnacceptTrade, HandleCancelTrade,
                HandleAcceptRefused
<1>3. ASSUME NEW p \in Player, NEW i \in Item, HandleSendMail(p, i) PROVE RoomInv' /\ HeldInv'
    <2> DEFINE is == {i}
    <2>1. /\ p \in online /\ is \in SUBSET Item /\ db' = db /\ online' = online
          /\ Commit(GoldRows({p}, money) ++ Write(ItemRow(i), Nobody))
          /\ \A x \in online : inv[x] \ is \subseteq inv'[x]
        BY <1>0, <1>3 DEF HandleSendMail
    <2>2. Write(ItemRow(i), Nobody) = ItemRows(is, Nobody)
        <3>1. {ItemRow(j) : j \in is} = {ItemRow(i)} OBVIOUS
        <3> QED BY <3>1 DEF Write, ItemRows
    <2> HIDE DEF is
    <2>3. Commit(SavedRows(p, is)) BY <2>1, <2>2 DEF SavedRows
    <2> QED BY <2>1, <2>3, SaveRoom
<1>4. ASSUME NEW p \in Player, Logout(p) PROVE RoomInv' /\ HeldInv'
    <2> DEFINE is == {}
    <2>1. /\ p \in online /\ db' = db /\ Commit(GoldRows({p}, money) ++ [r \in {} |-> r])
          /\ \A x \in online' : x \in online /\ inv[x] \ is \subseteq inv'[x]
        BY <1>0, <1>4 DEF Logout, LogoutPlayer
    <2>2. [r \in {} |-> r] = ItemRows(is, Nobody)
        <3>1. {ItemRow(j) : j \in is} = {} OBVIOUS
        <3> QED BY <3>1 DEF ItemRows
    <2>3. is \in SUBSET Item OBVIOUS
    <2> HIDE DEF is
    <2>4. Commit(SavedRows(p, is)) BY <2>1, <2>2 DEF SavedRows
    <2> QED BY <2>1, <2>3, <2>4, SaveRoom
<1>5. ASSUME NEW p \in Player, LoginPlayer(p) PROVE RoomInv' /\ HeldInv'
    <2> DEFINE e == Query(p)
    <2>1. e \in Entries /\ queue' = Append(queue, e) /\ UNCHANGED <<db, online, inv>>
        <3>1. e.rows \in Transactions BY TransactionType DEF Query
        <3> QED BY <1>5, <3>1 DEF Entries, LoginPlayer, Query
    <2>2. DOMAIN e.rows = {} BY DEF Query
    <2> HIDE DEF e
    <2>3. \A x \in Player : OwnedAfter(e.rows, x) = LastOwned(x)
        BY <2>2 DEF OwnedAfter, LastOwned
    <2>4. RoomInv' BY <1>0, <2>1, <2>3, LastRoom, AppendRoom
    <2>5. \A r : Latest(r)' = Latest(r) BY <1>0, <1>5, QueryKeeps
    <2> QED BY <2>1, <2>4, <2>5 DEF HeldInv, LastOwned
<1>6. ASSUME NEW p \in Player, NEW k \in 1 .. MaxQueue, LoadFromDB(p, k) PROVE RoomInv' /\ HeldInv'
    <2>1. k = 1 /\ 1 \in DOMAIN queue BY <1>6 DEF LoadFromDB, Finish
    <2>2. /\ Finish(1) /\ queue[1].load = p /\ db' = db /\ p # Nobody /\ online' = online \cup {p}
          /\ inv' = [inv EXCEPT ![p] = {i \in Item : db[ItemRow(i)] = p}]
        BY <1>6, <2>1, StoreAssumption DEF LoadFromDB
    <2>3. DOMAIN queue[1].rows = {} BY <1>0, <2>1, <2>2 DEF QueueInv, QueriesApart
    <2>4. RoomInv' /\ \A i \in Item : Latest(ItemRow(i))' = Latest(ItemRow(i))
        BY <1>0, <2>2, <2>3, TakeRoom
    <2>5. \A r : Value(1, r) = db[r]
        <3> SUFFICES ASSUME NEW r PROVE Value(1, r) = db[r] OBVIOUS
        <3>1. ValueIn(db, queue, 0 + 1, r) =
                IF r \in DOMAIN queue[0 + 1].rows THEN queue[0 + 1].rows[r]
                ELSE ValueIn(db, queue, 0, r)
            <4>1. 0 \in Nat OBVIOUS
            <4> QED BY <4>1, ValueNext, Zenon
        <3>2. ValueIn(db, queue, 0, r) = db[r] BY ValueNow
        <3> QED BY <2>3, <3>1, <3>2 DEF Value
    <2>6. \A i \in Item : db[ItemRow(i)] = p <=> Latest(ItemRow(i)) = p
        BY <1>0, <2>1, <2>2, <2>5 DEF QueueInv, QueriesCurrent
    <2>7. HeldInv'
        <3> SUFFICES ASSUME NEW x \in online', NEW i \in Item, Latest(ItemRow(i))' = x
                     PROVE  i \in inv'[x]
            BY DEF HeldInv, LastOwned
        <3>1. Latest(ItemRow(i)) = x BY <2>4
        <3>2. CASE x = p BY <1>0, <2>2, <2>6, <3>1, <3>2
        <3>3. CASE x # p BY <1>0, <2>2, <3>1, <3>3 DEF HeldInv, LastOwned
        <3> QED BY <3>2, <3>3
    <2> QED BY <2>4, <2>7
<1>7. ASSUME NEW k \in 1 .. MaxQueue, Execute(k) PROVE RoomInv' /\ HeldInv'
    <2>1. k = 1 BY <1>7 DEF Execute, Finish
    <2>2. Finish(1) /\ db' = queue[1].rows ++ db /\ UNCHANGED <<online, inv>>
        BY <1>7, <2>1 DEF Execute
    <2>3. RoomInv' /\ \A i \in Item : Latest(ItemRow(i))' = Latest(ItemRow(i))
        BY <1>0, <2>2, TakeRoom
    <2> QED BY <2>2, <2>3 DEF HeldInv, LastOwned
<1>8. CASE ServerCrash
    <2>1. queue' = <<>> /\ db' = db /\ online' = {} BY <1>8 DEF ServerCrash, Crash
    <2>2. ASSUME NEW r PROVE Value(0, r)' = Value(0, r)
        <3>1. Value(0, r)' = ValueIn(db', queue', 0, r) BY ValuePrimed
        <3>2. ValueIn(db', queue', 0, r) = db[r] BY <2>1, ValueNow
        <3>3. ValueIn(db, queue, 0, r) = db[r] BY ValueNow
        <3> QED BY <3>1, <3>2, <3>3 DEF Value
    <2>3. Len(queue') = 0 /\ 0 \in 0 .. Len(queue) BY <1>0, <2>1, GoldSums
    <2>4. \A p \in Player : {i \in Item : Value(0, ItemRow(i))' = p} = Owned(0, p) BY <2>2 DEF Owned
    <2>5. \A p \in Player : Cardinality({i \in Item : Value(0, ItemRow(i))' = p}) <= BagSize[p]
        BY <2>3, <2>4 DEF RoomInv
    <2>6. \A n \in 0 .. 0 : n = 0 OBVIOUS
    <2>7. RoomInv' BY <2>3, <2>5, <2>6 DEF RoomInv, Owned
    <2> QED BY <2>1, <2>7 DEF HeldInv
<1>9. ASSUME NEW p \in Player, PlayerStep(p) PROVE RoomInv' /\ HeldInv'
    <2>1. ASSUME NEW i \in BindOnUse, HandleUseItem(p, i) PROVE RoomInv' /\ HeldInv'
        BY <2>1, SameRoom DEF HandleUseItem, storeVars
    <2>2. ASSUME NEW g \in 1 .. MaxMoney, Spend(p, g) PROVE RoomInv' /\ HeldInv'
        BY <2>2, SameRoom DEF Spend
    <2> QED BY <1>3, <1>4, <1>5, <1>6, <1>9, <2>1, <2>2 DEF PlayerStep
<1> QED BY <1>1, <1>2, <1>7, <1>8, <1>9 DEF Next

\* Bags that hold what they can at the start never hold more, through trades,
\* mails, logouts, logins from the tables and crashes, when no item has a maximum
\* count.  (With one, a trade may lose an item from memory whose row stays, so
\* that a later login finds more than the bags hold.)
THEOREM BagsAlwaysRespected ==
    ASSUME Workers = 1, Limited = {},
           \A p \in Player : Cardinality({i \in Item : InitOwner[i] = p}) <= BagSize[p]
    PROVE  Spec => []BagsRespected
<1>1. Init => RoomInv /\ HeldInv
    <2> SUFFICES ASSUME Init PROVE RoomInv /\ HeldInv OBVIOUS
    <2>1. /\ queue = <<>> /\ QueueInv /\ db = InitRows
          /\ inv = [p \in Player |-> {i \in Item : InitOwner[i] = p}]
          /\ online = Player
        BY InitStores DEF Init, StoreInit, StoreInv
    <2>2. \A i \in Item : db[ItemRow(i)] = InitOwner[i]
        <3> DEFINE g == [r \in {GoldRow(p) : p \in Player} |-> InitMoney[r[2]]]
                   o == [r \in {ItemRow(i) : i \in Item} |-> InitOwner[r[2]]]
        <3>1. /\ DOMAIN g = {GoldRow(p) : p \in Player}
              /\ DOMAIN o = {ItemRow(i) : i \in Item} /\ \A i \in Item : o[ItemRow(i)] = InitOwner[i]
            BY DEF GoldRow, ItemRow
        <3>2. db = g ++ o BY <2>1 DEF InitRows
        <3> HIDE DEF g, o
        <3>3. \A r \in DOMAIN o \ DOMAIN g : db[r] = o[r] BY <3>2 DEF ++
        <3> QED BY <3>1, <3>3, RowsDiffer
    <2>3. \A i \in Item : Value(0, ItemRow(i)) = InitOwner[i] BY <2>2, ValueNow DEF Value
    <2>4. \A p \in Player : Owned(0, p) = {i \in Item : InitOwner[i] = p} BY <2>3 DEF Owned
    <2>5. Len(queue) = 0 BY <2>1
    <2>6. RoomInv BY <2>4, <2>5 DEF RoomInv
    <2>7. \A r : Latest(r) = db[r] BY <2>1 DEF Latest
    <2> QED BY <2>1, <2>2, <2>6, <2>7 DEF HeldInv, LastOwned
<1>2. WindowInv /\ StoreInv /\ RoomInv /\ HeldInv /\ [Next]_vars => RoomInv' /\ HeldInv'
    BY StepRoom
<1>3. WindowInv /\ StoreInv /\ RoomInv => BagsRespected
    <2> SUFFICES ASSUME WindowInv, StoreInv, RoomInv, NEW p \in Player
                 PROVE  /\ Cardinality(inv[p]) <= BagSize[p]
                        /\ Cardinality(inv[p] \cap Limited) <= Limit
        BY DEF BagsRespected
    <2>1. QueueInv /\ inv[p] \subseteq Item BY DEF StoreInv, HoldTypes
    <2>2. inv[p] \in SUBSET LastOwned(p)
        BY <2>1 DEF StoreInv, HoldTypes, MemoryBacked, LastOwned
    <2>3. /\ IsFiniteSet(LastOwned(p)) /\ Cardinality(LastOwned(p)) \in Nat
          /\ Cardinality(LastOwned(p)) <= BagSize[p] /\ BagSize[p] \in Nat
        BY <2>1, LastRoom
    <2>4. Cardinality(inv[p]) \in Nat /\ Cardinality(inv[p]) <= Cardinality(LastOwned(p))
        BY <2>2, <2>3, FS_Subset, FS_CardinalityType
    <2>5. Cardinality(inv[p] \cap Limited) = 0
        <3>1. inv[p] \cap Limited = {} OBVIOUS
        <3> QED BY <3>1, FS_EmptySet
    <2> QED BY <2>3, <2>4, <2>5, StoreAssumption
<1> QED BY <1>1, <1>2, <1>3, WindowInvariant, StoreInvariant, PTL DEF Spec

=============================================================================
