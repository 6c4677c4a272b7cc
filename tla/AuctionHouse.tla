---------------------------- MODULE AuctionHouse ----------------------------
(***************************************************************************)
(* The auction house: the auctions in memory (AuctionHouseObject), the     *)
(* items on sale (AuctionHouseMgr::mAitems), the table auctionhouse, the   *)
(* handlers that sell, bid, buy out and cancel, the update that closes     *)
(* expired auctions, and what a start of the server does with the table.   *)
(* Results are sent as mails, in the transaction that changes the auction. *)
(*                                                                         *)
(* An auction is named by its item.  The three houses are one.  Only whole *)
(* stacks are sold; the path that clones part of a stack is left out.  An  *)
(* auction may expire at any time after it is stored.                      *)
(***************************************************************************)
EXTENDS Mailbox

CONSTANTS
    NoAuction,
    Prices,           \* the sums that bidders name
    StartBids,        \* the sums that sellers ask at least
    Buyouts,          \* the sums they ask for an end at once; 0 is none
    Deposit,          \* GetAuctionDeposit; the code takes -int32 of it
    CutPct,           \* ConsignmentRate times the rate of the configuration
    LogTrade,         \* CONFIG_GM_LOG_TRADE
    ExpireWhileDown   \* whether an auction may expire while the server is down

\* An auction in memory, and its row of auctionhouse without the bid.
AuctionRecord ==
    [owner : Player, bidder : Player \cup {Nobody}, bid : Nat, startbid : StartBids,
     buyout : Buyouts, deposit : {Deposit}]
ListingRecord ==
    [owner : Player, startbid : StartBids, buyout : Buyouts, deposit : {Deposit}]

ASSUME AuctionAssumption ==
    /\ Prices \subseteq Nat \ {0} /\ StartBids \subseteq Nat \ {0}
    /\ Buyouts \subseteq Nat /\ Deposit \in 0 .. Half - 1 /\ CutPct \in 0 .. 100
    /\ LogTrade \in BOOLEAN /\ ExpireWhileDown \in BOOLEAN
    /\ NoAuction \notin AuctionRecord \cup ListingRecord

VARIABLES
    auction,   \* AuctionsMap: the auction of each item, or NoAuction
    aitems     \* mAitems

auctionVars == <<auction, aitems>>
vars == <<online, inv, money, db, queue, crashes, box, world, auction, aitems>>

-----------------------------------------------------------------------------
AuctionRow(i) == <<"auction", i>>
BidRow(i) == <<"auction_bid", i>>

OnSale(i) == auction[i] # NoAuction

GetAuctionCut(bid) == (bid * CutPct) \div 100
GetAuctionOutBid(bid) == IF (bid * 5) \div 100 > 0 THEN (bid * 5) \div 100 ELSE 1

Listing(i) == [owner |-> auction[i].owner, startbid |-> auction[i].startbid,
               buyout |-> auction[i].buyout, deposit |-> auction[i].deposit]

\* DeleteFromDB
AuctionGone(i) == Write(AuctionRow(i), NoAuction)

-----------------------------------------------------------------------------
(***************************************************************************)
(* The mails, as sequences of drafts.  a is the auction of item i.         *)
(***************************************************************************)

\* Mutant: the deposit is not given back.
SendAuctionSuccessfulMailNoDeposit(a) ==
    <<AuctionDraft(a.owner, a.bid - GetAuctionCut(a.bid), NoItem)>>

SendAuctionSuccessfulMail(a) ==
    <<AuctionDraft(a.owner, a.bid + a.deposit - GetAuctionCut(a.bid), NoItem)>>

\* The account of a bidder who is not in the world is only looked up for the
\* log of game masters; without it the mail is not sent.
SendAuctionWonMail(i, a) ==
    IF i \in aitems /\ (a.bidder \in online \/ LogTrade)
    THEN <<AuctionDraft(a.bidder, 0, i)>> ELSE <<>>

SendAuctionExpiredMail(i, a) ==
    IF i \in aitems THEN <<AuctionDraft(a.owner, 0, i)>> ELSE <<>>

\* Mutant: a bidder who is not in the world is forgotten.
SendAuctionOutbiddedMailOnline(a) ==
    IF a.bidder \in online THEN <<AuctionDraft(a.bidder, a.bid, NoItem)>> ELSE <<>>

SendAuctionOutbiddedMail(a) == <<AuctionDraft(a.bidder, a.bid, NoItem)>>

SendAuctionCancelledToBidderMail(a) == <<AuctionDraft(a.bidder, a.bid, NoItem)>>

-----------------------------------------------------------------------------
(***************************************************************************)
(* The handlers.                                                           *)
(***************************************************************************)

\* Mutant: the mails are sent and the memory is not cleared.
RemoveAuctionLater(i) == UNCHANGED auctionVars

RemoveAuction(i) ==
    /\ auction' = [auction EXCEPT ![i] = NoAuction]
    /\ aitems' = aitems \ {i}

HandleAuctionSellItem(p, i, startbid, buyout) ==
    LET gold == [money EXCEPT ![p] = Paid(@, Deposit)]
        a == [owner |-> p, bidder |-> Nobody, bid |-> 0, startbid |-> startbid,
              buyout |-> buyout, deposit |-> Deposit]
    IN  /\ Up /\ p \in online /\ i \in inv[p] \ aitems
        /\ money[p] >= Deposit
        /\ money' = gold
        /\ inv' = [inv EXCEPT ![p] = @ \ {i}]
        /\ auction' = [auction EXCEPT ![i] = a]
        /\ aitems' = aitems \cup {i}
        /\ Commit(GoldRows({p}, gold) ++ Write(ItemRow(i), Nobody)
                    ++ Write(AuctionRow(i), [owner |-> p, startbid |-> startbid,
                                             buyout |-> buyout, deposit |-> Deposit])
                    ++ Write(BidRow(i), [bidder |-> Nobody, bid |-> 0]))
        /\ UNCHANGED <<online, db, crashes, box, world>>

\* The conditions of HandleAuctionPlaceBid.
ValidBid(p, i, price) ==
    LET a == auction[i]
    IN  /\ Up /\ p \in online /\ OnSale(i) /\ a.owner # p
        /\ price > a.bid /\ price >= a.startbid
        /\ price < a.buyout \/ a.buyout = 0 => price >= a.bid + GetAuctionOutBid(a.bid)
        /\ money[p] >= price

\* What p pays: the bidder who raises his own bid pays the difference.
BidPaid(p, i, price) ==
    IF auction[i].bidder = p THEN price - auction[i].bid ELSE price

\* The mail to the bidder before p, if there is another.
Outbid(p, i) ==
    IF auction[i].bidder \in {Nobody, p} THEN <<>>
    ELSE SendAuctionOutbiddedMail(auction[i])

PlaceBid(p, i, price) ==
    LET a == auction[i]
        gold == [money EXCEPT ![p] = Paid(@, BidPaid(p, i, price))]
        ds == Outbid(p, i)
    IN  /\ ValidBid(p, i, price) /\ CanSend(ds)
        /\ price < a.buyout \/ a.buyout = 0
        /\ money' = gold
        /\ auction' = [auction EXCEPT ![i].bidder = p, ![i].bid = price]
        /\ box' = Deliver(box, ds)
        /\ Commit(GoldRows({p}, gold) ++ SendRows(ds)
                    ++ Write(BidRow(i), [bidder |-> p, bid |-> price]))
        /\ UNCHANGED <<online, inv, db, crashes, world, aitems>>

Buyout(p, i, price) ==
    LET a == auction[i]
        sold == [a EXCEPT !.bidder = p, !.bid = a.buyout]
        gold == [money EXCEPT ![p] = Paid(@, BidPaid(p, i, a.buyout))]
        ds == Outbid(p, i) \o SendAuctionSuccessfulMail(sold) \o SendAuctionWonMail(i, sold)
    IN  /\ ValidBid(p, i, price) /\ CanSend(ds)
        /\ price >= a.buyout /\ a.buyout # 0
        /\ money' = gold
        /\ RemoveAuction(i)
        /\ box' = Deliver(box, ds)
        /\ Commit(GoldRows({p}, gold) ++ SendRows(ds) ++ AuctionGone(i)
                    ++ Fee(GetAuctionCut(sold.bid)))
        /\ UNCHANGED <<online, inv, db, crashes, world>>

\* The cut that the owner pays when there is a bidder.
CancelCost(i) ==
    IF auction[i].bidder = Nobody THEN 0 ELSE GetAuctionCut(auction[i].bid)

HandleAuctionRemoveItem(p, i) ==
    LET a == auction[i]
        gold == [money EXCEPT ![p] = Paid(@, CancelCost(i))]
        ds == (IF a.bidder = Nobody THEN <<>> ELSE SendAuctionCancelledToBidderMail(a))
                \o <<AuctionDraft(p, 0, i)>>
    IN  /\ Up /\ p \in online /\ OnSale(i) /\ a.owner = p /\ i \in aitems
        /\ money[p] >= CancelCost(i)
        /\ CanSend(ds)
        /\ money' = gold
        /\ RemoveAuction(i)
        /\ box' = Deliver(box, ds)
        /\ Commit(GoldRows({p}, gold) ++ SendRows(ds) ++ AuctionGone(i)
                    ++ Fee(CancelCost(i) + a.deposit))
        /\ UNCHANGED <<online, inv, db, crashes, world>>

-----------------------------------------------------------------------------
(***************************************************************************)
(* Expired auctions.                                                       *)
(***************************************************************************)

ExpiryDrafts(i, a) ==
    IF a.bidder = Nobody THEN SendAuctionExpiredMail(i, a)
    ELSE SendAuctionSuccessfulMail(a) \o SendAuctionWonMail(i, a)

ExpiryFee(a) == IF a.bidder = Nobody THEN a.deposit ELSE GetAuctionCut(a.bid)

\* The row that the query finds belongs to an auction in memory.
StillOnSale(i) == db[AuctionRow(i)] # NoAuction /\ OnSale(i)

\* AuctionHouseObject::Update for one expired auction.
Update(i) ==
    LET ds == ExpiryDrafts(i, auction[i])
    IN  /\ Up /\ StillOnSale(i) /\ CanSend(ds)
        /\ RemoveAuction(i)
        /\ box' = Deliver(box, ds)
        /\ Commit(SendRows(ds) ++ AuctionGone(i) ++ Fee(ExpiryFee(auction[i])))
        /\ UNCHANGED <<online, inv, money, db, crashes, world>>

\* Mutant: the bid is not read.
StoredAuctionNoBid(i) ==
    LET a == db[AuctionRow(i)]
    IN  [owner |-> a.owner, bidder |-> Nobody, bid |-> 0,
         startbid |-> a.startbid, buyout |-> a.buyout, deposit |-> a.deposit]

\* AuctionEntry::LoadFromDB.
StoredAuction(i) ==
    LET a == db[AuctionRow(i)]
        b == db[BidRow(i)]
    IN  [owner |-> a.owner, bidder |-> b.bidder, bid |-> b.bid,
         startbid |-> a.startbid, buyout |-> a.buyout, deposit |-> a.deposit]

\* LoadFromFieldList reads 32 bits of each sum.  Of these sums the end of an auction
\* uses the bid and the deposit, which is smaller.
LoadFromFieldList(i) == [StoredAuction(i) EXCEPT !.bid = Uint32(@)]

\* DeleteExpiredAuctionsAtStartup.  aitems is still empty.  One auction at most
\* expires while the server is down.
DeleteExpiredAuctionsAtStartup(S) ==
    LET Closed(i) == LET auc == LoadFromFieldList(i)
                     IN  SendRows(ExpiryDrafts(i, auc)) ++ AuctionGone(i)
                            ++ Fee(ExpiryFee(auc))
    IN  /\ world = "down" /\ world' = "loading"
        /\ S \subseteq {i \in Item : ExpireWhileDown /\ db[AuctionRow(i)] # NoAuction}
        /\ Cardinality(S) <= 1
        /\ \A i \in S : CanSend(ExpiryDrafts(i, LoadFromFieldList(i)))
        /\ Len(queue) + Cardinality(S) <= MaxQueue
        /\ queue' = queue \o SetToSeq({Entry(Closed(i)) : i \in S})
        /\ UNCHANGED <<online, inv, money, db, crashes, box>>
        /\ UNCHANGED auctionVars

\* LoadAuctionItems and LoadAuctions read the tables at once, whether or not
\* the transactions before them are executed.  Then the world opens.
LoadAuctions ==
    /\ world = "loading" /\ world' = "up"
    /\ aitems' = {i \in Item : db[AuctionRow(i)] # NoAuction}
    /\ auction' = [i \in Item |-> IF db[AuctionRow(i)] # NoAuction
                                  THEN StoredAuction(i) ELSE NoAuction]
    /\ UNCHANGED <<online, inv, money, db, queue, crashes, box>>

ServerCrash ==
    /\ Crash
    /\ world' = "down"
    /\ box' = [p \in Player |-> NoRows]
    /\ auction' = [i \in Item |-> NoAuction]
    /\ aitems' = {}

-----------------------------------------------------------------------------
AuctionInitRows ==
    [r \in {AuctionRow(i) : i \in Item} |-> NoAuction]
        ++ [r \in {BidRow(i) : i \in Item} |-> [bidder |-> Nobody, bid |-> 0]]

Init ==
    /\ StoreInit /\ MailInit
    /\ db = InitRows ++ MailInitRows ++ AuctionInitRows
    /\ auction = [i \in Item |-> NoAuction]
    /\ aitems = {}

AuctionStep(p) ==
    \E i \in Item :
        \/ \E sb \in StartBids, bo \in Buyouts : HandleAuctionSellItem(p, i, sb, bo)
        \/ \E price \in Prices : PlaceBid(p, i, price) \/ Buyout(p, i, price)
        \/ HandleAuctionRemoveItem(p, i)

Next ==
    \/ \E p \in Player : AuctionStep(p) \/ (MailStep(p) /\ UNCHANGED auctionVars)
    \/ MailStoreStep /\ UNCHANGED auctionVars
    \/ \E i \in Item : Update(i)
    \/ \E S \in SUBSET Item : DeleteExpiredAuctionsAtStartup(S)
    \/ LoadAuctions
    \/ ServerCrash

Spec == Init /\ [][Next]_vars

-----------------------------------------------------------------------------
(***************************************************************************)
(* Properties.                                                             *)
(***************************************************************************)

MailRecord ==
    [address : AddressRecord,
     money : Nat, cod : Nat, item : Item \cup {NoItem}, deleted : BOOLEAN]

\* Every variable has its type, and a player who is not in the world holds
\* nothing in memory.
TypeOK ==
    /\ StoreTypeOK
    /\ world \in {"down", "loading", "up"} /\ (~Up => online = {})
    /\ aitems \subseteq Item
    /\ \A i \in Item : OnSale(i) => auction[i] \in AuctionRecord
    /\ \A p \in Player : \A m \in DOMAIN box[p] : box[p][m] \in MailRecord
    /\ \A p \in Player \ online : DOMAIN box[p] = {}

\* An item is in one inventory, one auction or one mail in memory at most,
\* whatever the order of sales, mails, logins, logouts and crashes.
ItemOnce ==
    \A i \in Item :
        Cardinality({p \in Player : i \in inv[p]})
        + Cardinality({pm \in Player \X MailId :
                pm[2] \in DOMAIN box[pm[1]] /\ box[pm[1]][pm[2]].item = i})
        + (IF OnSale(i) THEN 1 ELSE 0) <= 1

\* At any moment, so also after a crash, the tables hold every item in exactly
\* one place: an inventory, the auction house, a mail that exists; or its
\* holder has thrown it away with a mail.
ItemStored ==
    \A i \in Item :
        (IF db[ItemRow(i)] # Nobody THEN 1 ELSE 0)
        + (IF db[AuctionRow(i)] # NoAuction THEN 1 ELSE 0)
        + Cardinality({m \in MailId : db[MailRow(m)] /\ i \in StoredIn(m)})
        + (IF db[GivenUp(i)] THEN 1 ELSE 0) = 1

Total(f) == FoldFunctionOnSet(+, 0, f, DOMAIN f)

\* The money in the tables.
Stored ==
    Total([p \in Player |-> db[GoldRow(p)]])
    + Total([m \in {n \in MailId : db[MailRow(n)]} |-> db[MailMoney(m)]])
    + Total([i \in {j \in Item : db[AuctionRow(j)] # NoAuction} |->
                db[AuctionRow(i)].deposit + db[BidRow(i)].bid])
    + db[Fees]

\* At any moment the tables hold all the money there is: bids, deposits and
\* mails move it, a crash keeps the sum.  (With prices of mails below 2^31:
\* HandleMailTakeItem pays the taker of an item from there on.  And with nobody in
\* game-master mode, who may mail money that he does not have.)
MoneyConserved == Stored = Total(InitMoney)

\* What the memory shows is what the tables hold once the queue is empty.
MemoryBacked ==
    /\ \A p \in online :
        /\ money[p] = Latest(GoldRow(p))
        /\ \A i \in inv[p] : Latest(ItemRow(i)) = p
        /\ \A m \in DOMAIN box[p] :
            /\ Latest(MailRow(m)) /\ Latest(MailTo(m)).to = p
            /\ Latest(MailMoney(m)) = box[p][m].money
            /\ box[p][m].item # NoItem => Latest(MailItem(box[p][m].item)) = m
    /\ \A i \in aitems :
        /\ Latest(AuctionRow(i)) = Listing(i)
        /\ Latest(BidRow(i)) = [bidder |-> auction[i].bidder, bid |-> auction[i].bid]

\* After the step, some mail for p in the tables to come holds item i; some new
\* mail for p holds the sum g.
MailedItem(p, i) ==
    \E m \in MailId : /\ Latest(MailRow(m))' /\ Latest(MailTo(m))'.to = p
                      /\ Latest(MailItem(i))' = m
MailedMoney(p, g) ==
    \E m \in FreeIds : /\ Latest(MailRow(m))' /\ Latest(MailTo(m))'.to = p
                       /\ Latest(MailMoney(m))' = g

\* The bidder of an auction ends with the item, or with his money back in a new
\* mail when he is outbid or the auction is cancelled; the owner ends with the
\* item or with the price, his deposit and without the cut.
AuctionSettled ==
    [][\A i \in Item : OnSale(i) /\ crashes' = crashes =>
        LET a == auction[i]
            closed == auction'[i] = NoAuction
        IN  /\ a.bidder # Nobody /\ (closed \/ auction'[i].bidder # a.bidder) =>
                    MailedItem(a.bidder, i) \/ MailedMoney(a.bidder, a.bid)
            /\ closed =>
                \/ MailedItem(a.owner, i)
                \/ \E g \in {a.bid, a.buyout} :
                        MailedMoney(a.owner, g + a.deposit - GetAuctionCut(g))]_vars

=============================================================================
