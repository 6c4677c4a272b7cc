------------------------- MODULE AuctionHouse_proofs -------------------------
(***************************************************************************)
(* What AuctionHouse promises to its players, for one worker thread and    *)
(* any number of players, items, mails, transactions under way and, where  *)
(* a theorem does not exclude them, crashes.                               *)
(*                                                                         *)
(* AuctionsAlwaysSettled is an action property and follows from TypeInv    *)
(* and HouseInv of AuctionRows_proofs.  The others rest on LedgerInv,      *)
(* which describes the tables at every moment of their history, Tab(0) to  *)
(* Tab(Len(queue)): a crash makes one of them the present, so whatever     *)
(* must hold after a crash has to hold for each.  MoneyAlwaysConserved     *)
(* adds WealthInv, the money in each of these tables.                      *)
(***************************************************************************)
EXTENDS AuctionRows_proofs

\* f has all the rows of g.
Part(g, f) == DOMAIN g \subseteq DOMAIN f /\ \A r \in DOMAIN g : f[r] = g[r]

\* No item is in two of the drafts ds.
OneItem(ds) ==
    \A k, n \in DOMAIN ds : ds[k].item = ds[n].item /\ ds[n].item # NoItem => k = n

\* The rows of items in a transaction that sends the drafts ds.
LEMMA SentItems ==
    ASSUME NEW D, NEW ds \in Seq(D), CanSend(ds), OneItem(ds)
    PROVE  /\ \A n \in DOMAIN ds : ds[n].item # NoItem =>
                /\ {MailItem(ds[n].item), MailItemTo(ds[n].item)} \subseteq DOMAIN SendRows(ds)
                /\ SendRows(ds)[MailItem(ds[n].item)] = Ids(ds)[n]
                /\ SendRows(ds)[MailItemTo(ds[n].item)] = ds[n].to
           /\ \A i : {MailItem(i), MailItemTo(i)} \cap DOMAIN SendRows(ds) # {} =>
                \E n \in DOMAIN ds : ds[n].item = i /\ i # NoItem
           /\ \A r \in DOMAIN SendRows(ds) :
                r[1] \in {"mail", "mail_to", "mail_money", "mail_cod", "mail_item", "mail_item_to"}
<1> DEFINE S == SendRows(ds)
<1>1. /\ DOMAIN S = UNION {DOMAIN NthRows(ds, n) : n \in DOMAIN ds}
      /\ \A r \in DOMAIN S :
            \E n \in DOMAIN ds : r \in DOMAIN NthRows(ds, n) /\ S[r] = NthRows(ds, n)[r]
    BY SendRowsFacts
<1> HIDE DEF S
<1>2. ASSUME NEW n \in DOMAIN ds, NEW r \in DOMAIN NthRows(ds, n)
      PROVE  \/ r \in MailKeys(Ids(ds)[n])
             \/ ds[n].item # NoItem /\ r \in {MailItem(ds[n].item), MailItemTo(ds[n].item)}
    <2>1. PICK d, m : d = ds[n] /\ m = Ids(ds)[n] OBVIOUS
    <2>2. DOMAIN NthRows(ds, n) = DOMAIN DraftRows(d, m) BY <2>1 DEF NthRows
    <2>3. DOMAIN DraftRows(d, m) = MailKeys(m) \cup ItemKeys(d) BY DraftRowsFacts DEF MailKeys
    <2>4. r \in MailKeys(m) \/ r \in ItemKeys(d) BY <1>2, <2>2, <2>3
    <2> QED BY <2>1, <2>4 DEF ItemKeys
<1>3. ASSUME NEW n \in DOMAIN ds, NEW i, {MailItem(i), MailItemTo(i)} \cap DOMAIN NthRows(ds, n) # {}
      PROVE  ds[n].item = i /\ i # NoItem
    <2>1. PICK r \in {MailItem(i), MailItemTo(i)} : r \in DOMAIN NthRows(ds, n) BY <1>3
    <2>2. r[1] \in {"mail_item", "mail_item_to"} /\ r[2] = i BY <2>1, RowKeys
    <2>3. r \notin MailKeys(Ids(ds)[n]) BY <2>2, RowKeys DEF MailKeys
    <2>4. ds[n].item # NoItem /\ r \in {MailItem(ds[n].item), MailItemTo(ds[n].item)}
        BY <1>2, <2>1, <2>3
    <2>5. r[2] = ds[n].item BY <2>4, RowKeys
    <2> QED BY <2>2, <2>4, <2>5
<1>4. ASSUME NEW n \in DOMAIN ds, ds[n].item # NoItem,
             NEW r \in {MailItem(ds[n].item), MailItemTo(ds[n].item)}
      PROVE  r \in DOMAIN S /\ S[r] = NthRows(ds, n)[r]
    <2>0. DOMAIN NthRows(ds, n) =
            {MailRow(Ids(ds)[n]), MailTo(Ids(ds)[n]), MailMoney(Ids(ds)[n]), MailCod(Ids(ds)[n])}
                \cup ItemKeys(ds[n])
        BY DraftRowsFacts DEF NthRows
    <2>1. r \in DOMAIN NthRows(ds, n) BY <1>4, <2>0 DEF ItemKeys
    <2>2. r \in DOMAIN S BY <1>1, <2>1
    <2>3. PICK k \in DOMAIN ds : r \in DOMAIN NthRows(ds, k) /\ S[r] = NthRows(ds, k)[r]
        BY <1>1, <2>2
    <2>4. ds[k].item = ds[n].item BY <1>3, <1>4, <2>3
    <2>5. k = n BY <1>4, <2>4 DEF OneItem
    <2> QED BY <2>2, <2>3, <2>5
<1>5. ASSUME NEW n \in DOMAIN ds, ds[n].item # NoItem
      PROVE  /\ {MailItem(ds[n].item), MailItemTo(ds[n].item)} \subseteq DOMAIN S
             /\ S[MailItem(ds[n].item)] = Ids(ds)[n] /\ S[MailItemTo(ds[n].item)] = ds[n].to
    <2>1. /\ NthRows(ds, n)[MailItem(ds[n].item)] = Ids(ds)[n]
          /\ NthRows(ds, n)[MailItemTo(ds[n].item)] = ds[n].to
        BY <1>5, DraftRowsFacts DEF NthRows
    <2> QED BY <1>4, <1>5, <2>1
<1>6. ASSUME NEW i, {MailItem(i), MailItemTo(i)} \cap DOMAIN S # {}
      PROVE  \E n \in DOMAIN ds : ds[n].item = i /\ i # NoItem
    <2>1. PICK r \in {MailItem(i), MailItemTo(i)} : r \in DOMAIN S BY <1>6
    <2>2. PICK n \in DOMAIN ds : r \in DOMAIN NthRows(ds, n) BY <1>1, <2>1
    <2> QED BY <1>3, <2>1, <2>2
<1>7. ASSUME NEW r \in DOMAIN S
      PROVE  r[1] \in {"mail", "mail_to", "mail_money", "mail_cod", "mail_item", "mail_item_to"}
    <2>1. PICK n \in DOMAIN ds : r \in DOMAIN NthRows(ds, n) BY <1>1
    <2> QED BY <1>2, <2>1, RowKeys DEF MailKeys
<1> QED BY <1>5, <1>6, <1>7 DEF S

\* The tables in the end after a commit.
LEMMA CommitLatest ==
    ASSUME TypeInv, TypeInv', NEW f, Commit(f), db' = db
    PROVE  \A r : Latest(r)' = IF r \in DOMAIN f THEN f[r] ELSE Latest(r)
<1> DEFINE e == [load |-> Nobody, rows |-> f]
<1>1. e \in EntryType /\ queue' = Append(queue, e) /\ e.rows = f BY Committed
<1> HIDE DEF e
<1>2. queue \in Seq(EntryType) BY DEF TypeInv, TablesTyped
<1> QED BY <1>1, <1>2, AppendValues

\* The mails of a committed transaction are new and hold what their drafts say.
LEMMA SentLatest ==
    ASSUME TypeInv, TypeInv', NEW ds \in Seq(DraftType), CanSend(ds), OneItem(ds),
           NEW f, Part(SendRows(ds), f), Commit(f), db' = db, NEW n \in DOMAIN ds
    PROVE  /\ MailedMoney(ds[n].to, ds[n].money)
           /\ ds[n].item # NoItem => MailedItem(ds[n].to, ds[n].item)
<1>0. PICK m : m = Ids(ds)[n] OBVIOUS
<1>1. m \in FreeIds /\ m \in MailId BY <1>0, IdsFacts DEF FreeIds
<1>2. WritesMail(SendRows(ds), m, ds[n]) BY <1>0, SentMails
<1>3. ds[n].item # NoItem => /\ MailItem(ds[n].item) \in DOMAIN SendRows(ds)
                             /\ SendRows(ds)[MailItem(ds[n].item)] = m
    BY <1>0, SentItems
<1>4. \A r : Latest(r)' = IF r \in DOMAIN f THEN f[r] ELSE Latest(r) BY CommitLatest
<1>5. /\ Latest(MailRow(m))' = TRUE /\ Latest(MailTo(m))' = Address(ds[n])
      /\ Latest(MailMoney(m))' = ds[n].money
    BY <1>2, <1>4 DEF Part, WritesMail, MailKeys
<1>6. ds[n].item # NoItem => Latest(MailItem(ds[n].item))' = m
    BY <1>3, <1>4 DEF Part
<1>7. Address(ds[n]).to = ds[n].to BY DEF Address
<1>8. MailedMoney(ds[n].to, ds[n].money) BY <1>1, <1>5, <1>7 DEF MailedMoney
<1>9. ds[n].item # NoItem => MailedItem(ds[n].to, ds[n].item)
    BY <1>1, <1>5, <1>6, <1>7 DEF MailedItem
<1> QED BY <1>8, <1>9

\* The parts of a transaction.
LEMMA Parts ==
    ASSUME NEW f, NEW g
    PROVE  /\ Part(f, f ++ g)
           /\ DOMAIN f \cap DOMAIN g = {} => Part(g, f ++ g)
           /\ DOMAIN (f ++ g) = DOMAIN f \cup DOMAIN g
           /\ \A h : Part(h, f) => Part(h, f ++ g)
  BY DEF Part, ++

\* Draft d is one of the drafts ds; they hold no item but i.
Among(d, ds) == \E n \in DOMAIN ds : ds[n] = d
Without(ds) == \A n \in DOMAIN ds : ds[n].item = NoItem
OnlyItem(ds, i) == \A n \in DOMAIN ds : ds[n].item \in {NoItem, i}

\* The drafts of a sequence that is put together.
LEMMA DraftParts ==
    /\ \A d : ~Among(d, <<>>) /\ \A e : Among(d, <<e>>) <=> d = e
    /\ \A x, y \in Seq(DraftType) : \A d : Among(d, x \o y) <=> Among(d, x) \/ Among(d, y)
    /\ \A x, y \in Seq(DraftType) : Without(x) /\ OneItem(y) => OneItem(x \o y)
    /\ \A x, y \in Seq(DraftType) : Without(x) /\ Without(y) => Without(x \o y)
    /\ \A x, y \in Seq(DraftType) : \A i : OnlyItem(x, i) /\ OnlyItem(y, i) => OnlyItem(x \o y, i)
    /\ OneItem(<<>>) /\ Without(<<>>) /\ \A d : OneItem(<<d>>)
<1>1. \A d : ~Among(d, <<>>) /\ \A e : Among(d, <<e>>) <=> d = e BY DEF Among
<1>2. OneItem(<<>>) /\ Without(<<>>) /\ \A d : OneItem(<<d>>) BY DEF OneItem, Without
<1>3. ASSUME NEW x \in Seq(DraftType), NEW y \in Seq(DraftType)
      PROVE  /\ \A n \in DOMAIN (x \o y) :
                  \/ n \in DOMAIN x /\ (x \o y)[n] = x[n]
                  \/ n - Len(x) \in DOMAIN y /\ (x \o y)[n] = y[n - Len(x)] /\ n \notin DOMAIN x
             /\ \A n \in DOMAIN x : n \in DOMAIN (x \o y) /\ (x \o y)[n] = x[n]
             /\ \A n \in DOMAIN y : /\ n + Len(x) \in DOMAIN (x \o y)
                                    /\ (x \o y)[n + Len(x)] = y[n]
             /\ DOMAIN (x \o y) \subseteq Int /\ Len(x) \in Int
    <2>1. /\ Len(x) \in Nat /\ Len(y) \in Nat /\ DOMAIN x = 1 .. Len(x) /\ DOMAIN y = 1 .. Len(y)
          /\ x \o y \in Seq(DraftType) /\ Len(x \o y) = Len(x) + Len(y)
          /\ \A k \in 1 .. Len(x) + Len(y) :
                (x \o y)[k] = IF k <= Len(x) THEN x[k] ELSE y[k - Len(x)]
        BY ConcatProperties, LenProperties
    <2>2. DOMAIN (x \o y) = 1 .. Len(x) + Len(y) BY <2>1, LenProperties
    <2> QED BY <2>1, <2>2
<1>4. ASSUME NEW x \in Seq(DraftType), NEW y \in Seq(DraftType), NEW d
      PROVE  Among(d, x \o y) <=> Among(d, x) \/ Among(d, y)
    <2>1. ASSUME Among(d, x \o y) PROVE Among(d, x) \/ Among(d, y) BY <1>3, <2>1 DEF Among
    <2>2. ASSUME Among(d, x) PROVE Among(d, x \o y) BY <1>3, <2>2 DEF Among
    <2>3. ASSUME Among(d, y) PROVE Among(d, x \o y)
        <3>1. PICK n \in DOMAIN y : y[n] = d BY <2>3 DEF Among
        <3>2. n + Len(x) \in DOMAIN (x \o y) /\ (x \o y)[n + Len(x)] = d BY <1>3, <3>1
        <3> QED BY <3>2 DEF Among
    <2> QED BY <2>1, <2>2, <2>3
<1>5. ASSUME NEW x \in Seq(DraftType), NEW y \in Seq(DraftType), Without(x), OneItem(y)
      PROVE  OneItem(x \o y)
    <2> SUFFICES ASSUME NEW k \in DOMAIN (x \o y), NEW n \in DOMAIN (x \o y),
                        (x \o y)[k].item = (x \o y)[n].item, (x \o y)[n].item # NoItem
                 PROVE  k = n
        BY DEF OneItem
    <2>1. n - Len(x) \in DOMAIN y /\ (x \o y)[n] = y[n - Len(x)] BY <1>3, <1>5 DEF Without
    <2>2. k - Len(x) \in DOMAIN y /\ (x \o y)[k] = y[k - Len(x)] BY <1>3, <1>5 DEF Without
    <2>3. k - Len(x) = n - Len(x) BY <1>5, <2>1, <2>2 DEF OneItem
    <2> QED BY <1>3, <2>3
<1>6. ASSUME NEW x \in Seq(DraftType), NEW y \in Seq(DraftType), Without(x), Without(y)
      PROVE  Without(x \o y)
    BY <1>3, <1>6 DEF Without
<1>7. ASSUME NEW x \in Seq(DraftType), NEW y \in Seq(DraftType), NEW i, OnlyItem(x, i), OnlyItem(y, i)
      PROVE  OnlyItem(x \o y, i)
    BY <1>3, <1>7 DEF OnlyItem
<1> QED BY <1>1, <1>2, <1>4, <1>5, <1>6, <1>7

\* The same for one sequence.
LEMMA DraftConcat ==
    ASSUME NEW x \in Seq(DraftType), NEW y \in Seq(DraftType), NEW z, z = x \o y
    PROVE  /\ z \in Seq(DraftType)
           /\ Without(x) /\ OneItem(y) => OneItem(z)
           /\ Without(x) /\ Without(y) => Without(z)
           /\ \A i : OnlyItem(x, i) /\ OnlyItem(y, i) => OnlyItem(z, i)
           /\ \A d : Among(d, z) <=> Among(d, x) \/ Among(d, y)
<1>1. x \o y \in Seq(DraftType) BY DraftSeqs
<1>2. \A d : Among(d, x \o y) <=> Among(d, x) \/ Among(d, y) BY DraftParts
<1>3. Without(x) /\ OneItem(y) => OneItem(x \o y) BY DraftParts
<1>4. Without(x) /\ Without(y) => Without(x \o y) BY DraftParts
<1>5. \A i : OnlyItem(x, i) /\ OnlyItem(y, i) => OnlyItem(x \o y, i) BY DraftParts
<1> QED BY <1>1, <1>2, <1>3, <1>4, <1>5, Zenon

\* The mails of the auction house: which they are, and where the item is.
LEMMA HouseDrafts ==
    ASSUME NEW i \in Item, NEW a \in AuctionRecord
    PROVE  /\ Without(SendAuctionSuccessfulMail(a)) /\ Without(SendAuctionOutbiddedMail(a))
           /\ Without(SendAuctionCancelledToBidderMail(a))
           /\ OneItem(SendAuctionWonMail(i, a)) /\ OneItem(SendAuctionExpiredMail(i, a))
           /\ OnlyItem(SendAuctionWonMail(i, a), i) /\ OnlyItem(SendAuctionExpiredMail(i, a), i)
           /\ \A ds : Without(ds) => OnlyItem(ds, i)
           /\ \A d : Among(d, SendAuctionSuccessfulMail(a)) <=>
                d = AuctionDraft(a.owner, a.bid + a.deposit - GetAuctionCut(a.bid), NoItem)
           /\ \A d : Among(d, SendAuctionOutbiddedMail(a)) <=> d = AuctionDraft(a.bidder, a.bid, NoItem)
           /\ \A d : Among(d, SendAuctionCancelledToBidderMail(a)) <=>
                d = AuctionDraft(a.bidder, a.bid, NoItem)
           /\ i \in aitems /\ LogTrade =>
                \A d : Among(d, SendAuctionWonMail(i, a)) <=> d = AuctionDraft(a.bidder, 0, i)
           /\ i \in aitems =>
                \A d : Among(d, SendAuctionExpiredMail(i, a)) <=> d = AuctionDraft(a.owner, 0, i)
<1>1. \A to, g, j : AuctionDraft(to, g, j).item = j BY DEF AuctionDraft, Draft
<1>2. \A to, g : Without(<<AuctionDraft(to, g, NoItem)>>) BY <1>1 DEF Without
<1>3. \A to, g : OnlyItem(<<AuctionDraft(to, g, i)>>, i) /\ OnlyItem(<<>>, i) BY <1>1 DEF OnlyItem
<1>4. \A ds : Without(ds) => OnlyItem(ds, i) BY DEF OnlyItem, Without
<1>5. /\ Without(SendAuctionSuccessfulMail(a)) /\ Without(SendAuctionOutbiddedMail(a))
      /\ Without(SendAuctionCancelledToBidderMail(a))
    BY <1>2 DEF SendAuctionSuccessfulMail, SendAuctionOutbiddedMail, SendAuctionCancelledToBidderMail
<1>6. /\ OneItem(SendAuctionWonMail(i, a)) /\ OneItem(SendAuctionExpiredMail(i, a))
      /\ OnlyItem(SendAuctionWonMail(i, a), i) /\ OnlyItem(SendAuctionExpiredMail(i, a), i)
    BY <1>3, DraftParts DEF SendAuctionWonMail, SendAuctionExpiredMail
<1>7. \A d, e : Among(d, <<e>>) <=> d = e BY DraftParts
<1> QED BY <1>4, <1>5, <1>6, <1>7
        DEF SendAuctionSuccessfulMail, SendAuctionOutbiddedMail, SendAuctionCancelledToBidderMail,
            SendAuctionWonMail, SendAuctionExpiredMail

\* The drafts of a bid, of an end at once, of a cancelled and of an expired auction.
LEMMA OutbidDrafts ==
    ASSUME TypeInv, NEW p \in Player, NEW i \in Item, OnSale(i)
    PROVE  /\ Outbid(p, i) \in Seq(DraftType) /\ Without(Outbid(p, i)) /\ OneItem(Outbid(p, i))
           /\ auction[i] \in AuctionRecord
           /\ \A d : Among(d, Outbid(p, i)) <=>
                /\ auction[i].bidder \notin {Nobody, p}
                /\ d = AuctionDraft(auction[i].bidder, auction[i].bid, NoItem)
<1>1. auction[i] \in AuctionRecord BY DEF OnSale, TypeInv, HouseTyped
<1>2. CASE auction[i].bidder \in {Nobody, p}
    <2>1. Outbid(p, i) = <<>> BY <1>2 DEF Outbid
    <2> QED BY <1>1, <1>2, <2>1, DraftParts, DraftSeqs
<1>3. CASE auction[i].bidder \notin {Nobody, p}
    <2>1. Outbid(p, i) = SendAuctionOutbiddedMail(auction[i]) BY <1>3 DEF Outbid
    <2>2. SendAuctionOutbiddedMail(auction[i]) \in Seq(DraftType) BY <1>1, <1>3, AuctionDrafts
    <2>3. /\ Without(SendAuctionOutbiddedMail(auction[i]))
          /\ \A d : Among(d, SendAuctionOutbiddedMail(auction[i])) <=>
                    d = AuctionDraft(auction[i].bidder, auction[i].bid, NoItem)
        BY <1>1, HouseDrafts
    <2>4. OneItem(SendAuctionOutbiddedMail(auction[i])) BY DraftParts DEF SendAuctionOutbiddedMail
    <2> QED BY <1>1, <1>3, <2>1, <2>2, <2>3, <2>4
<1> QED BY <1>2, <1>3

\* An auction that ends with a winner: a is the auction with its last bid.
LEMMA WonDrafts ==
    ASSUME LogTrade, NEW i \in Item, NEW a \in AuctionRecord, i \in aitems, a.bidder # Nobody,
           NEW x \in Seq(DraftType), Without(x), NEW ds,
           ds = x \o SendAuctionSuccessfulMail(a) \o SendAuctionWonMail(i, a)
    PROVE  /\ ds \in Seq(DraftType) /\ OneItem(ds) /\ OnlyItem(ds, i)
           /\ \A d : Among(d, ds) <=>
                \/ Among(d, x)
                \/ d = AuctionDraft(a.owner, a.bid + a.deposit - GetAuctionCut(a.bid), NoItem)
                \/ d = AuctionDraft(a.bidder, 0, i)
<1> DEFINE y == SendAuctionSuccessfulMail(a)
           z == SendAuctionWonMail(i, a)
<1>1. y \in Seq(DraftType) /\ z \in Seq(DraftType) BY AuctionDrafts
<1>2. /\ Without(y) /\ OneItem(z) /\ OnlyItem(z, i)
      /\ Without(x) => OnlyItem(x, i)
      /\ Without(y) => OnlyItem(y, i)
      /\ \A d : Among(d, y) <=>
            d = AuctionDraft(a.owner, a.bid + a.deposit - GetAuctionCut(a.bid), NoItem)
      /\ \A d : Among(d, z) <=> d = AuctionDraft(a.bidder, 0, i)
    BY HouseDrafts
<1>3. ds = (x \o y) \o z OBVIOUS
<1> HIDE DEF y, z
<1>4. x \o y \in Seq(DraftType) /\ Without(x \o y) /\ OnlyItem(x \o y, i)
    BY <1>1, <1>2, DraftSeqs, DraftParts
<1>5. ds \in Seq(DraftType) /\ OneItem(ds) /\ OnlyItem(ds, i)
    BY <1>1, <1>2, <1>3, <1>4, DraftConcat
<1>6. ASSUME NEW d PROVE Among(d, ds) <=> Among(d, x) \/ Among(d, y) \/ Among(d, z)
    <2>1. Among(d, x \o y) <=> Among(d, x) \/ Among(d, y) BY <1>1, DraftConcat
    <2>2. Among(d, ds) <=> Among(d, x \o y) \/ Among(d, z) BY <1>1, <1>3, <1>4, DraftConcat
    <2> QED BY <2>1, <2>2
<1> QED BY <1>2, <1>5, <1>6

\* p buys auction i out.
Sold(p, i) == [auction[i] EXCEPT !.bidder = p, !.bid = auction[i].buyout]
BuyoutMails(p, i) ==
    Outbid(p, i) \o SendAuctionSuccessfulMail(Sold(p, i)) \o SendAuctionWonMail(i, Sold(p, i))
LEMMA BuyoutDrafts ==
    ASSUME TypeInv, HouseInv, LogTrade, NEW p \in Player, NEW i \in Item, NEW price \in Prices,
           Buyout(p, i, price), NEW sold, sold = Sold(p, i), NEW ds, ds = BuyoutMails(p, i)
    PROVE  /\ OnSale(i) /\ i \in aitems /\ auction[i] \in AuctionRecord /\ sold \in AuctionRecord
           /\ sold.bidder = p /\ sold.bid = auction[i].buyout /\ sold.owner = auction[i].owner
           /\ sold.deposit = auction[i].deposit
           /\ ds \in Seq(DraftType) /\ OneItem(ds) /\ OnlyItem(ds, i)
           /\ \A d : Among(d, ds) <=>
                \/ Among(d, Outbid(p, i))
                \/ d = AuctionDraft(sold.owner, sold.bid + sold.deposit - GetAuctionCut(sold.bid), NoItem)
                \/ d = AuctionDraft(p, 0, i)
<1>1. OnSale(i) BY DEF Buyout, ValidBid
<1>2. i \in aitems BY <1>1 DEF HouseInv
<1>3. /\ auction[i] \in AuctionRecord /\ Outbid(p, i) \in Seq(DraftType) /\ Without(Outbid(p, i))
    BY <1>1, OutbidDrafts
<1>4. /\ sold \in AuctionRecord /\ sold.bidder = p /\ sold.bid = auction[i].buyout
      /\ sold.owner = auction[i].owner /\ sold.deposit = auction[i].deposit /\ p # Nobody
    BY <1>3, StoreAssumption, AuctionAssumption DEF AuctionRecord, Sold
<1>5. PICK x : x = Outbid(p, i) OBVIOUS
<1>6. /\ x \in Seq(DraftType) /\ Without(x) /\ sold.bidder # Nobody
      /\ ds = x \o SendAuctionSuccessfulMail(sold) \o SendAuctionWonMail(i, sold)
    BY <1>3, <1>4, <1>5 DEF BuyoutMails
<1>7. /\ ds \in Seq(DraftType) /\ OneItem(ds) /\ OnlyItem(ds, i)
      /\ \A d : Among(d, ds) <=>
            \/ Among(d, x)
            \/ d = AuctionDraft(sold.owner, sold.bid + sold.deposit - GetAuctionCut(sold.bid), NoItem)
            \/ d = AuctionDraft(sold.bidder, 0, i)
    BY <1>2, <1>4, <1>6, WonDrafts
<1> QED BY <1>1, <1>2, <1>3, <1>4, <1>5, <1>7

\* p cancels his auction i.
CancelBack(a) == IF a.bidder = Nobody THEN <<>> ELSE SendAuctionCancelledToBidderMail(a)
CancelMails(p, i) == CancelBack(auction[i]) \o <<AuctionDraft(p, 0, i)>>
LEMMA CancelDrafts ==
    ASSUME TypeInv, NEW p \in Player, NEW i \in Item, OnSale(i),
           NEW ds, ds = CancelMails(p, i)
    PROVE  /\ auction[i] \in AuctionRecord
           /\ ds \in Seq(DraftType) /\ OneItem(ds) /\ OnlyItem(ds, i)
           /\ \A d : Among(d, ds) <=>
                \/ /\ auction[i].bidder # Nobody
                   /\ d = AuctionDraft(auction[i].bidder, auction[i].bid, NoItem)
                \/ d = AuctionDraft(p, 0, i)
<1> DEFINE a == auction[i]
           x == CancelBack(a)
           y == <<AuctionDraft(p, 0, i)>>
<1>1. a \in AuctionRecord BY DEF OnSale, TypeInv, HouseTyped
<1> HIDE DEF a
<1>2. /\ x \in Seq(DraftType) /\ Without(x) /\ OnlyItem(x, i)
      /\ \A d : Among(d, x) <=> a.bidder # Nobody /\ d = AuctionDraft(a.bidder, a.bid, NoItem)
    <2>1. \A d : Without(d) => OnlyItem(d, i) BY <1>1, HouseDrafts
    <2>2. CASE a.bidder = Nobody
        <3>1. x = <<>> BY <2>2 DEF CancelBack
        <3> QED BY <2>1, <2>2, <3>1, DraftParts, DraftSeqs
    <2>3. CASE a.bidder # Nobody
        <3>1. x = SendAuctionCancelledToBidderMail(a) BY <2>3 DEF CancelBack
        <3>2. SendAuctionCancelledToBidderMail(a) \in Seq(DraftType) BY <1>1, <2>3, AuctionDrafts
        <3>3. /\ Without(SendAuctionCancelledToBidderMail(a))
              /\ \A d : Among(d, SendAuctionCancelledToBidderMail(a)) <=>
                        d = AuctionDraft(a.bidder, a.bid, NoItem)
            BY <1>1, HouseDrafts
        <3> QED BY <2>1, <2>3, <3>1, <3>2, <3>3
    <2> QED BY <2>2, <2>3
<1>3. /\ y \in Seq(DraftType) /\ OneItem(y) /\ OnlyItem(y, i)
      /\ \A d : Among(d, y) <=> d = AuctionDraft(p, 0, i)
    <2>1. AuctionDraft(p, 0, i) \in DraftType BY DraftTyped
    <2>2. OnlyItem(y, i) BY DEF OnlyItem, AuctionDraft, Draft
    <2> QED BY <2>1, <2>2, DraftParts, DraftSeqs
<1>4. ds = x \o y BY DEF a, CancelMails
<1> HIDE DEF x, y
<1>5. ds \in Seq(DraftType) /\ OneItem(ds) /\ OnlyItem(ds, i)
    BY <1>2, <1>3, <1>4, DraftConcat
<1>6. ASSUME NEW d PROVE Among(d, ds) <=> Among(d, x) \/ Among(d, y)
    BY <1>2, <1>3, <1>4, DraftConcat
<1> QED BY <1>1, <1>2, <1>3, <1>5, <1>6 DEF a

\* Auction i expires.
LEMMA ExpiryMails ==
    ASSUME LogTrade, NEW i \in Item, i \in aitems, NEW a \in AuctionRecord,
           NEW ds, ds = ExpiryDrafts(i, a)
    PROVE  /\ ds \in Seq(DraftType) /\ OneItem(ds) /\ OnlyItem(ds, i)
           /\ a.bidder = Nobody => \A d : Among(d, ds) <=> d = AuctionDraft(a.owner, 0, i)
           /\ a.bidder # Nobody => \A d : Among(d, ds) <=>
                \/ d = AuctionDraft(a.owner, a.bid + a.deposit - GetAuctionCut(a.bid), NoItem)
                \/ d = AuctionDraft(a.bidder, 0, i)
<1>1. CASE a.bidder = Nobody
    <2>1. ds = SendAuctionExpiredMail(i, a) BY <1>1 DEF ExpiryDrafts
    <2>2. /\ OneItem(SendAuctionExpiredMail(i, a)) /\ OnlyItem(SendAuctionExpiredMail(i, a), i)
          /\ \A d : Among(d, SendAuctionExpiredMail(i, a)) <=> d = AuctionDraft(a.owner, 0, i)
        BY HouseDrafts
    <2>3. SendAuctionExpiredMail(i, a) \in Seq(DraftType) BY AuctionDrafts
    <2> QED BY <1>1, <2>1, <2>2, <2>3
<1>2. CASE a.bidder # Nobody
    <2> DEFINE y == SendAuctionSuccessfulMail(a)
               z == SendAuctionWonMail(i, a)
    <2>1. ds = y \o z BY <1>2 DEF ExpiryDrafts
    <2>2. y \in Seq(DraftType) /\ z \in Seq(DraftType) BY <1>2, AuctionDrafts
    <2>3. /\ Without(y) /\ OneItem(z) /\ OnlyItem(z, i)
          /\ Without(y) => OnlyItem(y, i)
          /\ \A d : Among(d, y) <=>
                d = AuctionDraft(a.owner, a.bid + a.deposit - GetAuctionCut(a.bid), NoItem)
          /\ \A d : Among(d, z) <=> d = AuctionDraft(a.bidder, 0, i)
        BY HouseDrafts
    <2> HIDE DEF y, z
    <2>4. ds \in Seq(DraftType) /\ OneItem(ds) /\ OnlyItem(ds, i)
        BY <2>1, <2>2, <2>3, DraftConcat
    <2>5. ASSUME NEW d PROVE Among(d, ds) <=> Among(d, y) \/ Among(d, z)
        BY <2>1, <2>2, DraftConcat
    <2> QED BY <1>2, <2>3, <2>4, <2>5
<1> QED BY <1>1, <1>2

\* The same for a draft that is among those sent.
LEMMA SentAmong ==
    ASSUME TypeInv, TypeInv', NEW ds \in Seq(DraftType), CanSend(ds), OneItem(ds),
           NEW f, Part(SendRows(ds), f), Commit(f), db' = db, NEW d, Among(d, ds)
    PROVE  /\ MailedMoney(d.to, d.money)
           /\ d.item # NoItem => MailedItem(d.to, d.item)
<1>1. PICK n \in DOMAIN ds : ds[n] = d BY DEF Among
<1>2. /\ MailedMoney(ds[n].to, ds[n].money)
      /\ ds[n].item # NoItem => MailedItem(ds[n].to, ds[n].item)
    BY SentLatest
<1> QED BY <1>1, <1>2

\* The mails are a part of the transactions of the auction house.
LEMMA SendParts ==
    ASSUME NEW p, NEW m, NEW ds \in Seq(DraftType), CanSend(ds), OneItem(ds), NEW i, NEW g, NEW v
    PROVE  /\ Part(SendRows(ds), GoldRows({p}, m) ++ SendRows(ds) ++ AuctionGone(i) ++ Fee(g))
           /\ Part(SendRows(ds), GoldRows({p}, m) ++ SendRows(ds) ++ Write(BidRow(i), v))
           /\ Part(SendRows(ds), SendRows(ds) ++ AuctionGone(i) ++ Fee(g))
<1> DEFINE a == GoldRows({p}, m)
           s == SendRows(ds)
           b == AuctionGone(i)
           c == Fee(g)
           e == Write(BidRow(i), v)
<1>1. \A r \in DOMAIN s : r[1] # "gold"
    <2>1. \A r \in DOMAIN s :
            r[1] \in {"mail", "mail_to", "mail_money", "mail_cod", "mail_item", "mail_item_to"}
        BY SentItems
    <2> QED BY <2>1
<1>2. \A r \in DOMAIN a : r[1] = "gold" BY RowKeys DEF GoldRows
<1>3. DOMAIN a \cap DOMAIN s = {} BY <1>1, <1>2
<1> HIDE DEF a, s, b, c, e
<1>4. Part(s, a ++ s) BY <1>3, Parts
<1>5. Part(s, (a ++ s) ++ b) /\ Part(s, (a ++ s) ++ e) BY <1>4, Parts
<1>6. Part(s, ((a ++ s) ++ b) ++ c) BY <1>5, Parts
<1>7. Part(s, s ++ b) BY Parts
<1>8. Part(s, (s ++ b) ++ c) BY <1>7, Parts
<1> QED BY <1>5, <1>6, <1>8 DEF a, s, b, c, e

\* What a draft of the auction house says.
LEMMA AuctionDraftSays ==
    ASSUME NEW to, NEW g, NEW i
    PROVE  /\ AuctionDraft(to, g, i).to = to /\ AuctionDraft(to, g, i).money = g
           /\ AuctionDraft(to, g, i).item = i
  BY DEF AuctionDraft, Draft

\* The end of auction i, or a new bid, in AuctionSettled.
SettlesBidder(i) ==
    auction[i].bidder # Nobody /\ (auction'[i] = NoAuction \/ auction'[i].bidder # auction[i].bidder)
        => MailedItem(auction[i].bidder, i) \/ MailedMoney(auction[i].bidder, auction[i].bid)
SettlesOwner(i) ==
    auction'[i] = NoAuction =>
        \/ MailedItem(auction[i].owner, i)
        \/ \E g \in {auction[i].bid, auction[i].buyout} :
                MailedMoney(auction[i].owner, g + auction[i].deposit - GetAuctionCut(g))

\* A bid settles with the bidder before.
LEMMA BidSettles ==
    ASSUME TypeInv, TypeInv', NEW p \in Player, NEW i \in Item, NEW price \in Prices,
           PlaceBid(p, i, price)
    PROVE  /\ SettlesBidder(i) /\ SettlesOwner(i)
           /\ \A j \in Item \ {i} : auction'[j] = auction[j]
<1> DEFINE ds == Outbid(p, i)
           gold == [money EXCEPT ![p] = Paid(@, BidPaid(p, i, price))]
           f == GoldRows({p}, gold) ++ SendRows(ds) ++ Write(BidRow(i), [bidder |-> p, bid |-> price])
<1>1. /\ ValidBid(p, i, price) /\ CanSend(ds) /\ Commit(f) /\ db' = db
      /\ auction' = [auction EXCEPT ![i].bidder = p, ![i].bid = price]
    BY DEF PlaceBid
<1>2. OnSale(i) BY <1>1 DEF ValidBid
<1>3. /\ ds \in Seq(DraftType) /\ OneItem(ds) /\ auction[i] \in AuctionRecord
      /\ \A d : Among(d, ds) <=> /\ auction[i].bidder \notin {Nobody, p}
                                 /\ d = AuctionDraft(auction[i].bidder, auction[i].bid, NoItem)
    BY <1>2, OutbidDrafts
<1>4. Part(SendRows(ds), f) BY <1>1, <1>3, SendParts
<1>5. auction \in [Item -> AuctionRecord \cup {NoAuction}] /\ auction' \in [Item -> AuctionRecord \cup {NoAuction}]
    BY DEF TypeInv, HouseTyped
<1>6. \A j \in Item \ {i} : auction'[j] = auction[j] BY <1>1, <1>5
<1>7. auction'[i] # NoAuction /\ auction'[i].bidder = p
    <2>1. auction'[i] = [auction[i] EXCEPT !.bidder = p, !.bid = price] BY <1>1, <1>5
    <2>2. auction'[i].bidder = p /\ auction'[i] \in [owner : Player, bidder : Player \cup {Nobody},
              bid : Nat, startbid : StartBids, buyout : Buyouts, deposit : {Deposit}]
        BY <1>3, <2>1, AuctionAssumption DEF AuctionRecord
    <2> QED BY <2>2, AuctionAssumption DEF AuctionRecord
<1>8. ASSUME auction[i].bidder \notin {Nobody, p}
      PROVE  MailedMoney(auction[i].bidder, auction[i].bid)
    <2> DEFINE d == AuctionDraft(auction[i].bidder, auction[i].bid, NoItem)
    <2>1. Among(d, ds) BY <1>3, <1>8
    <2> HIDE DEF ds, f
    <2>2. MailedMoney(d.to, d.money) BY <1>1, <1>3, <1>4, <2>1, SentAmong
    <2> QED BY <2>2, AuctionDraftSays
<1> QED BY <1>6, <1>7, <1>8 DEF SettlesBidder, SettlesOwner

\* A buyout settles with the bidder before, the owner and the buyer.
LEMMA BuyoutSettles ==
    ASSUME TypeInv, TypeInv', HouseInv, LogTrade, NEW p \in Player, NEW i \in Item,
           NEW price \in Prices, Buyout(p, i, price)
    PROVE  SettlesBidder(i) /\ SettlesOwner(i)
<1>1. PICK sold : sold = Sold(p, i) OBVIOUS
<1>2. PICK ds : ds = BuyoutMails(p, i) OBVIOUS
<1>3. PICK f : f = GoldRows({p}, [money EXCEPT ![p] = Paid(@, BidPaid(p, i, auction[i].buyout))])
                    ++ SendRows(ds) ++ AuctionGone(i) ++ Fee(GetAuctionCut(sold.bid))
    OBVIOUS
<1>4. CanSend(ds) /\ Commit(f) /\ db' = db BY <1>1, <1>2, <1>3 DEF Buyout, BuyoutMails, Sold
<1>5. /\ OnSale(i) /\ auction[i] \in AuctionRecord
      /\ sold.bid = auction[i].buyout /\ sold.owner = auction[i].owner
      /\ sold.deposit = auction[i].deposit
      /\ ds \in Seq(DraftType) /\ OneItem(ds)
      /\ \A d : Among(d, ds) <=>
                \/ Among(d, Outbid(p, i))
                \/ d = AuctionDraft(sold.owner, sold.bid + sold.deposit - GetAuctionCut(sold.bid), NoItem)
                \/ d = AuctionDraft(p, 0, i)
    BY <1>1, <1>2, BuyoutDrafts
<1>6. Part(SendRows(ds), f) BY <1>3, <1>4, <1>5, SendParts
<1>7. ASSUME NEW d, Among(d, ds)
      PROVE  MailedMoney(d.to, d.money) /\ (d.item # NoItem => MailedItem(d.to, d.item))
    BY <1>4, <1>5, <1>6, <1>7, SentAmong
<1> DEFINE ended == auction[i].buyout + auction[i].deposit - GetAuctionCut(auction[i].buyout)
<1>8. MailedMoney(auction[i].owner, ended)
    <2> DEFINE d == AuctionDraft(auction[i].owner, ended, NoItem)
    <2>1. Among(d, ds) BY <1>5
    <2>2. MailedMoney(d.to, d.money) BY <1>7, <2>1
    <2> QED BY <2>2, AuctionDraftSays
<1>9. MailedItem(p, i)
    <2> DEFINE d == AuctionDraft(p, 0, i)
    <2>1. d.to = p /\ d.item = i /\ i # NoItem BY AuctionDraftSays, MailAssumption
    <2>2. Among(d, ds) BY <1>5
    <2> QED BY <1>7, <2>1, <2>2
<1>10. ASSUME auction[i].bidder \notin {Nobody, p}
       PROVE  MailedMoney(auction[i].bidder, auction[i].bid)
    <2> DEFINE d == AuctionDraft(auction[i].bidder, auction[i].bid, NoItem)
    <2>1. Among(d, Outbid(p, i)) BY <1>5, <1>10, OutbidDrafts
    <2>2. Among(d, ds) BY <1>5, <2>1
    <2>3. MailedMoney(d.to, d.money) BY <1>7, <2>2
    <2> QED BY <2>3, AuctionDraftSays
<1> QED BY <1>8, <1>9, <1>10 DEF SettlesBidder, SettlesOwner

\* A cancelled auction settles with the bidder and the owner.
LEMMA CancelSettles ==
    ASSUME TypeInv, TypeInv', NEW p \in Player, NEW i \in Item, HandleAuctionRemoveItem(p, i)
    PROVE  SettlesBidder(i) /\ SettlesOwner(i)
<1>1. PICK ds : ds = CancelMails(p, i) OBVIOUS
<1>2. PICK f : f = GoldRows({p}, [money EXCEPT ![p] = Paid(@, CancelCost(i))])
                    ++ SendRows(ds) ++ AuctionGone(i) ++ Fee(CancelCost(i) + auction[i].deposit)
    OBVIOUS
<1>3. OnSale(i) /\ auction[i].owner = p /\ CanSend(ds) /\ Commit(f) /\ db' = db
    BY <1>1, <1>2 DEF HandleAuctionRemoveItem, CancelBack, CancelMails
<1>4. /\ ds \in Seq(DraftType) /\ OneItem(ds)
      /\ \A d : Among(d, ds) <=>
            \/ /\ auction[i].bidder # Nobody
               /\ d = AuctionDraft(auction[i].bidder, auction[i].bid, NoItem)
            \/ d = AuctionDraft(p, 0, i)
    BY <1>1, <1>3, CancelDrafts
<1>5. Part(SendRows(ds), f) BY <1>2, <1>3, <1>4, SendParts
<1>6. ASSUME NEW d, Among(d, ds)
      PROVE  MailedMoney(d.to, d.money) /\ (d.item # NoItem => MailedItem(d.to, d.item))
    BY <1>3, <1>4, <1>5, <1>6, SentAmong
<1>7. MailedItem(p, i)
    <2> DEFINE d == AuctionDraft(p, 0, i)
    <2>1. d.to = p /\ d.item = i /\ i # NoItem BY AuctionDraftSays, MailAssumption
    <2>2. Among(d, ds) BY <1>4
    <2> QED BY <1>6, <2>1, <2>2
<1>8. ASSUME auction[i].bidder # Nobody PROVE MailedMoney(auction[i].bidder, auction[i].bid)
    <2> DEFINE d == AuctionDraft(auction[i].bidder, auction[i].bid, NoItem)
    <2>1. Among(d, ds) BY <1>4, <1>8
    <2>2. MailedMoney(d.to, d.money) BY <1>6, <2>1
    <2> QED BY <2>2, AuctionDraftSays
<1> QED BY <1>3, <1>7, <1>8 DEF SettlesBidder, SettlesOwner

\* An expired auction settles with the bidder and the owner.
LEMMA UpdateSettles ==
    ASSUME TypeInv, TypeInv', HouseInv, LogTrade, NEW i \in Item, Update(i)
    PROVE  SettlesBidder(i) /\ SettlesOwner(i)
<1> DEFINE a == auction[i]
           ds == ExpiryDrafts(i, a)
           f == SendRows(ds) ++ AuctionGone(i) ++ Fee(ExpiryFee(a))
<1>1. OnSale(i) /\ CanSend(ds) /\ Commit(f) /\ db' = db BY DEF Update, StillOnSale
<1>2. i \in aitems /\ a \in AuctionRecord BY <1>1 DEF OnSale, HouseInv, TypeInv, HouseTyped
<1>3. /\ ds \in Seq(DraftType) /\ OneItem(ds)
      /\ a.bidder = Nobody => \A d : Among(d, ds) <=> d = AuctionDraft(a.owner, 0, i)
      /\ a.bidder # Nobody => \A d : Among(d, ds) <=>
            \/ d = AuctionDraft(a.owner, a.bid + a.deposit - GetAuctionCut(a.bid), NoItem)
            \/ d = AuctionDraft(a.bidder, 0, i)
    BY <1>2, ExpiryMails
<1>4. Part(SendRows(ds), f) BY <1>1, <1>3, SendParts
<1> HIDE DEF ds, f, a
<1>5. ASSUME NEW q, Among(AuctionDraft(q, 0, i), ds) PROVE MailedItem(q, i)
    <2> DEFINE d == AuctionDraft(q, 0, i)
    <2>1. d.to = q /\ d.item = i /\ i # NoItem BY AuctionDraftSays, MailAssumption
    <2>2. d.item # NoItem => MailedItem(d.to, d.item) BY <1>1, <1>3, <1>4, <1>5, SentAmong
    <2> QED BY <2>1, <2>2
<1>6. CASE a.bidder = Nobody
    <2>1. MailedItem(a.owner, i) BY <1>3, <1>5, <1>6
    <2> QED BY <1>6, <2>1 DEF SettlesBidder, SettlesOwner, a
<1>7. CASE a.bidder # Nobody
    <2> DEFINE g == a.bid + a.deposit - GetAuctionCut(a.bid)
               d == AuctionDraft(a.owner, g, NoItem)
    <2>1. MailedItem(a.bidder, i) BY <1>3, <1>5, <1>7
    <2>2. Among(d, ds) BY <1>3, <1>7
    <2>3. MailedMoney(d.to, d.money) BY <1>1, <1>3, <1>4, <2>2, SentAmong
    <2>4. MailedMoney(a.owner, g) BY <2>3, AuctionDraftSays
    <2> QED BY <2>1, <2>4 DEF SettlesBidder, SettlesOwner, a
<1> QED BY <1>6, <1>7

\* A step that closes an auction or brings a new bidder settles with the parties.
LEMMA StepSettles ==
    ASSUME TypeInv, TypeInv', HouseInv, LogTrade, [Next]_vars, NEW i \in Item, OnSale(i),
           crashes' = crashes
    PROVE  SettlesBidder(i) /\ SettlesOwner(i)
<1>1. Up BY DEF HouseInv, ColdStart
<1>2. /\ auction \in [Item -> AuctionRecord \cup {NoAuction}]
      /\ i \in aitems /\ auction[i] # NoAuction
    BY DEF TypeInv, HouseTyped, HouseInv, OnSale
<1>3. ASSUME auction'[i] = auction[i] PROVE SettlesBidder(i) /\ SettlesOwner(i)
    BY <1>2, <1>3 DEF SettlesBidder, SettlesOwner
<1>4. ASSUME NEW j \in Item, RemoveAuction(j), j # i PROVE SettlesBidder(i) /\ SettlesOwner(i)
    BY <1>2, <1>3, <1>4 DEF RemoveAuction
<1>5. ASSUME NEW p \in Player, NEW j \in Item, NEW sb \in StartBids, NEW bo \in Buyouts,
             HandleAuctionSellItem(p, j, sb, bo)
      PROVE  SettlesBidder(i) /\ SettlesOwner(i)
    <2>1. j # i BY <1>2, <1>5 DEF HandleAuctionSellItem
    <2>2. auction'[i] = auction[i] BY <1>2, <1>5, <2>1 DEF HandleAuctionSellItem
    <2> QED BY <1>3, <2>2
<1>6. ASSUME NEW p \in Player, NEW j \in Item, NEW price \in Prices, PlaceBid(p, j, price)
      PROVE  SettlesBidder(i) /\ SettlesOwner(i)
    BY <1>3, <1>6, BidSettles
<1>7. ASSUME NEW p \in Player, NEW j \in Item, NEW price \in Prices, Buyout(p, j, price)
      PROVE  SettlesBidder(i) /\ SettlesOwner(i)
    <2>1. RemoveAuction(j) BY <1>7 DEF Buyout
    <2> QED BY <1>4, <1>7, <2>1, BuyoutSettles
<1>8. ASSUME NEW p \in Player, NEW j \in Item, HandleAuctionRemoveItem(p, j)
      PROVE  SettlesBidder(i) /\ SettlesOwner(i)
    <2>1. RemoveAuction(j) BY <1>8 DEF HandleAuctionRemoveItem
    <2> QED BY <1>4, <1>8, <2>1, CancelSettles
<1>9. ASSUME NEW j \in Item, Update(j) PROVE SettlesBidder(i) /\ SettlesOwner(i)
    <2>1. RemoveAuction(j) BY <1>9 DEF Update
    <2> QED BY <1>4, <1>9, <2>1, UpdateSettles
<1>10. CASE UNCHANGED auctionVars \/ UNCHANGED vars
    BY <1>3, <1>10 DEF auctionVars, vars
<1>11. ASSUME NEW S \in SUBSET Item, DeleteExpiredAuctionsAtStartup(S) PROVE FALSE
    BY <1>1, <1>11 DEF DeleteExpiredAuctionsAtStartup, Up
<1>12. ~LoadAuctions BY <1>1 DEF LoadAuctions, Up
<1>13. ~ServerCrash
    <2>1. crashes \in Nat BY StoreAssumption DEF TypeInv, HouseTyped
    <2> QED BY <2>1 DEF ServerCrash, Crash
<1> QED BY <1>5, <1>6, <1>7, <1>8, <1>9, <1>10, <1>11, <1>12, <1>13 DEF Next, AuctionStep

\* Whoever has bid on an auction or offered it ends with the item or with his
\* money, in a mail of the transaction that closes the auction or records the
\* new bid, whatever the other players and the database do meanwhile.  It needs
\* CONFIG_GM_LOG_TRADE (see SendAuctionWonMail).
THEOREM AuctionsAlwaysSettled ==
    ASSUME Workers = 1, LogTrade, \A p \in Player : InitMoney[p] <= MaxMoney
    PROVE  Spec => AuctionSettled
<1> DEFINE I == TypeInv /\ HouseInv
<1>1. Init => I BY InitTypes, InitHouse
<1>2. I /\ [Next]_vars => I'
    <2> SUFFICES ASSUME I, [Next]_vars PROVE I' OBVIOUS
    <2>1. TypeInv' BY StepTypes DEF HouseInv
    <2>2. HouseInv' BY <2>1, StepHouse
    <2> QED BY <2>1, <2>2
<1>3. I /\ I' /\ [Next]_vars =>
        [\A i \in Item : OnSale(i) /\ crashes' = crashes =>
            LET a == auction[i]
                closed == auction'[i] = NoAuction
            IN  /\ a.bidder # Nobody /\ (closed \/ auction'[i].bidder # a.bidder) =>
                        MailedItem(a.bidder, i) \/ MailedMoney(a.bidder, a.bid)
                /\ closed =>
                    \/ MailedItem(a.owner, i)
                    \/ \E g \in {a.bid, a.buyout} :
                            MailedMoney(a.owner, g + a.deposit - GetAuctionCut(g))]_vars
    BY StepSettles DEF SettlesBidder, SettlesOwner
<1> QED BY <1>1, <1>2, <1>3, PTL DEF Spec, AuctionSettled

-----------------------------------------------------------------------------
(***************************************************************************)
(* The ledger: where every item is, and what the players have, in the      *)
(* tables at each moment from now until the queue is empty.                *)
(***************************************************************************)

\* The tables after the first n entries of the queue, and after all of them.
Tab(n) == [r \in RowNames |-> Value(n, r)]
End == [r \in RowNames |-> Latest(r)]

\* In the tables t, item i is in mail m; it is in exactly one place.
In(t, m, i) == t[MailItem(i)] = m /\ ~t[GivenUp(i)]
OnePlace(t, i) ==
    LET carried == t[ItemRow(i)] # Nobody
        offered == t[AuctionRow(i)] # NoAuction
        mailed == \E m \in MailId : In(t, m, i)
    IN  /\ carried \/ offered \/ mailed \/ t[GivenUp(i)]
        /\ carried => ~offered /\ ~mailed /\ ~t[GivenUp(i)]
        /\ offered => ~mailed /\ ~t[GivenUp(i)]

\* No player sends a mail, because none can pay for it and none may without.
NobodyMails == MailCost > MaxMoney /\ GameMaster = {}

\* What the tables say of the items is consistent.  Nobody who cannot pay for a
\* mail has ever sent one.
Ledger(t) ==
    /\ \A i \in Item : OnePlace(t, i)
    /\ \A i \in Item, m \in MailId : In(t, m, i) => t[MailRow(m)]
    /\ \A i, j \in Item, m \in MailId : In(t, m, i) /\ In(t, m, j) => i = j
    /\ \A m \in MailId : NobodyMails /\ t[MailTo(m)] \in AddressType =>
            ~t[MailTo(m)].normal

\* The column receiver of mail_items agrees with that of mail.
Registered(t) ==
    \A i \in Item, m \in MailId : In(t, m, i) => t[MailItemTo(i)] = t[MailTo(m)].to

\* An item gets into a mail only with that mail, and does not come back from the
\* deleted ones.
Linked(f) ==
    \A i \in Item :
        /\ MailItem(i) \in DOMAIN f /\ f[MailItem(i)] # NoMail =>
                MailRow(f[MailItem(i)]) \in DOMAIN f
        /\ GivenUp(i) \in DOMAIN f => f[GivenUp(i)] = TRUE

\* What player q has in the tables t he has in the tables u.
Mine(q, t, u) ==
    /\ u[GoldRow(q)] = t[GoldRow(q)]
    /\ \A i \in Item : t[ItemRow(i)] = q => u[ItemRow(i)] = q
    /\ \A m \in MailId : t[MailRow(m)] /\ t[MailTo(m)].to = q =>
            /\ u[MailRow(m)] /\ u[MailTo(m)] = t[MailTo(m)]
            /\ u[MailMoney(m)] = t[MailMoney(m)]
            /\ \A i \in Item : In(u, m, i) <=> In(t, m, i)

\* The tables t hold the money g, the items s and the mails b of player p.
Backs(t, p, g, s, b) ==
    /\ t[GoldRow(p)] = g
    /\ \A i \in s : t[ItemRow(i)] = p
    /\ \A m \in DOMAIN b :
            /\ t[MailRow(m)] /\ t[MailTo(m)] = b[m].address /\ b[m].address.to = p
            /\ t[MailMoney(m)] = b[m].money
            /\ \A i \in Item : b[m].item = i <=> In(t, m, i)

-----------------------------------------------------------------------------
Books == \A n \in 0 .. Len(queue) : Ledger(Tab(n))

\* A mail of a player that is sent back is registered in two steps.
Registers ==
    \A n \in 0 .. Len(queue) :
        \/ Registered(Tab(n))
        \/ MaxCrashes = 0 /\ n < Len(queue) /\ queue[n + 1].load = Nobody

Links == \A k \in DOMAIN queue : Linked(queue[k].rows)

\* A player whose login is under way is not in the world, and what he has does
\* not change after the query.
Logins ==
    \A k \in DOMAIN queue : queue[k].load # Nobody =>
        /\ queue[k].load \notin online
        /\ \A l \in DOMAIN queue : queue[l].load = queue[k].load => l = k
        /\ Mine(queue[k].load, Tab(k), End)

Memory == \A p \in online : Backs(End, p, money[p], inv[p], box[p])

LedgerInv == Books /\ Registers /\ Links /\ Logins /\ Memory


-----------------------------------------------------------------------------
\* The tables now, one entry later, and in the end.
LEMMA TabFacts ==
    ASSUME TypeInv
    PROVE  /\ \A r \in RowNames : Tab(0)[r] = db[r]
           /\ \A n \in 0 .. Len(queue) - 1 : Tab(n + 1) = queue[n + 1].rows ++ Tab(n)
           /\ End = Tab(Len(queue)) /\ Len(queue) \in Nat
           /\ DOMAIN queue = 1 .. Len(queue)
           /\ \A k \in DOMAIN queue : Good(queue[k].rows) /\ DOMAIN queue[k].rows \subseteq RowNames
<1>1. queue \in Seq(EntryType) BY DEF TypeInv, TablesTyped
<1>2. Len(queue) \in Nat /\ DOMAIN queue = 1 .. Len(queue) BY <1>1, LenProperties
<1>3. ASSUME NEW k \in DOMAIN queue
      PROVE  Good(queue[k].rows) /\ DOMAIN queue[k].rows \subseteq RowNames
    <2>1. queue[k] \in EntryType BY <1>1
    <2> QED BY <2>1 DEF EntryType, Good, Typed
<1>4. \A r \in RowNames : Tab(0)[r] = db[r] BY ValueNow DEF Tab, Value
<1>5. End = Tab(Len(queue)) BY <1>1, LatestIsLast DEF End, Tab
<1>6. ASSUME NEW n \in 0 .. Len(queue) - 1 PROVE Tab(n + 1) = queue[n + 1].rows ++ Tab(n)
    <2>1. n \in Nat /\ n + 1 \in DOMAIN queue BY <1>2
    <2>2. PICK f : f = queue[n + 1].rows OBVIOUS
    <2>3. DOMAIN f \subseteq RowNames BY <1>3, <2>1, <2>2
    <2>4. \A r : Value(n + 1, r) = IF r \in DOMAIN f THEN f[r] ELSE Value(n, r)
        BY <2>1, <2>2, ValueNext DEF Value
    <2>5. DOMAIN Tab(n) = RowNames /\ \A r \in RowNames : Tab(n)[r] = Value(n, r) BY DEF Tab
    <2>6. f ++ Tab(n) = [r \in RowNames |-> IF r \in DOMAIN f THEN f[r] ELSE Value(n, r)]
        <3>1. DOMAIN f \cup DOMAIN Tab(n) = RowNames BY <2>3, <2>5
        <3> QED BY <2>5, <3>1 DEF ++
    <2>7. Tab(n + 1) = [r \in RowNames |-> IF r \in DOMAIN f THEN f[r] ELSE Value(n, r)]
        BY <2>4 DEF Tab
    <2> QED BY <2>2, <2>6, <2>7
<1> QED BY <1>2, <1>3, <1>4, <1>5, <1>6

\* They are of the right type at each moment.
LEMMA TabGood ==
    ASSUME TypeInv
    PROVE  (\A n \in 0 .. Len(queue) : GoodTable(Tab(n))) /\ GoodTable(End)
<1>0. /\ \A r \in RowNames : Tab(0)[r] = db[r]
      /\ \A n \in 0 .. Len(queue) - 1 : Tab(n + 1) = queue[n + 1].rows ++ Tab(n)
      /\ End = Tab(Len(queue)) /\ Len(queue) \in Nat /\ DOMAIN queue = 1 .. Len(queue)
      /\ \A k \in DOMAIN queue : Good(queue[k].rows)
    BY TabFacts
<1> DEFINE P == {n \in Nat : n <= Len(queue) => GoodTable(Tab(n))}
<1>1. 0 \in P
    <2>1. GoodTable(db) BY DEF TypeInv, TablesTyped
    <2>2. PICK t : t = Tab(0) OBVIOUS
    <2>3. DOMAIN t = RowNames /\ \A r \in RowNames : t[r] = db[r] BY <1>0, <2>2 DEF Tab
    <2>4. Typed(t) BY <2>1, <2>3 DEF GoodTable, Typed
    <2>5. GoodTable(t) BY <2>1, <2>3, <2>4, RowKinds DEF GoodTable
    <2> QED BY <2>2, <2>5
<1>2. ASSUME NEW n \in Nat, n \in P PROVE n + 1 \in P
    <2> SUFFICES ASSUME n + 1 <= Len(queue) PROVE GoodTable(Tab(n + 1)) OBVIOUS
    <2>1. GoodTable(Tab(n)) /\ n \in 0 .. Len(queue) - 1 /\ n + 1 \in DOMAIN queue BY <1>0, <1>2
    <2>2. Good(queue[n + 1].rows) /\ Tab(n + 1) = queue[n + 1].rows ++ Tab(n) BY <1>0, <2>1
    <2> QED BY <2>1, <2>2, OverTable
<1> HIDE DEF P
<1>3. \A n \in Nat : n \in P BY <1>1, <1>2, SetInduction
<1> QED BY <1>0, <1>3 DEF P

\* Further entries es leave the tables before them; the first of the next ones
\* is made of the end.
LEMMA TabConcat ==
    ASSUME TypeInv, TypeInv', NEW es \in Seq(EntryType), queue' = queue \o es, db' = db
    PROVE  /\ \A n \in 0 .. Len(queue) : Tab(n)' = Tab(n)
           /\ \A n \in 1 .. Len(es) : \A k : k = Len(queue) + n => queue'[k] = es[n]
           /\ \A k \in DOMAIN queue : queue'[k] = queue[k]
           /\ Len(queue') = Len(queue) + Len(es) /\ Len(es) \in Nat
<1>1. queue \in Seq(EntryType) BY DEF TypeInv, TablesTyped
<1>2. \A r : \A n \in 0 .. Len(queue) : Value(n, r)' = Value(n, r) BY <1>1, ConcatValues
<1>3. \A n \in 0 .. Len(queue) : Tab(n)' = Tab(n) BY <1>2 DEF Tab
<1>4. /\ Len(queue) \in Nat /\ Len(es) \in Nat /\ DOMAIN queue = 1 .. Len(queue)
      /\ Len(queue') = Len(queue) + Len(es)
      /\ \A k \in 1 .. Len(queue) + Len(es) :
            queue'[k] = IF k <= Len(queue) THEN queue[k] ELSE es[k - Len(queue)]
    BY <1>1, ConcatProperties, LenProperties
<1> QED BY <1>3, <1>4

-----------------------------------------------------------------------------
(***************************************************************************)
(* One step of the tables, from t to u, in which player p moves what is    *)
(* his, or the auction house what is on sale.                              *)
(***************************************************************************)

\* Item i stays where it is; it goes to another place.
Stays(t, u, i) ==
    /\ u[ItemRow(i)] = t[ItemRow(i)] /\ u[MailItem(i)] = t[MailItem(i)]
    /\ u[GivenUp(i)] = t[GivenUp(i)]
    /\ u[AuctionRow(i)] = NoAuction <=> t[AuctionRow(i)] = NoAuction
    /\ \A m \in MailId : In(t, m, i) => u[MailRow(m)]
Moves(p, t, u, i) ==
    /\ \/ p # Nobody /\ t[ItemRow(i)] = p
       \/ t[AuctionRow(i)] # NoAuction
       \/ \E m \in MailId : In(t, m, i) /\ t[MailTo(m)].to = p
    /\ OnePlace(u, i)
    /\ \A m \in MailId : In(u, m, i) => u[MailRow(m)] /\ ~t[MailRow(m)]

\* No mail of a player exists if nobody can pay for one.
NoneNormal(t) ==
    \A m \in MailId : NobodyMails /\ t[MailTo(m)] \in AddressType => ~t[MailTo(m)].normal

TabStep(p, t, u) ==
    /\ \A q \in Player \ {p} : u[GoldRow(q)] = t[GoldRow(q)]
    /\ \A m \in MailId : t[MailRow(m)] /\ t[MailTo(m)].to # p =>
            /\ u[MailRow(m)] /\ u[MailTo(m)] = t[MailTo(m)]
            /\ u[MailMoney(m)] = t[MailMoney(m)]
    /\ \A i \in Item : Stays(t, u, i) \/ Moves(p, t, u, i)
    /\ \A m \in MailId, i, j \in Item :
            ~t[MailRow(m)] /\ In(u, m, i) /\ In(u, m, j) => i = j
    /\ NoneNormal(u)

\* The receiver of a mailed item is written with its mail or stays.
TabRegister(t, u) ==
    \A i \in Item, m \in MailId : In(u, m, i) =>
        \/ /\ In(t, m, i) /\ u[MailTo(m)] = t[MailTo(m)]
           /\ u[MailItemTo(i)] = t[MailItemTo(i)]
        \/ u[MailItemTo(i)] = u[MailTo(m)].to

\* Such a step keeps the ledger, and what the others have.
LEMMA StepKeeps ==
    ASSUME NEW p, NEW t, NEW u, Ledger(t), TabStep(p, t, u)
    PROVE  /\ Ledger(u)
           /\ \A q \in Player \ {p} : q # Nobody => Mine(q, t, u)
           /\ Registered(t) /\ TabRegister(t, u) => Registered(u)
<1>1. ASSUME NEW i \in Item, Stays(t, u, i)
      PROVE  OnePlace(u, i) /\ \A m : In(u, m, i) <=> In(t, m, i)
    BY <1>1 DEF Ledger, OnePlace, Stays, In
<1>2. ASSUME NEW i \in Item PROVE OnePlace(u, i) BY <1>1 DEF TabStep, Moves
<1>3. ASSUME NEW i \in Item, NEW m \in MailId, In(u, m, i) PROVE u[MailRow(m)]
    BY <1>1, <1>3 DEF TabStep, Moves, Stays
<1>4. ASSUME NEW i \in Item, NEW j \in Item, NEW m \in MailId, In(u, m, i), In(u, m, j) PROVE i = j
    <2>1. CASE ~t[MailRow(m)] BY <1>4, <2>1 DEF TabStep
    <2>2. CASE t[MailRow(m)]
        <3>1. Stays(t, u, i) /\ Stays(t, u, j) BY <1>4, <2>2 DEF TabStep, Moves
        <3>2. In(t, m, i) /\ In(t, m, j) BY <1>1, <1>4, <3>1
        <3> QED BY <3>2 DEF Ledger
    <2> QED BY <2>1, <2>2
<1>5. Ledger(u) BY <1>2, <1>3, <1>4 DEF Ledger, TabStep, NoneNormal
<1>6. ASSUME NEW q \in Player \ {p}, q # Nobody PROVE Mine(q, t, u)
    <2>1. u[GoldRow(q)] = t[GoldRow(q)] BY DEF TabStep
    <2>2. ASSUME NEW i \in Item, t[ItemRow(i)] = q PROVE u[ItemRow(i)] = q
        <3>1. t[ItemRow(i)] # Nobody /\ t[ItemRow(i)] # p BY <1>6, <2>2
        <3>2. t[AuctionRow(i)] = NoAuction /\ \A m \in MailId : ~In(t, m, i)
            BY <3>1 DEF Ledger, OnePlace
        <3>3. Stays(t, u, i) BY <3>1, <3>2 DEF TabStep, Moves
        <3> QED BY <2>2, <3>3 DEF Stays
    <2>3. ASSUME NEW m \in MailId, t[MailRow(m)], t[MailTo(m)].to = q
          PROVE  /\ u[MailRow(m)] /\ u[MailTo(m)] = t[MailTo(m)]
                 /\ u[MailMoney(m)] = t[MailMoney(m)]
                 /\ \A i \in Item : In(u, m, i) <=> In(t, m, i)
        <3>1. /\ u[MailRow(m)] /\ u[MailTo(m)] = t[MailTo(m)]
              /\ u[MailMoney(m)] = t[MailMoney(m)]
            BY <2>3 DEF TabStep
        <3>2. ASSUME NEW i \in Item, In(u, m, i) PROVE In(t, m, i)
            <4>1. Stays(t, u, i) BY <2>3, <3>2 DEF TabStep, Moves
            <4> QED BY <1>1, <3>2, <4>1
        <3>3. ASSUME NEW i \in Item, In(t, m, i) PROVE In(u, m, i)
            <4>1. t[ItemRow(i)] = Nobody /\ t[AuctionRow(i)] = NoAuction BY <3>3 DEF Ledger, OnePlace
            <4>2. CASE Stays(t, u, i) BY <1>1, <3>3, <4>2
            <4>3. CASE Moves(p, t, u, i)
                <5>1. PICK n \in MailId : In(t, n, i) /\ t[MailTo(n)].to = p BY <4>1, <4>3 DEF Moves
                <5>2. n = m BY <3>3, <5>1 DEF In
                <5> QED BY <2>3, <5>1, <5>2
            <4> QED BY <4>2, <4>3 DEF TabStep
        <3> QED BY <3>1, <3>2, <3>3
    <2> QED BY <2>1, <2>2, <2>3 DEF Mine
<1>7. Registered(t) /\ TabRegister(t, u) => Registered(u) BY DEF Registered, TabRegister
<1> QED BY <1>5, <1>6, <1>7

\* What a player has is kept over several steps, and so is what he sees of it.
LEMMA MineKept ==
    /\ \A q, t : Mine(q, t, t)
    /\ \A q, s, t, u : Mine(q, s, t) /\ Mine(q, t, u) => Mine(q, s, u)
    /\ \A q, t, u, g : \A s \in SUBSET Item : \A b : DOMAIN b \subseteq MailId =>
            (Backs(t, q, g, s, b) /\ Mine(q, t, u) => Backs(u, q, g, s, b))
<1>1. \A q, t : Mine(q, t, t) BY DEF Mine
<1>2. ASSUME NEW q, NEW s, NEW t, NEW u, Mine(q, s, t), Mine(q, t, u) PROVE Mine(q, s, u)
    BY <1>2 DEF Mine
<1>3. ASSUME NEW q, NEW t, NEW u, NEW g, NEW s \in SUBSET Item, NEW b, DOMAIN b \subseteq MailId,
             Backs(t, q, g, s, b), Mine(q, t, u)
      PROVE  Backs(u, q, g, s, b)
    <2>1. u[GoldRow(q)] = g /\ \A i \in s : u[ItemRow(i)] = q BY <1>3 DEF Backs, Mine
    <2>2. ASSUME NEW m \in DOMAIN b
          PROVE  /\ u[MailRow(m)] /\ u[MailTo(m)] = b[m].address /\ b[m].address.to = q
                 /\ u[MailMoney(m)] = b[m].money
                 /\ \A i \in Item : b[m].item = i <=> In(u, m, i)
        <3>1. /\ t[MailRow(m)] /\ t[MailTo(m)] = b[m].address /\ b[m].address.to = q
              /\ t[MailMoney(m)] = b[m].money /\ m \in MailId
              /\ \A i \in Item : b[m].item = i <=> In(t, m, i)
            BY <1>3 DEF Backs
        <3>2. t[MailTo(m)].to = q BY <3>1
        <3> QED BY <1>3, <3>1, <3>2 DEF Mine
    <2> QED BY <2>1, <2>2 DEF Backs
<1> QED BY <1>1, <1>2, <1>3

\* New entries at the end of the queue, none of them a query.
LEMMA QueueKeeps ==
    ASSUME TypeInv, TypeInv', LedgerInv, NEW es \in Seq(EntryType), queue' = queue \o es, db' = db,
           online' \subseteq online,
           \A k \in DOMAIN es : es[k].load = Nobody /\ Linked(es[k].rows),
           \A n \in Nat : n > Len(queue) /\ n <= Len(queue') =>
                /\ Ledger(Tab(n)')
                /\ Registered(Tab(n)') \/ (MaxCrashes = 0 /\ n < Len(queue')),
           \A k \in DOMAIN queue : queue[k].load # Nobody => Mine(queue[k].load, End, End')
    PROVE  (Books /\ Registers /\ Links /\ Logins)'
<1>1. /\ \A n \in 0 .. Len(queue) : Tab(n)' = Tab(n)
      /\ \A n \in 1 .. Len(es) : \A k : k = Len(queue) + n => queue'[k] = es[n]
      /\ \A k \in DOMAIN queue : queue'[k] = queue[k]
      /\ Len(queue') = Len(queue) + Len(es) /\ Len(es) \in Nat
    BY TabConcat
<1>2. /\ Len(queue) \in Nat /\ DOMAIN queue = 1 .. Len(queue) /\ DOMAIN es = 1 .. Len(es)
      /\ DOMAIN queue' = 1 .. Len(queue')
    <2>1. queue \in Seq(EntryType) /\ queue' \in Seq(EntryType) BY DEF TypeInv, TablesTyped
    <2> QED BY <2>1, LenProperties
<1>3. ASSUME NEW k \in DOMAIN queue'
      PROVE  \/ k \in DOMAIN queue /\ queue'[k] = queue[k]
             \/ k > Len(queue) /\ \E n \in DOMAIN es : queue'[k] = es[n]
    <2>1. CASE k <= Len(queue) BY <1>1, <1>2, <2>1
    <2>2. CASE k > Len(queue)
        <3>1. k - Len(queue) \in 1 .. Len(es) /\ k = Len(queue) + (k - Len(queue)) BY <1>1, <1>2, <2>2
        <3> QED BY <1>1, <1>2, <2>2, <3>1
    <2> QED BY <1>2, <2>1, <2>2
<1>4. Books'
    <2> SUFFICES ASSUME NEW n \in 0 .. Len(queue') PROVE Ledger(Tab(n)') BY Zenon DEF Books
    <2>1. CASE n <= Len(queue)
        <3>1. n \in 0 .. Len(queue) BY <1>2, <2>1
        <3> QED BY <1>1, <3>1 DEF LedgerInv, Books
    <2>2. CASE n > Len(queue) BY <1>1, <1>2, <2>2
    <2> QED BY <1>2, <2>1, <2>2
<1>5. Registers'
    <2> SUFFICES ASSUME NEW n \in 0 .. Len(queue')
                 PROVE  \/ Registered(Tab(n)')
                        \/ MaxCrashes = 0 /\ n < Len(queue') /\ queue'[n + 1].load = Nobody
        BY Zenon DEF Registers
    <2>1. CASE n <= Len(queue)
        <3>1. n \in 0 .. Len(queue) BY <1>2, <2>1
        <3>2. \/ Registered(Tab(n))
              \/ MaxCrashes = 0 /\ n < Len(queue) /\ queue[n + 1].load = Nobody
            BY <3>1 DEF LedgerInv, Registers
        <3>3. n < Len(queue) => n + 1 \in DOMAIN queue /\ n < Len(queue') BY <1>1, <1>2, <3>1
        <3> QED BY <1>1, <3>1, <3>2, <3>3
    <2>2. CASE n > Len(queue)
        <3>1. n \in Nat /\ n <= Len(queue') BY <1>1, <1>2
        <3>2. n < Len(queue') => n + 1 \in DOMAIN queue' /\ n + 1 \notin DOMAIN queue BY <1>1, <1>2, <2>2, <3>1
        <3>3. n < Len(queue') => queue'[n + 1].load = Nobody BY <1>3, <3>2
        <3> QED BY <2>2, <3>1, <3>3
    <2> QED BY <1>2, <2>1, <2>2
<1>6. Links'
    <2> SUFFICES ASSUME NEW k \in DOMAIN queue' PROVE Linked(queue'[k].rows) BY Zenon DEF Links
    <2> QED BY <1>3 DEF LedgerInv, Links
<1>7. Logins'
    <2> SUFFICES ASSUME NEW k \in DOMAIN queue', queue'[k].load # Nobody
                 PROVE  /\ queue'[k].load \notin online'
                        /\ \A l \in DOMAIN queue' : queue'[l].load = queue'[k].load => l = k
                        /\ Mine(queue'[k].load, Tab(k)', End')
        BY Zenon DEF Logins
    <2>1. k \in DOMAIN queue /\ queue'[k] = queue[k] BY <1>3
    <2>2. /\ queue[k].load \notin online
          /\ \A l \in DOMAIN queue : queue[l].load = queue[k].load => l = k
          /\ Mine(queue[k].load, Tab(k), End)
        BY <2>1 DEF LedgerInv, Logins
    <2>3. Tab(k)' = Tab(k) BY <1>1, <1>2, <2>1
    <2>4. Mine(queue[k].load, Tab(k), End') BY <2>1, <2>2, MineKept
    <2>5. ASSUME NEW l \in DOMAIN queue', queue'[l].load = queue'[k].load PROVE l = k
        BY <1>3, <2>1, <2>2, <2>5
    <2> QED BY <2>1, <2>2, <2>3, <2>4, <2>5
<1> QED BY <1>4, <1>5, <1>6, <1>7

\* One transaction of player p, or of the auction house.
LEMMA CommitLedger ==
    ASSUME TypeInv, TypeInv', LedgerInv, NEW f, Commit(f), db' = db, online' \subseteq online,
           Linked(f), NEW p, p \in online \cup {Nobody}, NEW u, u = f ++ End,
           TabStep(p, End, u), TabRegister(End, u)
    PROVE  /\ (Books /\ Registers /\ Links /\ Logins)' /\ End' = u
           /\ \A q \in online \ {p} : Backs(u, q, money[q], inv[q], box[q])
<1> DEFINE e == [load |-> Nobody, rows |-> f]
<1>1. e \in EntryType /\ queue' = Append(queue, e) /\ e.rows = f /\ e.load = Nobody BY Committed
<1> HIDE DEF e
<1>2. queue \in Seq(EntryType) /\ online \subseteq Player /\ Nobody \notin Player
    BY StoreAssumption DEF TypeInv, TablesTyped, PlayersTyped
<1>3. queue' = queue \o <<e>> /\ <<e>> \in Seq(EntryType) /\ Len(queue) \in Nat
    BY <1>1, <1>2, AppendIsConcat
<1>4. /\ \A r : Latest(r)' = IF r \in DOMAIN f THEN f[r] ELSE Latest(r)
      /\ \A r : \A n : n = Len(queue) + 1 => Value(n, r)' = Latest(r)'
      /\ Len(queue') = Len(queue) + 1
    BY <1>1, <1>2, AppendValues
<1>5. DOMAIN f \subseteq RowNames
    <2>1. Good(e.rows) BY <1>1 DEF EntryType
    <2> QED BY <1>1, <2>1 DEF Good, Typed
<1>6. End' = u
    <2>1. DOMAIN End = RowNames /\ \A r \in RowNames : End[r] = Latest(r) BY DEF End
    <2>2. DOMAIN f \cup DOMAIN End = RowNames BY <1>5, <2>1
    <2>3. u = [r \in RowNames |-> IF r \in DOMAIN f THEN f[r] ELSE Latest(r)]
        BY <2>1, <2>2 DEF ++
    <2>4. End' = [r \in RowNames |-> IF r \in DOMAIN f THEN f[r] ELSE Latest(r)]
        BY <1>4 DEF End
    <2> QED BY <2>3, <2>4
<1>7. \A n : n = Len(queue) + 1 => Tab(n)' = u
    <2>1. \A n : n = Len(queue) + 1 => Tab(n)' = End' BY <1>4 DEF Tab, End
    <2> QED BY <1>6, <2>1
<1>8. Ledger(End) /\ Registered(End)
    <2>1. End = Tab(Len(queue)) /\ Len(queue) \in 0 .. Len(queue) BY <1>3, TabFacts
    <2>2. ~(Len(queue) < Len(queue)) BY <1>3
    <2> QED BY <2>1, <2>2 DEF LedgerInv, Books, Registers
<1>9. /\ Ledger(u) /\ Registered(u)
      /\ \A q \in Player \ {p} : q # Nobody => Mine(q, End, u)
    BY <1>8, StepKeeps
<1>10. \A n \in Nat : n > Len(queue) /\ n <= Len(queue') => Ledger(Tab(n)') /\ Registered(Tab(n)')
    <2>1. \A n \in Nat : n > Len(queue) /\ n <= Len(queue') => n = Len(queue) + 1 BY <1>3, <1>4
    <2> QED BY <1>7, <1>9, <2>1
<1>11. ASSUME NEW k \in DOMAIN queue, queue[k].load # Nobody PROVE Mine(queue[k].load, End, End')
    <2>1. queue[k].load \notin online BY <1>11 DEF LedgerInv, Logins
    <2>2. queue[k] \in EntryType BY <1>2
    <2>3. queue[k].load \in Player \ {p} BY <1>11, <2>1, <2>2 DEF EntryType
    <2> QED BY <1>6, <1>9, <1>11, <2>3
<1>12. \A k \in DOMAIN <<e>> : <<e>>[k].load = Nobody /\ Linked(<<e>>[k].rows) BY <1>1
<1>13. (Books /\ Registers /\ Links /\ Logins)' BY <1>3, <1>10, <1>11, <1>12, QueueKeeps
<1>14. ASSUME NEW q \in online \ {p} PROVE Backs(u, q, money[q], inv[q], box[q])
    <2>1. q \in Player /\ q # Nobody BY <1>2
    <2>2. inv[q] \in SUBSET Item /\ DOMAIN box[q] \subseteq MailId
        BY <2>1, BoxFacts DEF TypeInv, PlayersTyped
    <2>3. Backs(End, q, money[q], inv[q], box[q]) BY DEF LedgerInv, Memory
    <2>4. Mine(q, End, u) BY <1>9, <2>1
    <2> QED BY <2>2, <2>3, <2>4, MineKept
<1> QED BY <1>6, <1>13, <1>14

-----------------------------------------------------------------------------
(***************************************************************************)
(* What a transaction of player p does to the tables, whichever it is: it  *)
(* sends the drafts ds, deletes the mails D, takes the money of the mails  *)
(* Z, and moves the items X.                                               *)
(***************************************************************************)

Sent(ds) == {Ids(ds)[n] : n \in DOMAIN ds}

Deed(p, t, u, ds, D, Z, X) ==
    /\ \A q \in Player \ {p} : u[GoldRow(q)] = t[GoldRow(q)]
    /\ \A n \in DOMAIN ds :
        /\ u[MailRow(Ids(ds)[n])] /\ u[MailTo(Ids(ds)[n])] = Address(ds[n])
        /\ u[MailMoney(Ids(ds)[n])] = ds[n].money
        /\ ds[n].item # NoItem => In(u, Ids(ds)[n], ds[n].item)
    /\ \A m \in MailId \ Sent(ds) :
        /\ u[MailTo(m)] = t[MailTo(m)]
        /\ m \notin Z => u[MailMoney(m)] = t[MailMoney(m)]
        /\ m \notin D => u[MailRow(m)] = t[MailRow(m)]
    /\ \A i \in Item \ X :
        /\ u[ItemRow(i)] = t[ItemRow(i)] /\ u[MailItem(i)] = t[MailItem(i)]
        /\ u[GivenUp(i)] = t[GivenUp(i)] /\ u[MailItemTo(i)] = t[MailItemTo(i)]
        /\ u[AuctionRow(i)] = NoAuction <=> t[AuctionRow(i)] = NoAuction
    /\ \A i \in Item \cap X :
        /\ OnePlace(u, i)
        /\ \A m \in MailId : In(u, m, i) =>
            \E n \in DOMAIN ds : m = Ids(ds)[n] /\ ds[n].item = i /\ u[MailItemTo(i)] = ds[n].to

\* They are his, or on sale.
Rightful(p, t, ds, D, Z, X) ==
    /\ D \cup Z \subseteq {m \in MailId : t[MailRow(m)] /\ t[MailTo(m)].to = p}
    /\ \A m \in D : \A i \in Item : In(t, m, i) => i \in X
    /\ \A i \in Item \cap X :
        \/ p # Nobody /\ t[ItemRow(i)] = p
        \/ t[AuctionRow(i)] # NoAuction
        \/ \E m \in MailId : In(t, m, i) /\ t[MailTo(m)].to = p
    /\ NobodyMails => \A n \in DOMAIN ds : ~ds[n].normal

\* No table to come has a mail with a free identifier.
LEMMA FreeLatest == ASSUME TypeInv, NEW m \in FreeIds PROVE End[MailRow(m)] = FALSE /\ m \in MailId
<1>1. m \in MailId /\ ~db[MailRow(m)] /\ \A k \in DOMAIN queue : MailRow(m) \notin DOMAIN queue[k].rows
    BY DEF FreeIds
<1>2. MailRow(m) \in RowNames BY <1>1, RowKinds
<1>3. queue \in Seq(EntryType) /\ DOMAIN db = RowNames /\ Typed(db)
    BY DEF TypeInv, TablesTyped, GoodTable
<1>4. db[MailRow(m)] \in {FALSE}
    <2>1. db[MailRow(m)] \in BOOLEAN BY <1>1, <1>3, TableTypes
    <2> QED BY <1>1, <2>1
<1>5. Latest(MailRow(m)) \in {FALSE} BY <1>1, <1>3, <1>4, LatestType
<1> QED BY <1>1, <1>2, <1>5 DEF End

\* The mails that are sent.
LEMMA SentFresh ==
    ASSUME TypeInv, NEW ds \in Seq(DraftType), CanSend(ds)
    PROVE  /\ \A n \in DOMAIN ds : Ids(ds)[n] \in MailId /\ ~End[MailRow(Ids(ds)[n])]
           /\ \A k, n \in DOMAIN ds : Ids(ds)[k] = Ids(ds)[n] => k = n
           /\ \A m \in MailId : End[MailRow(m)] => m \notin Sent(ds)
<1>1. \A n \in DOMAIN ds : Ids(ds)[n] \in FreeIds BY IdsFacts
<1>2. \A n \in DOMAIN ds : Ids(ds)[n] \in MailId /\ ~End[MailRow(Ids(ds)[n])] BY <1>1, FreeLatest
<1>3. \A k, n \in DOMAIN ds : Ids(ds)[k] = Ids(ds)[n] => k = n BY IdsFacts
<1> QED BY <1>2, <1>3 DEF Sent

\* Such a transaction is a step of the ledger.
LEMMA DeedKeeps ==
    ASSUME TypeInv, NEW ds \in Seq(DraftType), CanSend(ds), NEW p, NEW D, NEW Z, NEW X,
           NEW t, t = End, Ledger(t), NEW u, Deed(p, t, u, ds, D, Z, X), Rightful(p, t, ds, D, Z, X)
    PROVE  TabStep(p, t, u) /\ TabRegister(t, u)
<1>1. /\ \A n \in DOMAIN ds : Ids(ds)[n] \in MailId /\ ~t[MailRow(Ids(ds)[n])]
      /\ \A k, n \in DOMAIN ds : Ids(ds)[k] = Ids(ds)[n] => k = n
      /\ \A m \in MailId : t[MailRow(m)] => m \notin Sent(ds)
    BY SentFresh
<1>2. ASSUME NEW m \in MailId, t[MailRow(m)], t[MailTo(m)].to # p
      PROVE  /\ u[MailRow(m)] /\ u[MailTo(m)] = t[MailTo(m)]
             /\ u[MailMoney(m)] = t[MailMoney(m)]
    <2>1. m \notin Sent(ds) BY <1>1, <1>2
    <2>2. m \notin D /\ m \notin Z BY <1>2 DEF Rightful
    <2> QED BY <1>2, <2>1, <2>2 DEF Deed
<1>3. ASSUME NEW i \in Item, i \notin X PROVE Stays(t, u, i)
    <2>1. /\ u[ItemRow(i)] = t[ItemRow(i)] /\ u[MailItem(i)] = t[MailItem(i)]
          /\ u[GivenUp(i)] = t[GivenUp(i)]
          /\ u[AuctionRow(i)] = NoAuction <=> t[AuctionRow(i)] = NoAuction
        BY <1>3 DEF Deed
    <2>2. ASSUME NEW m \in MailId, In(t, m, i) PROVE u[MailRow(m)]
        <3>1. t[MailRow(m)] BY <2>2 DEF Ledger
        <3>2. m \notin D BY <1>3, <2>2 DEF Rightful
        <3>3. m \notin Sent(ds) BY <1>1, <3>1
        <3> QED BY <3>1, <3>2, <3>3 DEF Deed
    <2> QED BY <2>1, <2>2 DEF Stays
<1>4. ASSUME NEW i \in Item, i \in X PROVE Moves(p, t, u, i)
    <2>1. /\ \/ p # Nobody /\ t[ItemRow(i)] = p
             \/ t[AuctionRow(i)] # NoAuction
             \/ \E m \in MailId : In(t, m, i) /\ t[MailTo(m)].to = p
          /\ OnePlace(u, i)
        BY <1>4 DEF Rightful, Deed
    <2>2. ASSUME NEW m \in MailId, In(u, m, i) PROVE u[MailRow(m)] /\ ~t[MailRow(m)]
        <3>1. PICK n \in DOMAIN ds : m = Ids(ds)[n] BY <1>4, <2>2 DEF Deed
        <3> QED BY <1>1, <3>1 DEF Deed
    <2> QED BY <2>1, <2>2 DEF Moves
<1>5. ASSUME NEW i \in Item, NEW m \in MailId, In(u, m, i), i \notin X
      PROVE  In(t, m, i) /\ t[MailRow(m)]
    <2>1. In(t, m, i) BY <1>5 DEF Deed, In
    <2> QED BY <2>1 DEF Ledger
<1>6. ASSUME NEW i \in Item, NEW m \in MailId, In(u, m, i), i \in X
      PROVE  \E n \in DOMAIN ds : m = Ids(ds)[n] /\ ds[n].item = i /\ u[MailItemTo(i)] = ds[n].to
    BY <1>6 DEF Deed
<1>7. ASSUME NEW i \in Item, NEW j \in Item, NEW m \in MailId,
             ~t[MailRow(m)], In(u, m, i), In(u, m, j)
      PROVE  i = j
    <2>1. i \in X /\ j \in X BY <1>5, <1>7
    <2>2. PICK n \in DOMAIN ds : m = Ids(ds)[n] /\ ds[n].item = i BY <1>6, <1>7, <2>1
    <2>3. PICK k \in DOMAIN ds : m = Ids(ds)[k] /\ ds[k].item = j BY <1>6, <1>7, <2>1
    <2>4. n = k BY <1>1, <2>2, <2>3
    <2> QED BY <2>2, <2>3, <2>4
<1>8. NoneNormal(u)
    <2> SUFFICES ASSUME NEW m \in MailId, NobodyMails, u[MailTo(m)] \in AddressType
                 PROVE  ~u[MailTo(m)].normal
        BY DEF NoneNormal
    <2>1. CASE m \in Sent(ds)
        <3>1. PICK n \in DOMAIN ds : m = Ids(ds)[n] BY <2>1 DEF Sent
        <3>2. u[MailTo(m)] = Address(ds[n]) BY <3>1 DEF Deed
        <3>3. ~ds[n].normal BY DEF Rightful
        <3> QED BY <3>2, <3>3 DEF Address
    <2>2. CASE m \notin Sent(ds)
        <3>1. u[MailTo(m)] = t[MailTo(m)] BY <2>2 DEF Deed
        <3> QED BY <3>1 DEF Ledger
    <2> QED BY <2>1, <2>2
<1>9. TabStep(p, t, u)
    <2>1. \A q \in Player \ {p} : u[GoldRow(q)] = t[GoldRow(q)] BY DEF Deed
    <2> QED BY <1>2, <1>3, <1>4, <1>7, <1>8, <2>1 DEF TabStep
<1>10. TabRegister(t, u)
    <2> SUFFICES ASSUME NEW i \in Item, NEW m \in MailId, In(u, m, i)
                 PROVE  \/ /\ In(t, m, i) /\ u[MailTo(m)] = t[MailTo(m)]
                           /\ u[MailItemTo(i)] = t[MailItemTo(i)]
                        \/ u[MailItemTo(i)] = u[MailTo(m)].to
        BY DEF TabRegister
    <2>1. CASE i \notin X
        <3>1. In(t, m, i) /\ m \notin Sent(ds) BY <1>1, <1>5, <2>1
        <3> QED BY <2>1, <3>1 DEF Deed
    <2>2. CASE i \in X
        <3>1. PICK n \in DOMAIN ds : m = Ids(ds)[n] /\ u[MailItemTo(i)] = ds[n].to BY <1>6, <2>2
        <3>2. u[MailTo(m)] = Address(ds[n]) BY <3>1 DEF Deed
        <3> QED BY <3>1, <3>2 DEF Address
    <2> QED BY <2>1, <2>2
<1> QED BY <1>9, <1>10

\* Box b of player q has the mails of box a and those that the drafts ds send him.
Delivered(b, a, ds, q) ==
    \A m \in DOMAIN b :
        \/ m \in DOMAIN a /\ b[m] = a[m]
        \/ \E n \in DOMAIN ds :
            /\ m = Ids(ds)[n] /\ ds[n].to = q
            /\ b[m].address = Address(ds[n]) /\ b[m].money = ds[n].money /\ b[m].item = ds[n].item

\* That is what SendMailTo does to a mailbox.
LEMMA DeliverAdds ==
    ASSUME NEW bx, NEW D, NEW ds \in Seq(D), CanSend(ds), NEW q \in Player
    PROVE  Delivered(Deliver(bx, ds)[q], bx[q], ds, q)
<1> DEFINE News == {Ids(ds)[k] : k \in {n \in DOMAIN ds : ds[n].to = q}}
           nth(m) == CHOOSE n \in DOMAIN ds : Ids(ds)[n] = m
           mail(d) == [address |-> Address(d), money |-> d.money, cod |-> d.cod,
                       item |-> d.item, deleted |-> FALSE]
           fresh == [m \in News |-> mail(ds[nth(m)])]
<1>1. Deliver(bx, ds)[q] = IF q \notin online THEN bx[q] ELSE bx[q] ++ fresh
    BY Zenon DEF Deliver
<1>2. \A k, n \in DOMAIN ds : Ids(ds)[k] = Ids(ds)[n] => k = n BY IdsFacts
<1>3. ASSUME NEW m \in News
      PROVE  \E n \in DOMAIN ds : m = Ids(ds)[n] /\ ds[n].to = q /\ fresh[m] = mail(ds[n])
    <2>1. PICK n \in DOMAIN ds : m = Ids(ds)[n] /\ ds[n].to = q OBVIOUS
    <2>2. nth(m) \in DOMAIN ds /\ Ids(ds)[nth(m)] = m BY <2>1
    <2> HIDE DEF nth
    <2>3. nth(m) = n BY <1>2, <2>1, <2>2
    <2>4. fresh[m] = mail(ds[n]) BY <2>3
    <2> QED BY <2>1, <2>4
<1>4. \A d : mail(d).address = Address(d) /\ mail(d).money = d.money /\ mail(d).item = d.item OBVIOUS
<1>5. DOMAIN fresh = News OBVIOUS
<1> HIDE DEF fresh, News, mail
<1>6. CASE q \notin online BY <1>1, <1>6 DEF Delivered
<1>7. CASE q \in online
    <2>1. PICK b : b = bx[q] ++ fresh OBVIOUS
    <2>2. \A m \in DOMAIN b : (m \in DOMAIN bx[q] /\ b[m] = bx[q][m]) \/ (m \in News /\ b[m] = fresh[m])
        BY <1>5, <2>1 DEF ++
    <2>3. Deliver(bx, ds)[q] = b BY <1>1, <1>7, <2>1
    <2>4. Delivered(b, bx[q], ds, q) BY <1>3, <1>4, <2>2 DEF Delivered
    <2> QED BY <2>3, <2>4
<1> QED BY <1>6, <1>7

\* The tables hold the mails that are sent, for every player in the world.
LEMMA DeliverBacks ==
    ASSUME TypeInv, NEW ds \in Seq(DraftType), CanSend(ds), NEW p, NEW D, NEW Z, NEW X,
           NEW t, t = End, Ledger(t), NEW u, Deed(p, t, u, ds, D, Z, X),
           NEW q \in Player, NEW g, NEW s, NEW a, Backs(u, q, g, s, a), NEW b, Delivered(b, a, ds, q)
    PROVE  Backs(u, q, g, s, b)
<1>1. /\ \A n \in DOMAIN ds : Ids(ds)[n] \in MailId /\ ~t[MailRow(Ids(ds)[n])]
      /\ \A k, n \in DOMAIN ds : Ids(ds)[k] = Ids(ds)[n] => k = n
      /\ \A n \in DOMAIN ds : ds[n] \in DraftType
    BY SentFresh
<1>2. ASSUME NEW m \in DOMAIN b
      PROVE  /\ u[MailRow(m)] /\ u[MailTo(m)] = b[m].address /\ b[m].address.to = q
             /\ u[MailMoney(m)] = b[m].money
             /\ \A i \in Item : b[m].item = i <=> In(u, m, i)
    <2>1. CASE m \in DOMAIN a /\ b[m] = a[m] BY <2>1 DEF Backs
    <2>2. ASSUME NEW n \in DOMAIN ds, m = Ids(ds)[n], ds[n].to = q,
                 b[m].address = Address(ds[n]), b[m].money = ds[n].money, b[m].item = ds[n].item
          PROVE  /\ u[MailRow(m)] /\ u[MailTo(m)] = b[m].address /\ b[m].address.to = q
                 /\ u[MailMoney(m)] = b[m].money
                 /\ \A i \in Item : b[m].item = i <=> In(u, m, i)
        <3>1. /\ u[MailRow(m)] /\ u[MailTo(m)] = b[m].address /\ u[MailMoney(m)] = b[m].money
              /\ ds[n].item # NoItem => In(u, m, ds[n].item)
            BY <2>2 DEF Deed
        <3>2. b[m].address.to = q BY <2>2 DEF Address
        <3>3. ASSUME NEW i \in Item, b[m].item = i PROVE In(u, m, i)
            BY <2>2, <3>1, <3>3, MailAssumption
        <3>4. ASSUME NEW i \in Item, In(u, m, i) PROVE b[m].item = i
            <4>1. m \in MailId /\ ~t[MailRow(m)] BY <1>1, <2>2
            <4>2. i \in X
                <5>1. SUFFICES ASSUME i \notin X PROVE FALSE OBVIOUS
                <5>2. In(t, m, i) BY <3>4, <5>1 DEF Deed, In
                <5> QED BY <4>1, <5>2 DEF Ledger
            <4>3. PICK k \in DOMAIN ds : m = Ids(ds)[k] /\ ds[k].item = i
                BY <3>4, <4>1, <4>2 DEF Deed
            <4>4. k = n BY <1>1, <2>2, <4>3
            <4> QED BY <2>2, <4>3, <4>4
        <3> QED BY <3>1, <3>2, <3>3, <3>4
    <2> QED BY <2>1, <2>2 DEF Delivered
<1> QED BY <1>2 DEF Backs

\* What p has left of his mailbox b is the box a: without the deleted mails, the
\* money taken and the items moved.
Remains(a, b, D, Z, X) ==
    \A m \in DOMAIN a :
        /\ m \in DOMAIN b /\ m \notin D /\ a[m].address = b[m].address
        /\ IF m \in Z THEN a[m].money = 0 ELSE a[m].money = b[m].money
        /\ \A i \in Item : a[m].item = i <=> b[m].item = i /\ i \notin X

\* The tables hold that.
LEMMA OwnBacks ==
    ASSUME TypeInv, NEW ds \in Seq(DraftType), CanSend(ds), NEW p, NEW D, NEW Z, NEW X,
           NEW t, t = End, Ledger(t), NEW u, Deed(p, t, u, ds, D, Z, X),
           \A m \in Z : u[MailMoney(m)] = 0, NEW g0, NEW s0, NEW b, Backs(t, p, g0, s0, b),
           DOMAIN b \subseteq MailId, NEW a, Remains(a, b, D, Z, X),
           NEW g, u[GoldRow(p)] = g, NEW s, \A i \in s : u[ItemRow(i)] = p
    PROVE  Backs(u, p, g, s, a)
<1>1. /\ \A n \in DOMAIN ds : Ids(ds)[n] \in MailId /\ ~t[MailRow(Ids(ds)[n])]
      /\ \A m \in MailId : t[MailRow(m)] => m \notin Sent(ds)
    BY SentFresh
<1>2. ASSUME NEW m \in DOMAIN a
      PROVE  /\ u[MailRow(m)] /\ u[MailTo(m)] = a[m].address /\ a[m].address.to = p
             /\ u[MailMoney(m)] = a[m].money
             /\ \A i \in Item : a[m].item = i <=> In(u, m, i)
    <2>1. /\ m \in DOMAIN b /\ m \in MailId /\ m \notin D /\ a[m].address = b[m].address
          /\ m \in Z => a[m].money = 0
          /\ m \notin Z => a[m].money = b[m].money
        BY DEF Remains
    <2>2. /\ t[MailRow(m)] /\ t[MailTo(m)] = b[m].address /\ b[m].address.to = p
          /\ t[MailMoney(m)] = b[m].money /\ \A i \in Item : b[m].item = i <=> In(t, m, i)
        BY <2>1 DEF Backs
    <2>3. m \notin Sent(ds) BY <1>1, <2>1, <2>2
    <2>4. u[MailTo(m)] = t[MailTo(m)] /\ u[MailRow(m)] = t[MailRow(m)] BY <2>1, <2>3 DEF Deed
    <2>5. u[MailMoney(m)] = a[m].money BY <2>1, <2>2, <2>3 DEF Deed
    <2>6. ASSUME NEW i \in Item PROVE a[m].item = i <=> In(u, m, i)
        <3>1. a[m].item = i <=> b[m].item = i /\ i \notin X BY DEF Remains
        <3>2. CASE i \notin X
            <4>1. In(u, m, i) <=> In(t, m, i) BY <3>2 DEF Deed, In
            <4> QED BY <2>2, <3>1, <3>2, <4>1
        <3>3. CASE i \in X
            <4>1. SUFFICES ASSUME In(u, m, i) PROVE FALSE BY <3>1, <3>3
            <4>2. PICK n \in DOMAIN ds : m = Ids(ds)[n] BY <2>1, <3>3, <4>1 DEF Deed
            <4> QED BY <1>1, <2>2, <4>2
        <3> QED BY <3>2, <3>3
    <2> QED BY <2>1, <2>2, <2>4, <2>5, <2>6
<1> QED BY <1>2 DEF Backs

\* A transaction of player p, or of the auction house, keeps the ledger.
LEMMA DeedLedger ==
    ASSUME TypeInv, TypeInv', LedgerInv, NEW f, Commit(f), db' = db, online' \subseteq online, Linked(f),
           NEW p, p \in online \cup {Nobody}, NEW ds \in Seq(DraftType), CanSend(ds),
           NEW D, NEW Z, NEW X, NEW u, u = f ++ End,
           Deed(p, End, u, ds, D, Z, X), Rightful(p, End, ds, D, Z, X),
           NEW bx,
           \A q \in online' \ {p} : bx[q] = box[q] /\ money'[q] = money[q] /\ inv'[q] = inv[q],
           \A q \in online' : Delivered(box'[q], bx[q], ds, q),
           p \in online' =>
                /\ Remains(bx[p], box[p], D, Z, X) /\ \A m \in Z : u[MailMoney(m)] = 0
                /\ u[GoldRow(p)] = money'[p] /\ \A i \in inv'[p] : u[ItemRow(i)] = p
    PROVE  LedgerInv'
<1>1. Ledger(End)
    <2>1. End = Tab(Len(queue)) /\ Len(queue) \in 0 .. Len(queue) BY TabFacts
    <2> QED BY <2>1 DEF LedgerInv, Books
<1>2. PICK t : t = End OBVIOUS
<1>3. TabStep(p, End, u) /\ TabRegister(End, u) BY <1>1, <1>2, DeedKeeps
<1>4. /\ (Books /\ Registers /\ Links /\ Logins)' /\ End' = u
      /\ \A q \in online \ {p} : Backs(u, q, money[q], inv[q], box[q])
    BY <1>3, CommitLedger
<1>5. online \subseteq Player /\ Nobody \notin Player BY StoreAssumption DEF TypeInv, PlayersTyped
<1>6. ASSUME NEW q \in online' PROVE Backs(u, q, money'[q], inv'[q], box'[q])
    <2>1. Backs(u, q, money'[q], inv'[q], bx[q])
        <3>1. CASE q # p BY <1>4, <3>1
        <3>2. CASE q = p
            <4>1. Backs(End, p, money[p], inv[p], box[p]) BY <3>2 DEF LedgerInv, Memory
            <4>2. DOMAIN box[p] \subseteq MailId BY <1>5, <3>2, BoxFacts DEF TypeInv
            <4>3. /\ Remains(bx[p], box[p], D, Z, X) /\ \A m \in Z : u[MailMoney(m)] = 0
                  /\ u[GoldRow(p)] = money'[p] /\ \A i \in inv'[p] : u[ItemRow(i)] = p
                BY <3>2
            <4>4. PICK g, s, a, b, g0, s0 :
                    g = money'[p] /\ s = inv'[p] /\ a = bx[p] /\ b = box[p] /\ g0 = money[p] /\ s0 = inv[p]
                OBVIOUS
            <4>5. /\ Backs(t, p, g0, s0, b) /\ DOMAIN b \subseteq MailId /\ Remains(a, b, D, Z, X)
                  /\ \A m \in Z : u[MailMoney(m)] = 0
                  /\ u[GoldRow(p)] = g /\ \A i \in s : u[ItemRow(i)] = p
                  /\ Ledger(t) /\ Deed(p, t, u, ds, D, Z, X)
                BY <1>1, <1>2, <4>1, <4>2, <4>3, <4>4
            <4>6. Backs(u, p, g, s, a) BY <1>2, <4>5, OwnBacks
            <4> QED BY <3>2, <4>4, <4>6
        <3> QED BY <3>1, <3>2
    <2>2. q \in Player /\ Delivered(box'[q], bx[q], ds, q) BY <1>5
    <2> QED BY <1>1, <2>1, <2>2, DeliverBacks
<1>7. Memory'
    <2> SUFFICES ASSUME NEW q \in online' PROVE Backs(End', q, money'[q], inv'[q], box'[q])
        BY Zenon DEF Memory
    <2> QED BY <1>4, <1>6
<1> QED BY <1>4, <1>7 DEF LedgerInv

-----------------------------------------------------------------------------
(***************************************************************************)
(* The value that a transaction gives a row, or v if it does not write it. *)
(***************************************************************************)

At(f, r, v) == IF r \in DOMAIN f THEN f[r] ELSE v
Only(f, kinds) == \A r \in DOMAIN f : r[1] \in kinds

\* Transactions that are put together, statements, and tables after them.
LEMMA AtFacts ==
    /\ \A f, g, r, v : At(f ++ g, r, v) = At(f, r, At(g, r, v))
    /\ \A f, r, v, K : Only(f, K) /\ r[1] \notin K => At(f, r, v) = v
    /\ \A x, y, r, v : At(Write(x, y), r, v) = IF r = x THEN y ELSE v
    /\ \A f, t : DOMAIN t = RowNames => \A r \in RowNames : (f ++ t)[r] = At(f, r, t[r])
<1>1. ASSUME NEW f, NEW g, NEW r, NEW v PROVE At(f ++ g, r, v) = At(f, r, At(g, r, v))
    <2>1. PICK h : h = f ++ g OBVIOUS
    <2>2. /\ DOMAIN h = DOMAIN f \cup DOMAIN g /\ (r \in DOMAIN f => h[r] = f[r])
          /\ r \in DOMAIN g /\ r \notin DOMAIN f => h[r] = g[r]
        BY <2>1 DEF ++
    <2> QED BY <2>1, <2>2 DEF At
<1>2. \A f, r, v, K : Only(f, K) /\ r[1] \notin K => At(f, r, v) = v BY DEF At, Only
<1>3. ASSUME NEW x, NEW y, NEW r, NEW v PROVE At(Write(x, y), r, v) = IF r = x THEN y ELSE v
    <2>1. PICK h : h = Write(x, y) OBVIOUS
    <2>2. DOMAIN h = {x} /\ h[x] = y BY <2>1, Single
    <2> QED BY <2>1, <2>2 DEF At
<1>4. ASSUME NEW f, NEW t, DOMAIN t = RowNames, NEW r \in RowNames PROVE (f ++ t)[r] = At(f, r, t[r])
    <2>1. /\ r \in DOMAIN f => (f ++ t)[r] = f[r]
          /\ r \notin DOMAIN f => (f ++ t)[r] = t[r]
        BY <1>4 DEF ++
    <2> QED BY <2>1 DEF At
<1> QED BY <1>1, <1>2, <1>3, <1>4

\* The kinds of the rows of each part of a transaction.
LEMMA PartKinds ==
    /\ \A p, m : Only(GoldRows({p}, m), {"gold"})
    /\ \A g : Only(Fee(g), {"fees"})
    /\ \A i, v : Only(Write(ItemRow(i), v), {"item"})
    /\ \A i, v : Only(Write(AuctionRow(i), v), {"auction"})
    /\ \A i : Only(AuctionGone(i), {"auction"})
    /\ \A i, v : Only(Write(BidRow(i), v), {"auction_bid"})
    /\ \A m, v : Only(Write(MailMoney(m), v), {"mail_money"})
    /\ \A m, v : Only(Write(MailCod(m), v), {"mail_cod"})
    /\ \A m, v : Only(Write(MailRow(m), v), {"mail"})
    /\ \A i, v : Only(Write(MailItem(i), v), {"mail_item"})
<1>1. ASSUME NEW x, NEW y, NEW k, x[1] = k PROVE Only(Write(x, y), {k})
    <2>1. DOMAIN Write(x, y) = {x} BY Single
    <2> QED BY <1>1, <2>1 DEF Only
<1>2. \A p, m : Only(GoldRows({p}, m), {"gold"}) BY RowKeys DEF GoldRows, Only
<1>3. Fees[1] = "fees" BY RowKeys
<1>4. \A g : Only(Fee(g), {"fees"}) BY <1>1, <1>3 DEF Fee
<1>5. \A i, v : Only(Write(ItemRow(i), v), {"item"}) BY <1>1, RowKeys
<1>6. \A i, v : Only(Write(AuctionRow(i), v), {"auction"}) BY <1>1, RowKeys
<1>7. \A i : Only(AuctionGone(i), {"auction"}) BY <1>6 DEF AuctionGone
<1>8. \A i, v : Only(Write(BidRow(i), v), {"auction_bid"}) BY <1>1, RowKeys
<1>9. \A m, v : Only(Write(MailMoney(m), v), {"mail_money"}) BY <1>1, RowKeys
<1>10. \A m, v : Only(Write(MailCod(m), v), {"mail_cod"}) BY <1>1, RowKeys
<1>11. \A m, v : Only(Write(MailRow(m), v), {"mail"}) BY <1>1, RowKeys
<1>12. \A i, v : Only(Write(MailItem(i), v), {"mail_item"}) BY <1>1, RowKeys
<1> QED BY <1>2, <1>4, <1>5, <1>6, <1>7, <1>8, <1>9, <1>10, <1>11, <1>12

\* The money of a player.
LEMMA GoldAt ==
    ASSUME NEW p, NEW m
    PROVE  \A q, v : At(GoldRows({p}, m), GoldRow(q), v) = IF q = p THEN m[p] ELSE v
<1>1. GoldRows({p}, m) = Write(GoldRow(p), m[p]) BY RowKeys DEF GoldRows, Write
<1>2. \A q : GoldRow(q) = GoldRow(p) <=> q = p BY RowKeys
<1> QED BY <1>1, <1>2, AtFacts

MailKinds == {"mail", "mail_to", "mail_money", "mail_cod", "mail_item", "mail_item_to"}

\* S writes what the drafts ds say, and nothing else of mails and their items.
SendsAll(S, ds) ==
    \A n \in DOMAIN ds : \A v :
        /\ At(S, MailRow(Ids(ds)[n]), v) = TRUE
        /\ At(S, MailTo(Ids(ds)[n]), v) = Address(ds[n])
        /\ At(S, MailMoney(Ids(ds)[n]), v) = ds[n].money
        /\ ds[n].item # NoItem => /\ At(S, MailItem(ds[n].item), v) = Ids(ds)[n]
                                  /\ At(S, MailItemTo(ds[n].item), v) = ds[n].to
SendsNoMore(S, ds) ==
    /\ \A m, v : m \notin Sent(ds) =>
        /\ At(S, MailRow(m), v) = v /\ At(S, MailTo(m), v) = v /\ At(S, MailMoney(m), v) = v
    /\ \A i, v : (\A n \in DOMAIN ds : ds[n].item # i) =>
        At(S, MailItem(i), v) = v /\ At(S, MailItemTo(i), v) = v

\* The mails that are sent, and their items.
LEMMA SendAt ==
    ASSUME NEW ds \in Seq(DraftType), CanSend(ds), OneItem(ds), NEW S, S = SendRows(ds)
    PROVE  Only(S, MailKinds) /\ SendsAll(S, ds) /\ SendsNoMore(S, ds)
<1>1. /\ \A n \in DOMAIN ds : WritesMail(S, Ids(ds)[n], ds[n])
      /\ \A m : MailKeys(m) \cap DOMAIN S # {} => \E n \in DOMAIN ds : m = Ids(ds)[n]
    BY SentMails
<1>2. /\ \A n \in DOMAIN ds : ds[n].item # NoItem =>
            /\ {MailItem(ds[n].item), MailItemTo(ds[n].item)} \subseteq DOMAIN S
            /\ S[MailItem(ds[n].item)] = Ids(ds)[n] /\ S[MailItemTo(ds[n].item)] = ds[n].to
      /\ \A i : {MailItem(i), MailItemTo(i)} \cap DOMAIN S # {} =>
            \E n \in DOMAIN ds : ds[n].item = i /\ i # NoItem
      /\ \A r \in DOMAIN S : r[1] \in MailKinds
    BY SentItems DEF MailKinds
<1>3. Only(S, MailKinds) BY <1>2 DEF Only
<1>4. \A n \in DOMAIN ds : \A v :
        /\ At(S, MailRow(Ids(ds)[n]), v) = TRUE /\ At(S, MailTo(Ids(ds)[n]), v) = Address(ds[n])
        /\ At(S, MailMoney(Ids(ds)[n]), v) = ds[n].money
    BY <1>1 DEF WritesMail, MailKeys, At
<1>5. \A m : m \notin Sent(ds) =>
        MailRow(m) \notin DOMAIN S /\ MailTo(m) \notin DOMAIN S /\ MailMoney(m) \notin DOMAIN S
    BY <1>1 DEF Sent, MailKeys
<1>6. \A m, v : m \notin Sent(ds) =>
        /\ At(S, MailRow(m), v) = v /\ At(S, MailTo(m), v) = v /\ At(S, MailMoney(m), v) = v
    BY <1>5 DEF At
<1>7. \A n \in DOMAIN ds : \A v : ds[n].item # NoItem =>
        /\ At(S, MailItem(ds[n].item), v) = Ids(ds)[n] /\ At(S, MailItemTo(ds[n].item), v) = ds[n].to
    BY <1>2 DEF At
<1>8. \A i, v : (\A n \in DOMAIN ds : ds[n].item # i) =>
        At(S, MailItem(i), v) = v /\ At(S, MailItemTo(i), v) = v
    BY <1>2 DEF At
<1>9. SendsAll(S, ds) BY <1>4, <1>7 DEF SendsAll
<1>10. SendsNoMore(S, ds) BY <1>6, <1>8 DEF SendsNoMore
<1> QED BY <1>3, <1>9, <1>10

\* The items of the mails ms of player p.
ItemsIn(p, ms) == {box[p][m].item : m \in ms} \ {NoItem}

\* What S writes of the mails ms of player p: all that their deletion takes, and
\* nothing else.
DeletesAll(S, p, ms) ==
    /\ \A m \in ms : \A v : At(S, MailRow(m), v) = FALSE
    /\ \A i \in ItemsIn(p, ms) : \A v : At(S, MailItem(i), v) = NoMail
    /\ \A i \in ItemsIn(p, ms) : \A v : At(S, GivenUp(i), v) = TRUE
DeletesNoMore(S, p, ms) ==
    /\ \A m, v : m \notin ms => At(S, MailRow(m), v) = v
    /\ \A i, v : i \notin ItemsIn(p, ms) => At(S, MailItem(i), v) = v
    /\ \A i, v : i \notin ItemsIn(p, ms) => At(S, GivenUp(i), v) = v

\* Mails that are deleted with their items.
LEMMA DeleteAt ==
    ASSUME NEW p, NEW ms, NEW S, S = DeleteRows(p, ms)
    PROVE  Only(S, {"mail", "mail_item", "given_up"}) /\ DeletesAll(S, p, ms) /\ DeletesNoMore(S, p, ms)
<1> DEFINE items == ItemsIn(p, ms)
           a == [r \in {MailRow(m) : m \in ms} |-> FALSE]
           b == [r \in {MailItem(i) : i \in items} |-> NoMail]
           c == [r \in {GivenUp(i) : i \in items} |-> TRUE]
<1>1. S = (a ++ b) ++ c BY Zenon DEF DeleteRows, ItemsIn
<1> HIDE DEF items
<1>2. /\ Only(a, {"mail"}) /\ \A m, v : At(a, MailRow(m), v) = IF m \in ms THEN FALSE ELSE v
    <2>1. \A m : MailRow(m) \in DOMAIN a <=> m \in ms BY RowKeys
    <2>2. \A m \in ms : a[MailRow(m)] = FALSE OBVIOUS
    <2>3. \A r \in DOMAIN a : r[1] = "mail" BY RowKeys
    <2> HIDE DEF a
    <2> QED BY <2>1, <2>2, <2>3 DEF At, Only
<1>3. /\ Only(b, {"mail_item"}) /\ \A i, v : At(b, MailItem(i), v) = IF i \in items THEN NoMail ELSE v
    <2>1. \A i : MailItem(i) \in DOMAIN b <=> i \in items BY RowKeys
    <2>2. \A i \in items : b[MailItem(i)] = NoMail OBVIOUS
    <2>3. \A r \in DOMAIN b : r[1] = "mail_item" BY RowKeys
    <2> HIDE DEF b
    <2> QED BY <2>1, <2>2, <2>3 DEF At, Only
<1>4. /\ Only(c, {"given_up"}) /\ \A i, v : At(c, GivenUp(i), v) = IF i \in items THEN TRUE ELSE v
    <2>1. \A i : GivenUp(i) \in DOMAIN c <=> i \in items BY RowKeys
    <2>2. \A i \in items : c[GivenUp(i)] = TRUE OBVIOUS
    <2>3. \A r \in DOMAIN c : r[1] = "given_up" BY RowKeys
    <2> HIDE DEF c
    <2> QED BY <2>1, <2>2, <2>3 DEF At, Only
<1> HIDE DEF a, b, c
<1>5. \A r, v : At(S, r, v) = At(a, r, At(b, r, At(c, r, v))) BY <1>1, AtFacts
<1>6. Only(S, {"mail", "mail_item", "given_up"})
    <2>1. DOMAIN S = DOMAIN (a ++ b) \cup DOMAIN c BY <1>1, Over, Zenon
    <2>2. DOMAIN (a ++ b) = DOMAIN a \cup DOMAIN b BY Over, Zenon
    <2> QED BY <1>2, <1>3, <1>4, <2>1, <2>2 DEF Only
<1>7. \A m, v : At(S, MailRow(m), v) = IF m \in ms THEN FALSE ELSE v
    <2>1. \A m, v : At(b, MailRow(m), v) = v /\ At(c, MailRow(m), v) = v
        BY <1>3, <1>4, RowKeys, AtFacts
    <2>2. ASSUME NEW m, NEW v PROVE At(S, MailRow(m), v) = At(a, MailRow(m), v) BY <1>5, <2>1
    <2> QED BY <1>2, <2>2, Zenon
<1>8. \A i, v : At(S, MailItem(i), v) = IF i \in items THEN NoMail ELSE v
    <2>1. \A i, v : At(a, MailItem(i), v) = v /\ At(c, MailItem(i), v) = v
        BY <1>2, <1>4, RowKeys, AtFacts
    <2> QED BY <1>3, <1>5, <2>1
<1>9. \A i, v : At(S, GivenUp(i), v) = IF i \in items THEN TRUE ELSE v
    <2>1. \A i, v : At(a, GivenUp(i), v) = v /\ At(b, GivenUp(i), v) = v
        BY <1>2, <1>3, RowKeys, AtFacts
    <2>2. ASSUME NEW i, NEW v PROVE At(S, GivenUp(i), v) = At(c, GivenUp(i), v) BY <1>5, <2>1
    <2> QED BY <1>4, <2>2, ZenonT(40)
<1>10. \A m \in ms : \A v : At(S, MailRow(m), v) = FALSE BY <1>7, Zenon
<1>11. \A m, v : m \notin ms => At(S, MailRow(m), v) = v BY <1>7, Zenon
<1>12. \A i \in items : \A v : At(S, GivenUp(i), v) = TRUE BY <1>9, Zenon
<1>13. \A i, v : i \notin items => At(S, MailItem(i), v) = v BY <1>8, Zenon
<1>14. \A i, v : i \notin items => At(S, GivenUp(i), v) = v BY <1>9, Zenon
<1>15. \A i \in items : \A v : At(S, MailItem(i), v) = NoMail BY <1>8, Zenon
<1>16. DeletesAll(S, p, ms) BY <1>10, <1>12, <1>15, Zenon DEF DeletesAll, items
<1>17. DeletesNoMore(S, p, ms) BY <1>11, <1>13, <1>14, Zenon DEF DeletesNoMore, items
<1> QED BY <1>6, <1>16, <1>17

\* Items and mails are linked in every part of a transaction.
LEMMA LinkedParts ==
    /\ \A f, g : Linked(f) /\ Linked(g) => Linked(f ++ g)
    /\ \A f, K : Only(f, K) /\ "mail_item" \notin K /\ "given_up" \notin K => Linked(f)
    /\ \A i : Linked(Write(MailItem(i), NoMail))
    /\ \A p, ms : Linked(DeleteRows(p, ms))
    /\ \A ds \in Seq(DraftType) : CanSend(ds) /\ OneItem(ds) => Linked(SendRows(ds))
<1>1. ASSUME NEW f, NEW g, Linked(f), Linked(g) PROVE Linked(f ++ g)
    <2>1. PICK h : h = f ++ g OBVIOUS
    <2>2. /\ DOMAIN h = DOMAIN f \cup DOMAIN g /\ \A r \in DOMAIN f : h[r] = f[r]
          /\ \A r \in DOMAIN g : r \notin DOMAIN f => h[r] = g[r]
        BY <2>1 DEF ++
    <2>3. Linked(h) BY <1>1, <2>2 DEF Linked
    <2> QED BY <2>1, <2>3
<1>2. ASSUME NEW f, NEW K, Only(f, K), "mail_item" \notin K, "given_up" \notin K PROVE Linked(f)
    <2>1. \A i : MailItem(i) \notin DOMAIN f /\ GivenUp(i) \notin DOMAIN f
        BY <1>2, RowKeys DEF Only
    <2> QED BY <2>1 DEF Linked
<1>3. ASSUME NEW i PROVE Linked(Write(MailItem(i), NoMail))
    <2>1. PICK h : h = Write(MailItem(i), NoMail) OBVIOUS
    <2>2. DOMAIN h = {MailItem(i)} /\ h[MailItem(i)] = NoMail BY <2>1, Single
    <2>3. \A j : GivenUp(j) \notin DOMAIN h BY <2>2, RowKeys
    <2>4. Linked(h) BY <2>2, <2>3 DEF Linked
    <2> QED BY <2>1, <2>4
<1>4. ASSUME NEW p, NEW ms PROVE Linked(DeleteRows(p, ms))
    <2>1. PICK h : h = DeleteRows(p, ms) OBVIOUS
    <2>2. DeletesAll(h, p, ms) /\ DeletesNoMore(h, p, ms) BY <2>1, DeleteAt
    <2>3. \A i : MailItem(i) \in DOMAIN h => h[MailItem(i)] = NoMail
        <3> SUFFICES ASSUME NEW i, MailItem(i) \in DOMAIN h PROVE h[MailItem(i)] = NoMail OBVIOUS
        <3>1. At(h, MailItem(i), NoMail) = h[MailItem(i)] BY DEF At
        <3>2. i \in ItemsIn(p, ms) => At(h, MailItem(i), NoMail) = NoMail BY <2>2 DEF DeletesAll
        <3>3. i \notin ItemsIn(p, ms) => At(h, MailItem(i), NoMail) = NoMail BY <2>2 DEF DeletesNoMore
        <3> QED BY <3>1, <3>2, <3>3
    <2>4. \A i : GivenUp(i) \in DOMAIN h => h[GivenUp(i)] = TRUE
        <3> SUFFICES ASSUME NEW i, GivenUp(i) \in DOMAIN h PROVE h[GivenUp(i)] = TRUE OBVIOUS
        <3>1. At(h, GivenUp(i), TRUE) = h[GivenUp(i)] BY DEF At
        <3>2. i \in ItemsIn(p, ms) => At(h, GivenUp(i), TRUE) = TRUE BY <2>2, Zenon DEF DeletesAll
        <3>3. i \notin ItemsIn(p, ms) => At(h, GivenUp(i), TRUE) = TRUE BY <2>2, Zenon DEF DeletesNoMore
        <3> QED BY <3>1, <3>2, <3>3, Zenon
    <2>5. Linked(h) BY <2>3, <2>4 DEF Linked
    <2> QED BY <2>1, <2>5
<1>5. ASSUME NEW ds \in Seq(DraftType), CanSend(ds), OneItem(ds) PROVE Linked(SendRows(ds))
    <2>1. PICK h : h = SendRows(ds) OBVIOUS
    <2>2. /\ \A n \in DOMAIN ds : ds[n].item # NoItem => h[MailItem(ds[n].item)] = Ids(ds)[n]
          /\ \A i : {MailItem(i), MailItemTo(i)} \cap DOMAIN h # {} =>
                \E n \in DOMAIN ds : ds[n].item = i /\ i # NoItem
          /\ \A r \in DOMAIN h : r[1] \in MailKinds
        BY <1>5, <2>1, SentItems DEF MailKinds
    <2>3. \A n \in DOMAIN ds : MailRow(Ids(ds)[n]) \in DOMAIN h
        BY <1>5, <2>1, SentMails DEF WritesMail, MailKeys
    <2>4. \A i : MailItem(i) \in DOMAIN h => MailRow(h[MailItem(i)]) \in DOMAIN h BY <2>2, <2>3
    <2>5. \A i : GivenUp(i) \notin DOMAIN h BY <2>2, RowKeys DEF MailKinds
    <2>6. Linked(h) BY <2>4, <2>5 DEF Linked
    <2> QED BY <2>1, <2>6
<1> QED BY <1>1, <1>2, <1>3, <1>4, <1>5

\* The rows that a part of a transaction leaves alone.
LEMMA AtOthers ==
    ASSUME NEW f, NEW K, Only(f, K), NEW x, NEW v
    PROVE  /\ "gold" \notin K => At(f, GoldRow(x), v) = v
           /\ "item" \notin K => At(f, ItemRow(x), v) = v
           /\ "mail" \notin K => At(f, MailRow(x), v) = v
           /\ "mail_to" \notin K => At(f, MailTo(x), v) = v
           /\ "mail_money" \notin K => At(f, MailMoney(x), v) = v
           /\ "mail_item" \notin K => At(f, MailItem(x), v) = v
           /\ "mail_item_to" \notin K => At(f, MailItemTo(x), v) = v
           /\ "given_up" \notin K => At(f, GivenUp(x), v) = v
           /\ "auction" \notin K => At(f, AuctionRow(x), v) = v
           /\ "auction_bid" \notin K => At(f, BidRow(x), v) = v
           /\ "fees" \notin K => At(f, Fees, v) = v
<1>1. \A r : r[1] \notin K => At(f, r, v) = v BY AtFacts
<1>2. PICK a, b, c, d, e, g, h, i, j, k :
        /\ a = GoldRow(x) /\ b = ItemRow(x) /\ c = MailRow(x) /\ d = MailTo(x) /\ e = MailMoney(x)
        /\ g = MailItem(x) /\ h = MailItemTo(x) /\ i = GivenUp(x) /\ j = AuctionRow(x) /\ k = BidRow(x)
    OBVIOUS
<1>3. /\ a[1] = "gold" /\ b[1] = "item" /\ c[1] = "mail" /\ d[1] = "mail_to" /\ e[1] = "mail_money"
      /\ g[1] = "mail_item" /\ h[1] = "mail_item_to" /\ i[1] = "given_up" /\ j[1] = "auction"
      /\ k[1] = "auction_bid" /\ Fees[1] = "fees"
    BY <1>2, RowKeys
<1>4. /\ "gold" \notin K => At(f, a, v) = v
      /\ "item" \notin K => At(f, b, v) = v
      /\ "mail" \notin K => At(f, c, v) = v
      /\ "mail_to" \notin K => At(f, d, v) = v
      /\ "mail_money" \notin K => At(f, e, v) = v
      /\ "mail_item" \notin K => At(f, g, v) = v
    BY <1>1, <1>3
<1>5. /\ "mail_item_to" \notin K => At(f, h, v) = v
      /\ "given_up" \notin K => At(f, i, v) = v
      /\ "auction" \notin K => At(f, j, v) = v
      /\ "auction_bid" \notin K => At(f, k, v) = v
      /\ "fees" \notin K => At(f, Fees, v) = v
    BY <1>1, <1>3
<1> QED BY <1>2, <1>4, <1>5

\* The tables after a transaction.
LEMMA TableAfter ==
    ASSUME NEW f, NEW t, DOMAIN t = RowNames, NEW u, u = f ++ t
    PROVE  /\ \A q \in Player : u[GoldRow(q)] = At(f, GoldRow(q), t[GoldRow(q)])
           /\ \A i \in Item : /\ u[ItemRow(i)] = At(f, ItemRow(i), t[ItemRow(i)])
                              /\ u[MailItem(i)] = At(f, MailItem(i), t[MailItem(i)])
                              /\ u[MailItemTo(i)] = At(f, MailItemTo(i), t[MailItemTo(i)])
                              /\ u[GivenUp(i)] = At(f, GivenUp(i), t[GivenUp(i)])
                              /\ u[AuctionRow(i)] = At(f, AuctionRow(i), t[AuctionRow(i)])
                              /\ u[BidRow(i)] = At(f, BidRow(i), t[BidRow(i)])
           /\ \A m \in MailId : /\ u[MailRow(m)] = At(f, MailRow(m), t[MailRow(m)])
                                /\ u[MailTo(m)] = At(f, MailTo(m), t[MailTo(m)])
                                /\ u[MailMoney(m)] = At(f, MailMoney(m), t[MailMoney(m)])
           /\ u[Fees] = At(f, Fees, t[Fees])
<1>1. \A r \in RowNames : u[r] = At(f, r, t[r]) BY AtFacts
<1> QED BY <1>1, RowKinds

-----------------------------------------------------------------------------
(***************************************************************************)
(* The transactions of a player's mailbox: the mails ms are deleted, the   *)
(* money of the mails Z and the items T taken, and the drafts ds sent,     *)
(* which hold no item.                                                     *)
(***************************************************************************)

MailWrites(f, p, ds, ms, Z, T) ==
    /\ \A q, v : q # p => At(f, GoldRow(q), v) = v
    /\ SendsAll(f, ds)
    /\ \A m, v : m \notin Sent(ds) => At(f, MailTo(m), v) = v
    /\ \A m, v : m \notin Sent(ds) /\ m \notin ms => At(f, MailRow(m), v) = v
    /\ \A m, v : m \notin Sent(ds) /\ m \notin Z => At(f, MailMoney(m), v) = v
    /\ \A i \in Item : \A v : i \notin T => At(f, ItemRow(i), v) = v
    /\ \A i \in Item : \A v : i \in T => At(f, ItemRow(i), v) = p
    /\ \A i \in Item : \A v : i \in T => At(f, MailItem(i), v) = NoMail
    /\ \A i \in Item : \A v : i \notin T /\ i \notin ItemsIn(p, ms) => At(f, MailItem(i), v) = v
    /\ \A i \in Item : \A v : i \notin ItemsIn(p, ms) => At(f, GivenUp(i), v) = v
    /\ \A i \in Item : \A v : i \in ItemsIn(p, ms) => At(f, GivenUp(i), v) = TRUE
    /\ \A i \in Item : \A v : At(f, MailItemTo(i), v) = v /\ At(f, AuctionRow(i), v) = v

\* They move what the player has.
LEMMA MailDeed ==
    ASSUME TypeInv, LedgerInv, NEW p \in online, NEW ds \in Seq(DraftType), CanSend(ds), Without(ds),
           NEW ms \in SUBSET DOMAIN box[p], NEW Z \in SUBSET DOMAIN box[p],
           NEW T \in SUBSET Item,
           \A i \in T : \E m \in DOMAIN box[p] \ ms : box[p][m].item = i,
           NobodyMails => \A n \in DOMAIN ds : ~ds[n].normal,
           NEW f, MailWrites(f, p, ds, ms, Z, T), NEW u, u = f ++ End,
           NEW X, X = T \cup ItemsIn(p, ms)
    PROVE  Deed(p, End, u, ds, ms, Z, X) /\ Rightful(p, End, ds, ms, Z, X)
<1>1. PICK t : t = End OBVIOUS
<1>2. Ledger(t) /\ DOMAIN t = RowNames
    <2>1. End = Tab(Len(queue)) /\ Len(queue) \in 0 .. Len(queue) BY TabFacts
    <2>2. DOMAIN End = RowNames BY DEF End
    <2> QED BY <1>1, <2>1, <2>2 DEF LedgerInv, Books
<1>3. p \in Player /\ p # Nobody /\ DOMAIN box[p] \subseteq MailId
    BY BoxFacts, StoreAssumption DEF TypeInv, PlayersTyped
<1>4. /\ \A q \in Player : u[GoldRow(q)] = At(f, GoldRow(q), t[GoldRow(q)])
      /\ \A i \in Item : /\ u[ItemRow(i)] = At(f, ItemRow(i), t[ItemRow(i)])
                         /\ u[MailItem(i)] = At(f, MailItem(i), t[MailItem(i)])
                         /\ u[MailItemTo(i)] = At(f, MailItemTo(i), t[MailItemTo(i)])
                         /\ u[GivenUp(i)] = At(f, GivenUp(i), t[GivenUp(i)])
                         /\ u[AuctionRow(i)] = At(f, AuctionRow(i), t[AuctionRow(i)])
      /\ \A m \in MailId : /\ u[MailRow(m)] = At(f, MailRow(m), t[MailRow(m)])
                           /\ u[MailTo(m)] = At(f, MailTo(m), t[MailTo(m)])
                           /\ u[MailMoney(m)] = At(f, MailMoney(m), t[MailMoney(m)])
    BY <1>1, <1>2, TableAfter
<1>5. \A m \in DOMAIN box[p] : /\ t[MailRow(m)] /\ t[MailTo(m)].to = p
                               /\ \A i \in Item : box[p][m].item = i <=> In(t, m, i)
    <2>1. Backs(t, p, money[p], inv[p], box[p]) BY <1>1 DEF LedgerInv, Memory
    <2> QED BY <2>1 DEF Backs
<1>6. \A n \in DOMAIN ds : Ids(ds)[n] \in MailId /\ ds[n].item = NoItem
    BY SentFresh DEF Without
<1>7. ASSUME NEW i \in Item, i \in ItemsIn(p, ms)
      PROVE  /\ \E m \in ms : In(t, m, i) /\ m \in MailId /\ t[MailTo(m)].to = p
             /\ i \notin T /\ t[ItemRow(i)] = Nobody /\ t[AuctionRow(i)] = NoAuction
    <2>1. PICK m \in ms : box[p][m].item = i BY <1>7 DEF ItemsIn
    <2>2. In(t, m, i) /\ m \in MailId /\ t[MailTo(m)].to = p BY <1>3, <1>5, <2>1
    <2>3. t[ItemRow(i)] = Nobody /\ t[AuctionRow(i)] = NoAuction BY <1>2, <2>2 DEF Ledger, OnePlace
    <2>4. ASSUME i \in T PROVE FALSE
        <3>1. PICK k \in DOMAIN box[p] \ ms : box[p][k].item = i BY <2>4
        <3>2. In(t, k, i) BY <1>5, <3>1
        <3>3. k = m BY <2>2, <3>2 DEF In
        <3> QED BY <3>1, <3>3
    <2> QED BY <2>1, <2>2, <2>3, <2>4
<1>8. ASSUME NEW i \in Item, i \in T
      PROVE  \E m \in MailId : In(t, m, i) /\ t[MailTo(m)].to = p
    BY <1>3, <1>5, <1>8
<1>9. ASSUME NEW i \in Item, i \in ItemsIn(p, ms)
      PROVE  OnePlace(u, i) /\ \A m \in MailId : ~In(u, m, i)
    <2>1. u[GivenUp(i)] = TRUE BY <1>4, <1>9 DEF MailWrites
    <2>2. u[ItemRow(i)] = Nobody /\ u[AuctionRow(i)] = NoAuction BY <1>4, <1>7, <1>9 DEF MailWrites
    <2> QED BY <2>1, <2>2 DEF OnePlace, In
<1>10. ASSUME NEW i \in Item, i \in T
      PROVE  OnePlace(u, i) /\ \A m \in MailId : ~In(u, m, i)
    <2>1. PICK k \in MailId : In(t, k, i) BY <1>8, <1>10
    <2>2. t[AuctionRow(i)] = NoAuction /\ ~t[GivenUp(i)] BY <1>2, <2>1 DEF Ledger, OnePlace, In
    <2>3. i \notin ItemsIn(p, ms) BY <1>7, <1>10
    <2>4. u[ItemRow(i)] = p /\ u[MailItem(i)] = NoMail BY <1>4, <1>10 DEF MailWrites
    <2>5. u[AuctionRow(i)] = NoAuction BY <1>4, <2>2 DEF MailWrites
    <2>6. ~u[GivenUp(i)] BY <1>4, <2>2, <2>3 DEF MailWrites
    <2>7. \A m \in MailId : ~In(u, m, i) BY <2>4, MailAssumption DEF In
    <2> QED BY <1>3, <2>4, <2>5, <2>6, <2>7 DEF OnePlace
<1>11. Deed(p, t, u, ds, ms, Z, X)
    <2>1. \A q \in Player \ {p} : u[GoldRow(q)] = t[GoldRow(q)] BY <1>4 DEF MailWrites
    <2>2. ASSUME NEW n \in DOMAIN ds
          PROVE  /\ u[MailRow(Ids(ds)[n])] /\ u[MailTo(Ids(ds)[n])] = Address(ds[n])
                 /\ u[MailMoney(Ids(ds)[n])] = ds[n].money
                 /\ ds[n].item # NoItem => In(u, Ids(ds)[n], ds[n].item)
        <3>1. PICK k : k = Ids(ds)[n] OBVIOUS
        <3>2. \A v : /\ At(f, MailRow(k), v) = TRUE /\ At(f, MailTo(k), v) = Address(ds[n])
                     /\ At(f, MailMoney(k), v) = ds[n].money
            BY <3>1 DEF MailWrites, SendsAll
        <3>3. k \in MailId /\ ds[n].item = NoItem BY <1>6, <3>1
        <3>4. u[MailRow(k)] = TRUE BY <1>4, <3>2, <3>3, Zenon
        <3>5. u[MailTo(k)] = Address(ds[n]) /\ u[MailMoney(k)] = ds[n].money BY <1>4, <3>2, <3>3
        <3> QED BY <3>1, <3>3, <3>4, <3>5
    <2>3. ASSUME NEW m \in MailId \ Sent(ds)
          PROVE  /\ u[MailTo(m)] = t[MailTo(m)]
                 /\ m \notin Z => u[MailMoney(m)] = t[MailMoney(m)]
                 /\ m \notin ms => u[MailRow(m)] = t[MailRow(m)]
        BY <1>4 DEF MailWrites
    <2>4. ASSUME NEW i \in Item \ X
          PROVE  /\ u[ItemRow(i)] = t[ItemRow(i)] /\ u[MailItem(i)] = t[MailItem(i)]
                 /\ u[GivenUp(i)] = t[GivenUp(i)] /\ u[MailItemTo(i)] = t[MailItemTo(i)]
                 /\ u[AuctionRow(i)] = NoAuction <=> t[AuctionRow(i)] = NoAuction
        BY <1>4 DEF MailWrites
    <2>5. \A i \in Item \cap X : OnePlace(u, i) /\ \A m \in MailId : ~In(u, m, i) BY <1>9, <1>10
    <2> QED BY <2>1, <2>2, <2>3, <2>4, <2>5 DEF Deed
<1>12. Rightful(p, t, ds, ms, Z, X)
    <2>1. ms \cup Z \subseteq {m \in MailId : t[MailRow(m)] /\ t[MailTo(m)].to = p} BY <1>3, <1>5
    <2>2. ASSUME NEW m \in ms, NEW i \in Item, In(t, m, i) PROVE i \in X
        <3>1. box[p][m].item = i /\ i # NoItem BY <1>5, <2>2, MailAssumption
        <3> QED BY <3>1 DEF ItemsIn
    <2>3. \A i \in Item \cap X : \E m \in MailId : In(t, m, i) /\ t[MailTo(m)].to = p BY <1>7, <1>8
    <2> QED BY <2>1, <2>2, <2>3 DEF Rightful
<1> QED BY <1>1, <1>11, <1>12

\* The parts of such a transaction: money, what is taken, what is sent, what is
\* deleted, and the fee.
LEMMA MailParts ==
    ASSUME NEW p, NEW ds, Without(ds), NEW ms, NEW Z, NEW T, Z \cap Sent(ds) = {},
           NEW g, Only(g, {"gold"}), \A q, v : q # p => At(g, GoldRow(q), v) = v,
           NEW a, Only(a, {"item", "mail_money", "mail_item", "mail_cod"}),
           \A m, v : m \notin Z => At(a, MailMoney(m), v) = v,
           \A i, v : i \notin T => At(a, ItemRow(i), v) = v /\ At(a, MailItem(i), v) = v,
           \A i, v : i \in T => At(a, ItemRow(i), v) = p /\ At(a, MailItem(i), v) = NoMail,
           NEW S, Only(S, MailKinds), SendsAll(S, ds), SendsNoMore(S, ds),
           NEW c, Only(c, {"mail", "mail_item", "given_up"}), DeletesAll(c, p, ms), DeletesNoMore(c, p, ms),
           NEW e, Only(e, {"fees"}),
           NEW f, \A r, v : At(f, r, v) = At(g, r, At(a, r, At(S, r, At(c, r, At(e, r, v)))))
    PROVE  MailWrites(f, p, ds, ms, Z, T)
<1>1. \A x, v : /\ At(a, GoldRow(x), v) = v /\ At(S, GoldRow(x), v) = v /\ At(c, GoldRow(x), v) = v
                /\ At(e, GoldRow(x), v) = v
    <2>1. \A x, v : At(a, GoldRow(x), v) = v BY AtOthers
    <2>2. \A x, v : At(S, GoldRow(x), v) = v BY AtOthers DEF MailKinds
    <2>3. \A x, v : At(c, GoldRow(x), v) = v /\ At(e, GoldRow(x), v) = v BY AtOthers
    <2> QED BY <2>1, <2>2, <2>3
<1>2. \A x, v : /\ At(g, ItemRow(x), v) = v /\ At(S, ItemRow(x), v) = v /\ At(c, ItemRow(x), v) = v
                /\ At(e, ItemRow(x), v) = v
    <2>1. \A x, v : At(S, ItemRow(x), v) = v BY AtOthers DEF MailKinds
    <2> QED BY <2>1, AtOthers
<1>3. \A x, v : /\ At(g, MailRow(x), v) = v /\ At(a, MailRow(x), v) = v /\ At(e, MailRow(x), v) = v
                /\ At(g, MailTo(x), v) = v /\ At(a, MailTo(x), v) = v /\ At(c, MailTo(x), v) = v
                /\ At(e, MailTo(x), v) = v
    BY AtOthers
<1>4. \A x, v : /\ At(g, MailMoney(x), v) = v /\ At(c, MailMoney(x), v) = v /\ At(e, MailMoney(x), v) = v
                /\ At(g, MailItem(x), v) = v /\ At(e, MailItem(x), v) = v
    BY AtOthers
<1>5. \A x, v : /\ At(g, GivenUp(x), v) = v /\ At(a, GivenUp(x), v) = v /\ At(e, GivenUp(x), v) = v
                /\ At(S, GivenUp(x), v) = v
    <2>1. \A x, v : At(S, GivenUp(x), v) = v BY AtOthers DEF MailKinds
    <2> QED BY <2>1, AtOthers
<1>6. \A x, v : /\ At(g, MailItemTo(x), v) = v /\ At(a, MailItemTo(x), v) = v
                /\ At(c, MailItemTo(x), v) = v /\ At(e, MailItemTo(x), v) = v
    BY AtOthers
<1>7. \A x, v : /\ At(g, AuctionRow(x), v) = v /\ At(a, AuctionRow(x), v) = v
                /\ At(c, AuctionRow(x), v) = v /\ At(e, AuctionRow(x), v) = v
                /\ At(S, AuctionRow(x), v) = v
    <2>1. \A x, v : At(S, AuctionRow(x), v) = v BY AtOthers DEF MailKinds
    <2> QED BY <2>1, AtOthers
<1>8. \A i, v : i # NoItem => At(S, MailItem(i), v) = v /\ At(S, MailItemTo(i), v) = v
    BY DEF SendsNoMore, Without
<1>9. \A x, v : At(f, GoldRow(x), v) = At(g, GoldRow(x), v)
  BY <1>1
<1>10. \A x, v : At(f, ItemRow(x), v) = At(a, ItemRow(x), v)
  BY <1>2
<1>11. \A x, v : At(f, MailRow(x), v) = At(S, MailRow(x), At(c, MailRow(x), v))
  BY <1>3
<1>12. \A x, v : At(f, MailTo(x), v) = At(S, MailTo(x), v)
  BY <1>3
<1>13. \A x, v : At(f, MailMoney(x), v) = At(a, MailMoney(x), At(S, MailMoney(x), v))
  BY <1>4
<1>14. \A x, v : At(f, MailItem(x), v) = At(a, MailItem(x), At(S, MailItem(x), At(c, MailItem(x), v)))
  BY <1>4
<1>15. \A x, v : At(f, GivenUp(x), v) = At(c, GivenUp(x), v)
  BY <1>5
<1>16. \A x, v : At(f, MailItemTo(x), v) = At(S, MailItemTo(x), v)
  BY <1>6
<1>17. \A x, v : At(f, AuctionRow(x), v) = v
  BY <1>7
<1>18. \A i \in Item : i # NoItem BY MailAssumption
<1>19. SendsAll(f, ds)
    <2> SUFFICES ASSUME NEW n \in DOMAIN ds, NEW v
                 PROVE  /\ At(f, MailRow(Ids(ds)[n]), v) = TRUE
                        /\ At(f, MailTo(Ids(ds)[n]), v) = Address(ds[n])
                        /\ At(f, MailMoney(Ids(ds)[n]), v) = ds[n].money
        BY DEF SendsAll, Without
    <2>1. PICK k : k = Ids(ds)[n] OBVIOUS
    <2>2. \A w : /\ At(S, MailRow(k), w) = TRUE /\ At(S, MailTo(k), w) = Address(ds[n])
                 /\ At(S, MailMoney(k), w) = ds[n].money
        BY <2>1 DEF SendsAll
    <2>3. k \notin Z BY <2>1 DEF Sent
    <2>4. At(f, MailRow(k), v) = TRUE
        <3>1. \A w : At(S, MailRow(k), w) = TRUE BY <2>2, Zenon
        <3>2. At(f, MailRow(k), v) = At(S, MailRow(k), At(c, MailRow(k), v)) BY <1>11, Zenon
        <3> QED BY <3>1, <3>2, Zenon
    <2>5. At(f, MailTo(k), v) = Address(ds[n]) BY <1>12, <2>2
    <2>6. At(f, MailMoney(k), v) = ds[n].money BY <1>13, <2>2, <2>3
    <2> QED BY <2>1, <2>4, <2>5, <2>6
<1>20. \A m, v : m \notin Sent(ds) => At(f, MailTo(m), v) = v BY <1>12 DEF SendsNoMore
<1>21. \A m, v : m \notin Sent(ds) /\ m \notin ms => At(f, MailRow(m), v) = v
    BY <1>11 DEF SendsNoMore, DeletesNoMore
<1>22. \A m, v : m \notin Sent(ds) /\ m \notin Z => At(f, MailMoney(m), v) = v
    BY <1>13 DEF SendsNoMore
<1>23. \A i \in Item : \A v : i \notin T /\ i \notin ItemsIn(p, ms) => At(f, MailItem(i), v) = v
    BY <1>8, <1>14, <1>18 DEF DeletesNoMore
<1>24. \A i \in Item : \A v : i \in T => At(f, MailItem(i), v) = NoMail BY <1>14
<1>25. \A i \in Item : \A v : i \notin ItemsIn(p, ms) => At(f, GivenUp(i), v) = v
    BY <1>15 DEF DeletesNoMore
<1>26. ASSUME NEW i \in Item, NEW v, i \in ItemsIn(p, ms) PROVE At(f, GivenUp(i), v) = TRUE
    <2>1. At(c, GivenUp(i), v) = TRUE BY <1>26, Zenon DEF DeletesAll
    <2> QED BY <1>15, <2>1, Zenon
<1>27. \A i \in Item : \A v : At(f, MailItemTo(i), v) = v /\ At(f, AuctionRow(i), v) = v
    BY <1>8, <1>16, <1>17, <1>18
<1>28. \A q, v : q # p => At(f, GoldRow(q), v) = v BY <1>9
<1>29. /\ \A i \in Item : \A v : i \notin T => At(f, ItemRow(i), v) = v
       /\ \A i \in Item : \A v : i \in T => At(f, ItemRow(i), v) = p
    BY <1>10
<1> QED BY <1>19, <1>20, <1>21, <1>22, <1>23, <1>24, <1>25, <1>26, <1>27, <1>28, <1>29, Zenon DEF MailWrites

\* The memory after such a transaction, whose drafts go into the boxes bx.
MailShown(f, p, ds, ms, Z, T, bx) ==
    /\ \A q \in online' \ {p} : bx[q] = box[q] /\ money'[q] = money[q] /\ inv'[q] = inv[q]
    /\ \A q \in online' : Delivered(box'[q], bx[q], ds, q)
    /\ p \in online' =>
        /\ Remains(bx[p], box[p], ms, Z, T \cup ItemsIn(p, ms))
        /\ \A m \in Z : \A v : At(f, MailMoney(m), v) = 0
        /\ At(f, GoldRow(p), money[p]) = money'[p]
        /\ inv'[p] \subseteq inv[p] \cup T

\* A transaction of a player's mailbox keeps the ledger.
LEMMA MailLedger ==
    ASSUME TypeInv, TypeInv', LedgerInv, NEW p \in online, NEW f, Commit(f), db' = db,
           online' \subseteq online, Linked(f),
           NEW ds \in Seq(DraftType), CanSend(ds), Without(ds),
           NEW ms \in SUBSET DOMAIN box[p], NEW Z \in SUBSET DOMAIN box[p], NEW T \in SUBSET Item,
           \A i \in T : \E m \in DOMAIN box[p] \ ms : box[p][m].item = i,
           NobodyMails => \A n \in DOMAIN ds : ~ds[n].normal,
           MailWrites(f, p, ds, ms, Z, T),
           NEW bx, MailShown(f, p, ds, ms, Z, T, bx)
    PROVE  LedgerInv'
<1>1. PICK u, X : u = f ++ End /\ X = T \cup ItemsIn(p, ms) OBVIOUS
<1>2. Deed(p, End, u, ds, ms, Z, X) /\ Rightful(p, End, ds, ms, Z, X) BY <1>1, MailDeed
<1>3. p \in Player /\ DOMAIN box[p] \subseteq MailId /\ inv[p] \subseteq Item
    BY BoxFacts DEF TypeInv, PlayersTyped
<1>4. DOMAIN End = RowNames BY DEF End
<1>5. Backs(End, p, money[p], inv[p], box[p]) BY DEF LedgerInv, Memory
<1>0. /\ \A q \in online' \ {p} : bx[q] = box[q] /\ money'[q] = money[q] /\ inv'[q] = inv[q]
      /\ \A q \in online' : Delivered(box'[q], bx[q], ds, q)
      /\ p \in online' =>
            /\ Remains(bx[p], box[p], ms, Z, T \cup ItemsIn(p, ms))
            /\ \A m \in Z : \A v : At(f, MailMoney(m), v) = 0
            /\ At(f, GoldRow(p), money[p]) = money'[p]
            /\ inv'[p] \subseteq inv[p] \cup T
    BY DEF MailShown
<1>6. ASSUME p \in online'
      PROVE  /\ Remains(bx[p], box[p], ms, Z, X) /\ \A m \in Z : u[MailMoney(m)] = 0
             /\ u[GoldRow(p)] = money'[p] /\ \A i \in inv'[p] : u[ItemRow(i)] = p
    <2>1. \A m \in Z : u[MailMoney(m)] = 0
        <3>1. \A m \in MailId : u[MailMoney(m)] = At(f, MailMoney(m), End[MailMoney(m)])
            BY <1>1, <1>4, TableAfter
        <3> QED BY <1>0, <1>3, <1>6, <3>1
    <2>2. u[GoldRow(p)] = money'[p]
        <3>1. u[GoldRow(p)] = At(f, GoldRow(p), End[GoldRow(p)]) BY <1>1, <1>3, <1>4, TableAfter
        <3>2. End[GoldRow(p)] = money[p] BY <1>5 DEF Backs
        <3> QED BY <1>0, <1>6, <3>1, <3>2
    <2>3. ASSUME NEW i \in inv'[p] PROVE u[ItemRow(i)] = p
        <3>1. i \in Item /\ (i \in T \/ i \in inv[p]) BY <1>0, <1>3, <1>6
        <3>2. u[ItemRow(i)] = At(f, ItemRow(i), End[ItemRow(i)]) BY <1>1, <1>4, <3>1, TableAfter
        <3>3. i \in inv[p] => End[ItemRow(i)] = p BY <1>5 DEF Backs
        <3>4. /\ i \in T => At(f, ItemRow(i), End[ItemRow(i)]) = p
              /\ i \notin T => At(f, ItemRow(i), End[ItemRow(i)]) = End[ItemRow(i)]
            BY <3>1 DEF MailWrites
        <3> QED BY <3>1, <3>2, <3>3, <3>4
    <2> QED BY <1>0, <1>1, <1>6, <2>1, <2>2, <2>3
<1> QED BY <1>0, <1>1, <1>2, <1>6, DeedLedger

\* Transactions without drafts or without deletions.
LEMMA NoParts ==
    /\ \A K : Only(NoRows, K)
    /\ \A r, v : At(NoRows, r, v) = v
    /\ <<>> \in Seq(DraftType) /\ Without(<<>>) /\ DOMAIN <<>> = {} /\ Sent(<<>>) = {}
    /\ TypeInv => CanSend(<<>>)
    /\ SendsAll(NoRows, <<>>) /\ SendsNoMore(NoRows, <<>>)
<1>1. DOMAIN NoRows = {} BY DEF NoRows
<1>2. (\A K : Only(NoRows, K)) /\ \A r, v : At(NoRows, r, v) = v BY <1>1 DEF Only, At
<1>3. DOMAIN <<>> = {} /\ <<>> \in Seq(DraftType) /\ Len(<<>>) = 0 OBVIOUS
<1>4. Without(<<>>) /\ Sent(<<>>) = {} BY <1>3 DEF Without, Sent
<1>5. TypeInv => CanSend(<<>>)
    <2>1. FreeIds \subseteq MailId BY DEF FreeIds
    <2>2. IsFiniteSet(FreeIds) BY <2>1, MailAssumption, FS_Subset
    <2>3. Cardinality(FreeIds) \in Nat BY <2>2, FS_CardinalityType
    <2> QED BY <1>3, <2>3 DEF CanSend
<1>6. SendsAll(NoRows, <<>>) BY <1>3 DEF SendsAll
<1>7. SendsNoMore(NoRows, <<>>) BY <1>2 DEF SendsNoMore
<1> QED BY <1>2, <1>3, <1>4, <1>5, <1>6, <1>7

\* A mailbox without some mails; with all of them.
LEMMA DeliverNone == \A a, q : Delivered(a, a, <<>>, q) BY DEF Delivered

\* The box that a save leaves.
LEMMA KeptRemains ==
    ASSUME TypeInv, NEW p \in online, LedgerInv, NEW X, X = {} \cup ItemsIn(p, Deleted(p)),
           NEW a, a = Kept(p)
    PROVE  Remains(a, box[p], Deleted(p), {}, X)
<1>1. DOMAIN a = DOMAIN box[p] \ Deleted(p) /\ \A m \in DOMAIN a : a[m] = box[p][m] BY DEF Kept
<1>2. DOMAIN box[p] \subseteq MailId BY BoxFacts DEF TypeInv, PlayersTyped
<1>3. \A m \in DOMAIN box[p] : \A i \in Item : box[p][m].item = i <=> In(End, m, i)
    <2>1. Backs(End, p, money[p], inv[p], box[p]) BY DEF LedgerInv, Memory
    <2> QED BY <2>1 DEF Backs
<1>4. Deleted(p) \subseteq DOMAIN box[p] BY DEF Deleted
<1>5. ASSUME NEW m \in DOMAIN a, NEW i \in Item, box[p][m].item = i, i \in X PROVE FALSE
    <2>1. PICK k \in Deleted(p) : box[p][k].item = i BY <1>5 DEF ItemsIn
    <2>2. In(End, m, i) /\ In(End, k, i) BY <1>1, <1>3, <1>4, <1>5, <2>1
    <2>3. k = m BY <2>2 DEF In
    <2> QED BY <1>1, <2>1, <2>3
<1> QED BY <1>1, <1>5 DEF Remains

-----------------------------------------------------------------------------
(***************************************************************************)
(* The handlers of a player's mailbox.                                     *)
(***************************************************************************)

\* What a save writes of the mails, with the money of p.
LEMMA SaveParts ==
    ASSUME NEW p, NEW gold, NEW G, G = GoldRows({p}, gold), NEW g, NEW F, F = Fee(g),
           NEW M, M = SaveMail(p)
    PROVE  /\ Only(G, {"gold"}) /\ \A q, v : q # p => At(G, GoldRow(q), v) = v
           /\ \A v : At(G, GoldRow(p), v) = gold[p]
           /\ Only(M, {"mail", "mail_item", "given_up"})
           /\ DeletesAll(M, p, Deleted(p)) /\ DeletesNoMore(M, p, Deleted(p))
           /\ Only(F, {"fees"})
           /\ Linked(G) /\ Linked(M) /\ Linked(F)
<1>1. Only(G, {"gold"}) /\ Only(F, {"fees"}) BY PartKinds
<1>2. \A q, v : At(G, GoldRow(q), v) = IF q = p THEN gold[p] ELSE v BY GoldAt
<1>3. M = DeleteRows(p, Deleted(p)) BY DEF SaveMail
<1>4. /\ Only(M, {"mail", "mail_item", "given_up"})
      /\ DeletesAll(M, p, Deleted(p)) /\ DeletesNoMore(M, p, Deleted(p))
    BY <1>3, DeleteAt
<1>5. Linked(M) BY <1>3, LinkedParts
<1>6. Linked(G) /\ Linked(F) BY <1>1, LinkedParts
<1> QED BY <1>1, <1>2, <1>4, <1>5, <1>6

\* The periodic save, and the save of a logout.
LEMMA SaveLedger ==
    ASSUME TypeInv, TypeInv', LedgerInv, NEW p \in Player, SaveToDB(p) \/ Logout(p)
    PROVE  LedgerInv'
<1>1. PICK G, M, F, ms : G = GoldRows({p}, money) /\ M = SaveMail(p) /\ F = Fee(MoneyIn(p, Deleted(p)))
                         /\ ms = Deleted(p)
    OBVIOUS
<1>2. PICK f : Commit(f) /\ (f = (G ++ M) ++ F \/ f = G ++ (M ++ F))
    BY <1>1 DEF SaveToDB, Logout, LogoutPlayer
<1>3. /\ p \in online /\ db' = db /\ online' \subseteq online
      /\ \A q \in online' \ {p} : box'[q] = box[q] /\ money'[q] = money[q] /\ inv'[q] = inv[q]
      /\ p \in online' => box'[p] = Kept(p) /\ money'[p] = money[p] /\ inv'[p] = inv[p]
    <2>1. box \in [Player -> Boxes] /\ money \in [Player -> 0 .. MaxMoney]
          /\ inv \in [Player -> SUBSET Item] /\ online \subseteq Player
        BY DEF TypeInv, PlayersTyped
    <2>2. CASE SaveToDB(p) BY <2>1, <2>2 DEF SaveToDB
    <2>3. CASE Logout(p) BY <2>1, <2>3 DEF Logout, LogoutPlayer
    <2> QED BY <2>2, <2>3
<1>4. /\ Only(G, {"gold"}) /\ \A q, v : q # p => At(G, GoldRow(q), v) = v
      /\ \A v : At(G, GoldRow(p), v) = money[p]
      /\ Only(M, {"mail", "mail_item", "given_up"}) /\ DeletesAll(M, p, ms) /\ DeletesNoMore(M, p, ms)
      /\ Only(F, {"fees"}) /\ Linked(G) /\ Linked(M) /\ Linked(F)
    BY <1>1, SaveParts
<1>5. /\ \A K : Only(NoRows, K)
      /\ \A r, v : At(NoRows, r, v) = v
      /\ <<>> \in Seq(DraftType) /\ Without(<<>>) /\ DOMAIN <<>> = {} /\ Sent(<<>>) = {} /\ CanSend(<<>>)
      /\ SendsAll(NoRows, <<>>) /\ SendsNoMore(NoRows, <<>>)
    BY NoParts
<1>6. Linked(f) BY <1>2, <1>4, LinkedParts
<1>7. \A r, v : At(f, r, v) = At(G, r, At(M, r, At(F, r, v)))
    BY <1>2, AtFacts
<1>8. PICK o, ds, Z : o = NoRows /\ ds = <<>> /\ Z = {} OBVIOUS
<1>9. \A r, v : At(f, r, v) = At(G, r, At(o, r, At(o, r, At(M, r, At(F, r, v)))))
    BY <1>5, <1>7, <1>8
<1>10. MailWrites(f, p, ds, ms, Z, Z)
    <2>1. /\ Only(o, {"item", "mail_money", "mail_item", "mail_cod"}) /\ Only(o, MailKinds)
          /\ \A r, v : At(o, r, v) = v /\ Without(ds) /\ Sent(ds) = {}
          /\ SendsAll(o, ds) /\ SendsNoMore(o, ds)
        BY <1>5, <1>8
    <2> QED BY <1>4, <1>8, <1>9, <2>1, MailParts
<1>11. p \in online' => At(f, GoldRow(p), money[p]) = money'[p]
    <2>1. \A v : At(M, GoldRow(p), v) = v /\ At(F, GoldRow(p), v) = v BY <1>4, AtOthers
    <2> QED BY <1>3, <1>4, <1>7, <2>1
<1>12. p \in online' => Remains(box'[p], box[p], ms, Z, Z \cup ItemsIn(p, ms))
    BY <1>1, <1>3, <1>8, KeptRemains
<1>13. ms \in SUBSET DOMAIN box[p] /\ Z \in SUBSET DOMAIN box[p] /\ Z \in SUBSET Item
    BY <1>1, <1>8 DEF Deleted
<1>14. PICK bx : bx = box' OBVIOUS
<1>15. MailShown(f, p, ds, ms, Z, Z, bx)
    BY <1>3, <1>8, <1>11, <1>12, <1>14, DeliverNone DEF MailShown
<1>16. /\ ds \in Seq(DraftType) /\ CanSend(ds) /\ Without(ds)
       /\ \A i \in Z : \E m \in DOMAIN box[p] \ ms : box[p][m].item = i
       /\ NobodyMails => \A n \in DOMAIN ds : ~ds[n].normal
    BY <1>5, <1>8
<1> QED BY <1>2, <1>3, <1>6, <1>10, <1>13, <1>15, <1>16, MailLedger

\* Two mails of a box do not show the same item.
LEMMA BoxItems ==
    ASSUME TypeInv, LedgerInv, NEW p \in online, NEW m \in DOMAIN box[p], NEW k \in DOMAIN box[p],
           box[p][m].item \in Item, box[p][k].item = box[p][m].item
    PROVE  k = m
<1>1. Backs(End, p, money[p], inv[p], box[p]) BY DEF LedgerInv, Memory
<1>2. \A n \in DOMAIN box[p] : \A i \in Item : box[p][n].item = i <=> In(End, n, i) BY <1>1 DEF Backs
<1>3. PICK i \in Item : box[p][m].item = i OBVIOUS
<1>4. In(End, m, i) /\ In(End, k, i) BY <1>2, <1>3
<1> QED BY <1>4 DEF In

\* The box that a save leaves when mail m is changed to x.
LEMMA ChangedRemains ==
    ASSUME TypeInv, LedgerInv, NEW p \in online, NEW m \in DOMAIN box[p], m \notin Deleted(p),
           NEW x, x.address = box[p][m].address, NEW Z \in SUBSET {m},
           m \in Z => x.money = 0, m \notin Z => x.money = box[p][m].money,
           NEW T \in SUBSET {box[p][m].item},
           \A i \in Item : x.item = i <=> box[p][m].item = i /\ i \notin T,
           NEW a, a = Write(m, x) ++ Kept(p), NEW X, X = T \cup ItemsIn(p, Deleted(p))
    PROVE  Remains(a, box[p], Deleted(p), Z, X)
<1>1. PICK w, k : w = Write(m, x) /\ k = Kept(p) OBVIOUS
<1>2. DOMAIN w = {m} /\ w[m] = x BY <1>1, Single
<1>3. DOMAIN k = DOMAIN box[p] \ Deleted(p) /\ \A n \in DOMAIN k : k[n] = box[p][n] BY <1>1 DEF Kept
<1>4. /\ DOMAIN a = {m} \cup DOMAIN k /\ a[m] = x
      /\ \A n \in DOMAIN k : n # m => a[n] = k[n]
    BY <1>1, <1>2 DEF ++
<1>5. Deleted(p) \subseteq DOMAIN box[p] BY DEF Deleted
<1>6. ASSUME NEW n \in DOMAIN a, NEW i \in Item, box[p][n].item = i, i \in ItemsIn(p, Deleted(p))
      PROVE  FALSE
    <2>1. PICK d \in Deleted(p) : box[p][d].item = i BY <1>6 DEF ItemsIn
    <2>2. n \in DOMAIN box[p] /\ n \notin Deleted(p) BY <1>3, <1>4
    <2>3. d = n BY <1>5, <1>6, <2>1, <2>2, BoxItems
    <2> QED BY <2>1, <2>2, <2>3
<1>7. ASSUME NEW n \in DOMAIN a, n # m
      PROVE  /\ n \in DOMAIN box[p] /\ n \notin Deleted(p) /\ a[n].address = box[p][n].address
             /\ IF n \in Z THEN a[n].money = 0 ELSE a[n].money = box[p][n].money
             /\ \A i \in Item : a[n].item = i <=> box[p][n].item = i /\ i \notin X
    <2>1. n \in DOMAIN box[p] /\ n \notin Deleted(p) /\ a[n] = box[p][n] /\ n \notin Z
        BY <1>3, <1>4, <1>7
    <2>2. ASSUME NEW i \in Item, box[p][n].item = i, i \in T PROVE FALSE
        <3>1. box[p][m].item = i BY <2>2
        <3> QED BY <1>7, <2>1, <2>2, <3>1, BoxItems
    <2> QED BY <1>6, <2>1, <2>2
<1>8. \A i \in Item : x.item = i <=> box[p][m].item = i /\ i \notin X BY <1>4, <1>6
<1>9. ASSUME NEW n \in DOMAIN a, n = m
      PROVE  /\ n \in DOMAIN box[p] /\ n \notin Deleted(p) /\ a[n].address = box[p][n].address
             /\ IF n \in Z THEN a[n].money = 0 ELSE a[n].money = box[p][n].money
             /\ \A i \in Item : a[n].item = i <=> box[p][n].item = i /\ i \notin X
    BY <1>4, <1>8, <1>9
<1> QED BY <1>7, <1>9 DEF Remains

\* The money of a mail is taken.
LEMMA TakeMoneyLedger ==
    ASSUME TypeInv, TypeInv', LedgerInv, NEW p \in Player, NEW m \in MailId, NEW g \in Nat,
           HandleMailTakeMoney(p, m, g)
    PROVE  LedgerInv'
<1> DEFINE x == [box[p][m] EXCEPT !.money = 0]
           gold == [money EXCEPT ![p] = Received(@, g)]
<1>1. PICK G, W, M, F, ms, y : /\ G = GoldRows({p}, gold) /\ W = Write(MailMoney(m), 0) /\ M = SaveMail(p)
                               /\ F = Fee(MoneyIn(p, Deleted(p)) + box[p][m].money - g) /\ ms = Deleted(p)
                               /\ y = x
    OBVIOUS
<1>2. PICK f : Commit(f) /\ f = ((G ++ W) ++ M) ++ F
    BY <1>1 DEF HandleMailTakeMoney
<1>3. /\ p \in online /\ m \in DOMAIN box[p] /\ ~box[p][m].deleted /\ UNCHANGED <<online, inv, db>>
      /\ money' = gold /\ box' = [box EXCEPT ![p] = Write(m, y) ++ Kept(p)]
    BY <1>1 DEF HandleMailTakeMoney, Open, InBox
<1>4. /\ money \in [Player -> 0 .. MaxMoney] /\ box \in [Player -> Boxes] /\ online \subseteq Player
      /\ box[p][m] \in MailType
    BY <1>3, BoxFacts DEF TypeInv, PlayersTyped
<1>5. y.address = box[p][m].address /\ y.money = 0 /\ y.item = box[p][m].item
    BY <1>1, <1>4 DEF MailType, MailRecord
<1>6. /\ \A q \in online' \ {p} : box'[q] = box[q] /\ money'[q] = money[q] /\ inv'[q] = inv[q]
      /\ box'[p] = Write(m, y) ++ Kept(p) /\ money'[p] = gold[p]
    BY <1>3, <1>4
<1> HIDE DEF x, gold
<1>7. /\ Only(G, {"gold"}) /\ \A q, v : q # p => At(G, GoldRow(q), v) = v
      /\ \A v : At(G, GoldRow(p), v) = gold[p]
      /\ Only(M, {"mail", "mail_item", "given_up"}) /\ DeletesAll(M, p, ms) /\ DeletesNoMore(M, p, ms)
      /\ Only(F, {"fees"}) /\ Linked(G) /\ Linked(M) /\ Linked(F)
    <2>1. PICK c, h : c = MoneyIn(p, Deleted(p)) + box[p][m].money - g /\ h = gold OBVIOUS
    <2>2. G = GoldRows({p}, h) /\ F = Fee(c) /\ M = SaveMail(p) BY <1>1, <2>1
    <2>3. /\ Only(G, {"gold"}) /\ \A q, v : q # p => At(G, GoldRow(q), v) = v
          /\ \A v : At(G, GoldRow(p), v) = h[p]
          /\ Only(M, {"mail", "mail_item", "given_up"})
          /\ DeletesAll(M, p, Deleted(p)) /\ DeletesNoMore(M, p, Deleted(p))
          /\ Only(F, {"fees"}) /\ Linked(G) /\ Linked(M) /\ Linked(F)
        BY <2>2, SaveParts, SMTT(30)
    <2> QED BY <1>1, <2>1, <2>3
<1>8. Only(W, {"mail_money"}) /\ \A k, v : At(W, MailMoney(k), v) = IF k = m THEN 0 ELSE v
    <2>1. \A k : MailMoney(k) = MailMoney(m) <=> k = m BY RowKeys
    <2> QED BY <1>1, <2>1, PartKinds, AtFacts
<1>9. Linked(f)
    <2>1. Linked(W) BY <1>8, LinkedParts
    <2> QED BY <1>2, <1>7, <2>1, LinkedParts
<1>10. /\ \A K : Only(NoRows, K)
       /\ \A r, v : At(NoRows, r, v) = v
       /\ <<>> \in Seq(DraftType) /\ Without(<<>>) /\ DOMAIN <<>> = {} /\ Sent(<<>>) = {} /\ CanSend(<<>>)
       /\ SendsAll(NoRows, <<>>) /\ SendsNoMore(NoRows, <<>>)
    BY NoParts
<1>11. PICK o, ds, Z, T : o = NoRows /\ ds = <<>> /\ Z = {m} /\ T = {} OBVIOUS
<1>12. \A r, v : At(f, r, v) = At(G, r, At(W, r, At(M, r, At(F, r, v)))) BY <1>2, AtFacts
<1>13. MailWrites(f, p, ds, ms, Z, T)
    <2>1. /\ Only(o, MailKinds) /\ \A r, v : At(o, r, v) = v /\ Without(ds) /\ Sent(ds) = {}
          /\ SendsAll(o, ds) /\ SendsNoMore(o, ds)
        BY <1>10, <1>11
    <2>2. Only(W, {"item", "mail_money", "mail_item", "mail_cod"}) BY <1>8 DEF Only
    <2>3. \A i, v : At(W, ItemRow(i), v) = v /\ At(W, MailItem(i), v) = v BY <1>8, AtOthers
    <2>4. \A k, v : k \notin Z => At(W, MailMoney(k), v) = v BY <1>8, <1>11
    <2>5. \A r, v : At(f, r, v) = At(G, r, At(W, r, At(o, r, At(M, r, At(F, r, v))))) BY <1>12, <2>1
    <2>6. Z \cap Sent(ds) = {} /\ \A i : i \notin T BY <1>11, <2>1
    <2> QED BY <1>7, <2>1, <2>2, <2>3, <2>4, <2>5, <2>6, MailParts
<1>14. At(f, GoldRow(p), money[p]) = money'[p]
    <2>1. \A v : At(M, GoldRow(p), v) = v /\ At(F, GoldRow(p), v) = v /\ At(W, GoldRow(p), v) = v
        BY <1>7, <1>8, AtOthers
    <2> QED BY <1>6, <1>7, <1>12, <2>1
<1>15. \A v : At(f, MailMoney(m), v) = 0
    <2>1. \A v : /\ At(G, MailMoney(m), v) = v /\ At(M, MailMoney(m), v) = v /\ At(F, MailMoney(m), v) = v
        BY <1>7, AtOthers
    <2> QED BY <1>8, <1>12, <2>1
<1>16. ms \in SUBSET DOMAIN box[p] /\ m \notin ms BY <1>1, <1>3 DEF Deleted
<1>17. Z \in SUBSET DOMAIN box[p] /\ T \in SUBSET Item BY <1>3, <1>11
<1>18. Remains(box'[p], box[p], ms, Z, T \cup ItemsIn(p, ms))
    <2>1. PICK a, X : a = Write(m, y) ++ Kept(p) /\ X = T \cup ItemsIn(p, Deleted(p)) OBVIOUS
    <2>2. /\ Z \in SUBSET {m} /\ m \in Z /\ T \in SUBSET {box[p][m].item}
          /\ \A i \in Item : y.item = i <=> box[p][m].item = i /\ i \notin T
        BY <1>5, <1>11
    <2>3. Remains(a, box[p], Deleted(p), Z, X) BY <1>1, <1>3, <1>5, <1>16, <2>1, <2>2, ChangedRemains
    <2> QED BY <1>1, <1>6, <2>1, <2>3
<1>19. PICK bx : bx = box' OBVIOUS
<1>20. MailShown(f, p, ds, ms, Z, T, bx)
    BY <1>3, <1>6, <1>11, <1>14, <1>15, <1>18, <1>19, DeliverNone DEF MailShown
<1>21. /\ ds \in Seq(DraftType) /\ CanSend(ds) /\ Without(ds)
       /\ \A i \in T : \E k \in DOMAIN box[p] \ ms : box[p][k].item = i
       /\ NobodyMails => \A n \in DOMAIN ds : ~ds[n].normal
    BY <1>10, <1>11
<1> QED BY <1>2, <1>3, <1>9, <1>13, <1>16, <1>17, <1>20, <1>21, MailLedger

\* Nobody who cannot pay for a mail finds one of a player in his box.
LEMMA BoxNormal ==
    ASSUME TypeInv, LedgerInv, NEW p \in online, NEW m \in DOMAIN box[p], NobodyMails
    PROVE  ~box[p][m].address.normal
<1>1. Backs(End, p, money[p], inv[p], box[p]) BY DEF LedgerInv, Memory
<1>2. p \in Player BY DEF TypeInv, PlayersTyped
<1>3. m \in MailId /\ box[p][m].address \in AddressType BY <1>2, BoxFacts DEF TypeInv
<1>4. End[MailTo(m)] = box[p][m].address BY <1>1 DEF Backs
<1>5. End = Tab(Len(queue)) /\ Len(queue) \in 0 .. Len(queue) BY TabFacts
<1>6. Ledger(End) BY <1>5 DEF LedgerInv, Books
<1> QED BY <1>3, <1>4, <1>6 DEF Ledger

\* A draft on its own.
LEMMA OneDraft ==
    ASSUME NEW d \in DraftType, NEW ds, ds = <<d>>
    PROVE  /\ ds \in Seq(DraftType) /\ DOMAIN ds = {1} /\ ds[1] = d
           /\ OneItem(ds) /\ (d.item = NoItem => Without(ds))
<1>1. ds \in Seq(DraftType) /\ DOMAIN ds = {1} /\ ds[1] = d BY DraftSeqs
<1> QED BY <1>1 DEF OneItem, Without

\* The item of a mail is taken, and its price sent.
LEMMA TakeItemLedger ==
    ASSUME TypeInv, TypeInv', LedgerInv, NEW p \in Player, NEW m \in MailId, HandleMailTakeItem(p, m)
    PROVE  LedgerInv'
<1>0. PICK z \in Int : TakesItem(p, m, z) BY TakeItemChange DEF TypeInv
<1> DEFINE mail == box[p][m]
           d == Draft(mail.address.from, p, TRUE, TRUE, mail.cod, 0, NoItem)
           gold == [money EXCEPT ![p] = ModifyMoney(@, z)]
           left == [mail EXCEPT !.item = NoItem, !.cod = 0]
<1>1. PICK ds, i, h, y :
        ds = (IF mail.cod > 0 THEN <<d>> ELSE <<>>) /\ i = mail.item /\ h = gold /\ y = left
    OBVIOUS
<1>2. PICK G, W, V, U, S, M, F, ms :
        /\ G = GoldRows({p}, h) /\ W = Write(ItemRow(i), p) /\ V = Write(MailItem(i), NoMail)
        /\ U = Write(MailCod(m), 0) /\ S = SendRows(ds) /\ M = SaveMail(p)
        /\ F = Fee(MoneyIn(p, Deleted(p))) /\ ms = Deleted(p)
    OBVIOUS
<1>3. PICK bx : bx = [box EXCEPT ![p] = Write(m, y) ++ Kept(p)] OBVIOUS
<1>4. /\ p \in online /\ m \in DOMAIN box[p] /\ ~box[p][m].deleted /\ i # NoItem /\ CanSend(ds)
      /\ inv' = [inv EXCEPT ![p] = @ \cup {i}] /\ money' = h
      /\ box' = Deliver(bx, ds) /\ UNCHANGED <<online, db>>
    BY <1>0, <1>1, <1>3 DEF HandleMailTakeItem, TakesItem, Open, InBox
<1>5. PICK f : Commit(f) /\ f = ((((G ++ W) ++ (V ++ U)) ++ S) ++ M) ++ F
    BY <1>0, <1>1, <1>2 DEF TakesItem, TakenRows
<1>6. /\ money \in [Player -> 0 .. MaxMoney] /\ box \in [Player -> Boxes] /\ online \subseteq Player
      /\ inv \in [Player -> SUBSET Item] /\ mail \in MailType /\ i \in Item /\ mail.cod \in Nat
      /\ mail.cod # 0 => mail.address.from \in Player
    BY <1>1, <1>4, BoxFacts DEF TypeInv, PlayersTyped
<1>7. y.address = mail.address /\ y.money = mail.money /\ y.item = NoItem
    BY <1>1, <1>6 DEF MailType, MailRecord
<1>8. /\ \A q \in online' \ {p} : bx[q] = box[q] /\ money'[q] = money[q] /\ inv'[q] = inv[q]
      /\ bx[p] = Write(m, y) ++ Kept(p) /\ money'[p] = h[p] /\ inv'[p] = inv[p] \cup {i}
    BY <1>1, <1>3, <1>4, <1>6
<1>9. ASSUME mail.cod > 0 PROVE d \in DraftType /\ d.item = NoItem
    <2>1. PICK a, c : a = mail.address.from /\ c = mail.cod OBVIOUS
    <2>2. a \in Player /\ c \in Nat BY <1>6, <1>9, <2>1
    <2>3. Draft(a, p, TRUE, TRUE, c, 0, NoItem) \in DraftType BY <2>2, DraftTyped, CodesNat
    <2> QED BY <2>1, <2>3 DEF Draft
<1>10. /\ ds \in Seq(DraftType) /\ Without(ds) /\ OneItem(ds)
       /\ mail.cod = 0 => ds = <<>>
    <2>1. CASE mail.cod > 0
        <3> HIDE DEF d, mail
        <3>1. ds = <<d>> BY <1>1, <2>1
        <3> QED BY <1>9, <2>1, <3>1, OneDraft
    <2>2. CASE mail.cod = 0
        <3>1. ds = <<>> BY <1>1, <2>2
        <3> QED BY <3>1, NoParts DEF OneItem
    <2> QED BY <1>6, <2>1, <2>2
<1>11. NobodyMails => \A n \in DOMAIN ds : ~ds[n].normal
    <2>1. SUFFICES ASSUME NobodyMails PROVE DOMAIN ds = {} OBVIOUS
    <2>2. ~mail.address.normal BY <1>4, <2>1, BoxNormal
    <2>3. mail.cod = 0 BY <1>6, <2>2 DEF MailType
    <2> QED BY <1>10, <2>3, NoParts
<1>12. \A q \in online' : Delivered(box'[q], bx[q], ds, q) BY <1>4, <1>6, <1>10, DeliverAdds
<1> HIDE DEF mail, d, gold, left
<1>13. /\ Only(G, {"gold"}) /\ \A q, v : q # p => At(G, GoldRow(q), v) = v
       /\ \A v : At(G, GoldRow(p), v) = h[p]
       /\ Only(M, {"mail", "mail_item", "given_up"})
       /\ DeletesAll(M, p, Deleted(p)) /\ DeletesNoMore(M, p, Deleted(p))
       /\ Only(F, {"fees"}) /\ Linked(G) /\ Linked(M) /\ Linked(F)
    BY <1>2, SaveParts
<1>14. Only(S, MailKinds) /\ SendsAll(S, ds) /\ SendsNoMore(S, ds) /\ Linked(S)
    BY <1>2, <1>4, <1>10, SendAt, LinkedParts
<1>15. /\ Only(W, {"item"}) /\ \A k, v : At(W, ItemRow(k), v) = IF k = i THEN p ELSE v
       /\ Only(V, {"mail_item"}) /\ \A k, v : At(V, MailItem(k), v) = IF k = i THEN NoMail ELSE v
       /\ Only(U, {"mail_cod"})
    <2>1. \A k : (ItemRow(k) = ItemRow(i) <=> k = i) /\ (MailItem(k) = MailItem(i) <=> k = i) BY RowKeys
    <2>2. Only(W, {"item"}) /\ Only(V, {"mail_item"}) /\ Only(U, {"mail_cod"}) BY <1>2, PartKinds
    <2>3. \A k, v : At(W, ItemRow(k), v) = IF k = i THEN p ELSE v BY <1>2, <2>1, AtFacts
    <2>4. \A k, v : At(V, MailItem(k), v) = IF k = i THEN NoMail ELSE v BY <1>2, <2>1, AtFacts
    <2> QED BY <2>2, <2>3, <2>4
<1>16. Linked(f)
    <2>1. Linked(W) /\ Linked(U) BY <1>15, LinkedParts
    <2>2. Linked(V) BY <1>2, LinkedParts
    <2>3. Linked((G ++ W) ++ (V ++ U)) BY <1>13, <2>1, <2>2, LinkedParts
    <2> QED BY <1>5, <1>13, <1>14, <2>3, LinkedParts
<1>17. PICK A : A = W ++ (V ++ U) OBVIOUS
<1>18. \A r, v : At(A, r, v) = At(W, r, At(V, r, At(U, r, v))) BY <1>17, AtFacts
<1>19. \A r, v : At(f, r, v) = At(G, r, At(A, r, At(S, r, At(M, r, At(F, r, v)))))
    BY <1>5, <1>18, AtFacts
<1>20. PICK Z, T : Z = {} /\ T = {i} OBVIOUS
<1>21. /\ Only(A, {"item", "mail_money", "mail_item", "mail_cod"})
       /\ \A k, v : At(A, MailMoney(k), v) = v /\ At(A, GoldRow(k), v) = v
       /\ \A k, v : k \notin T => At(A, ItemRow(k), v) = v /\ At(A, MailItem(k), v) = v
       /\ \A k, v : k \in T => At(A, ItemRow(k), v) = p /\ At(A, MailItem(k), v) = NoMail
    <2>1. DOMAIN A = DOMAIN W \cup (DOMAIN V \cup DOMAIN U)
        <3>1. PICK B : B = V ++ U OBVIOUS
        <3>2. DOMAIN B = DOMAIN V \cup DOMAIN U BY <3>1 DEF ++
        <3>3. A = W ++ B BY <1>17, <3>1
        <3>4. DOMAIN A = DOMAIN W \cup DOMAIN B BY <3>3 DEF ++
        <3> QED BY <3>2, <3>4
    <2>2. Only(A, {"item", "mail_money", "mail_item", "mail_cod"}) BY <1>15, <2>1 DEF Only
    <2>3. \A k, v : At(A, MailMoney(k), v) = v BY <1>15, <1>18, AtOthers
    <2>4. \A k, v : At(A, GoldRow(k), v) = v BY <1>15, <1>18, AtOthers
    <2>5. \A k, v : At(V, ItemRow(k), v) = v /\ At(U, ItemRow(k), v) = v BY <1>15, AtOthers
    <2>6. \A k, v : At(A, ItemRow(k), v) = At(W, ItemRow(k), v) BY <1>18, <2>5
    <2>7. \A k, v : At(W, MailItem(k), v) = v /\ At(U, MailItem(k), v) = v BY <1>15, AtOthers
    <2>8. \A k, v : At(A, MailItem(k), v) = At(V, MailItem(k), v) BY <1>18, <2>7
    <2> QED BY <1>15, <1>20, <2>2, <2>3, <2>4, <2>6, <2>8
<1>22. MailWrites(f, p, ds, ms, Z, T)
    <2>1. DeletesAll(M, p, ms) /\ DeletesNoMore(M, p, ms) BY <1>2, <1>13
    <2>2. Z \cap Sent(ds) = {} BY <1>20
    <2> QED BY <1>10, <1>13, <1>14, <1>19, <1>21, <2>1, <2>2, MailParts
<1>23. At(f, GoldRow(p), money[p]) = money'[p]
    <2>1. \A v : At(M, GoldRow(p), v) = v /\ At(F, GoldRow(p), v) = v BY <1>13, AtOthers
    <2>2. \A v : At(S, GoldRow(p), v) = v BY <1>14, AtOthers DEF MailKinds
    <2> QED BY <1>8, <1>13, <1>19, <1>21, <2>1, <2>2
<1>24. ms \in SUBSET DOMAIN box[p] /\ m \notin ms BY <1>2, <1>4 DEF Deleted
<1>25. Z \in SUBSET DOMAIN box[p] /\ T \in SUBSET Item BY <1>6, <1>20
<1>26. Remains(bx[p], box[p], ms, Z, T \cup ItemsIn(p, ms))
    <2>1. PICK a, X : a = Write(m, y) ++ Kept(p) /\ X = T \cup ItemsIn(p, Deleted(p)) OBVIOUS
    <2>2. /\ Z \in SUBSET {m} /\ m \notin Z /\ T \in SUBSET {box[p][m].item}
          /\ \A k \in Item : y.item = k <=> box[p][m].item = k /\ k \notin T
        BY <1>1, <1>7, <1>20, MailAssumption DEF mail
    <2>3. Remains(a, box[p], Deleted(p), Z, X)
        BY <1>2, <1>4, <1>7, <1>24, <2>1, <2>2, ChangedRemains DEF mail
    <2> QED BY <1>2, <1>8, <2>1, <2>3
<1>27. MailShown(f, p, ds, ms, Z, T, bx)
    BY <1>8, <1>12, <1>20, <1>23, <1>26 DEF MailShown
<1>28. \A k \in T : \E n \in DOMAIN box[p] \ ms : box[p][n].item = k
    BY <1>1, <1>4, <1>20, <1>24 DEF mail
<1> QED BY <1>4, <1>5, <1>10, <1>11, <1>16, <1>22, <1>24, <1>25, <1>27, <1>28, MailLedger

-----------------------------------------------------------------------------
(***************************************************************************)
(* The transactions that move the items X, from an inventory, a mail or an *)
(* auction, into the drafts ds or onto sale.  g writes the money of p, S   *)
(* sends ds, and c is the rest; D are the mails that are deleted.          *)
(***************************************************************************)

MoveRows(f, p, ds, D, X, g, S, c) ==
    /\ \A r, v : At(f, r, v) = At(g, r, At(S, r, At(c, r, v)))
    /\ Only(g, {"gold"}) /\ \A q, v : q # p => At(g, GoldRow(q), v) = v
    /\ Only(S, MailKinds) /\ SendsAll(S, ds) /\ SendsNoMore(S, ds)
    /\ Only(c, {"item", "auction", "auction_bid", "fees", "mail"})
    /\ \A m, v : m \notin D => At(c, MailRow(m), v) = v
    /\ \A i, v : i \notin X => At(c, ItemRow(i), v) = v /\ At(c, AuctionRow(i), v) = v

\* The rows of such a transaction.
LEMMA MoveAt ==
    ASSUME NEW f, NEW p, NEW ds, NEW D, NEW X, NEW g, NEW S, NEW c, MoveRows(f, p, ds, D, X, g, S, c)
    PROVE  /\ \A q, v : At(f, GoldRow(q), v) = At(g, GoldRow(q), v)
           /\ \A m, v : At(f, MailRow(m), v) = At(S, MailRow(m), At(c, MailRow(m), v))
           /\ \A m, v : At(f, MailTo(m), v) = At(S, MailTo(m), v)
           /\ \A m, v : At(f, MailMoney(m), v) = At(S, MailMoney(m), v)
           /\ \A i, v : At(f, MailItem(i), v) = At(S, MailItem(i), v)
           /\ \A i, v : At(f, MailItemTo(i), v) = At(S, MailItemTo(i), v)
           /\ \A i, v : At(f, GivenUp(i), v) = v
           /\ \A i, v : At(f, ItemRow(i), v) = At(c, ItemRow(i), v)
           /\ \A i, v : At(f, AuctionRow(i), v) = At(c, AuctionRow(i), v)
<1>1. /\ \A r, v : At(f, r, v) = At(g, r, At(S, r, At(c, r, v)))
      /\ Only(g, {"gold"}) /\ Only(S, MailKinds)
      /\ Only(c, {"item", "auction", "auction_bid", "fees", "mail"})
    BY DEF MoveRows
<1>2. \A x, v : /\ At(S, GoldRow(x), v) = v /\ At(S, GivenUp(x), v) = v
                /\ At(S, ItemRow(x), v) = v /\ At(S, AuctionRow(x), v) = v
    BY <1>1, AtOthers DEF MailKinds
<1>3. \A x, v : /\ At(c, GoldRow(x), v) = v /\ At(c, GivenUp(x), v) = v /\ At(c, MailTo(x), v) = v
                /\ At(c, MailMoney(x), v) = v /\ At(c, MailItem(x), v) = v /\ At(c, MailItemTo(x), v) = v
    BY <1>1, AtOthers
<1>4. \A x, v : /\ At(g, GivenUp(x), v) = v /\ At(g, MailTo(x), v) = v /\ At(g, MailRow(x), v) = v
                /\ At(g, MailMoney(x), v) = v /\ At(g, MailItem(x), v) = v /\ At(g, MailItemTo(x), v) = v
                /\ At(g, ItemRow(x), v) = v /\ At(g, AuctionRow(x), v) = v
    BY <1>1, AtOthers
<1>5. \A q, v : At(f, GoldRow(q), v) = At(g, GoldRow(q), v) BY <1>1, <1>2, <1>3
<1>6. \A m, v : At(f, MailRow(m), v) = At(S, MailRow(m), At(c, MailRow(m), v)) BY <1>1, <1>4
<1>7. \A m, v : At(f, MailTo(m), v) = At(S, MailTo(m), v) BY <1>1, <1>3, <1>4
<1>8. \A m, v : At(f, MailMoney(m), v) = At(S, MailMoney(m), v) BY <1>1, <1>3, <1>4
<1>9. \A i, v : At(f, MailItem(i), v) = At(S, MailItem(i), v) BY <1>1, <1>3, <1>4
<1>10. \A i, v : At(f, MailItemTo(i), v) = At(S, MailItemTo(i), v) BY <1>1, <1>3, <1>4
<1>11. \A i, v : At(f, GivenUp(i), v) = v BY <1>1, <1>2, <1>3, <1>4
<1>12. \A i, v : At(f, ItemRow(i), v) = At(c, ItemRow(i), v) BY <1>1, <1>2, <1>4
<1>13. \A i, v : At(f, AuctionRow(i), v) = At(c, AuctionRow(i), v) BY <1>1, <1>2, <1>4
<1> QED BY <1>5, <1>6, <1>7, <1>8, <1>9, <1>10, <1>11, <1>12, <1>13

\* Every item of X ends in a draft, or on sale out of the inventory of p.
Placed(p, ds, X, c, t) ==
    /\ \A n \in DOMAIN ds : ds[n].item \in X \cup {NoItem}
    /\ \A i \in X :
        /\ At(c, ItemRow(i), t[ItemRow(i)]) = Nobody
        /\ \/ /\ At(c, AuctionRow(i), t[AuctionRow(i)]) = NoAuction
              /\ \E n \in DOMAIN ds : ds[n].item = i
           \/ /\ At(c, AuctionRow(i), t[AuctionRow(i)]) # NoAuction
              /\ p # Nobody /\ t[ItemRow(i)] = p /\ \A n \in DOMAIN ds : ds[n].item # i

\* Such a transaction is a deed.
LEMMA MoveDeed ==
    ASSUME TypeInv, LedgerInv, NEW p, NEW ds \in Seq(DraftType), CanSend(ds), OneItem(ds),
           NEW D, NEW Z, Z = {}, NEW X \in SUBSET Item, NEW f, NEW g, NEW S, NEW c,
           MoveRows(f, p, ds, D, X, g, S, c), Placed(p, ds, X, c, End), Rightful(p, End, ds, D, Z, X),
           NEW u, u = f ++ End
    PROVE  Deed(p, End, u, ds, D, Z, X)
<1>1. PICK t : t = End OBVIOUS
<1>2. Ledger(t) /\ DOMAIN t = RowNames
    <2>1. End = Tab(Len(queue)) /\ Len(queue) \in 0 .. Len(queue) BY TabFacts
    <2>2. DOMAIN End = RowNames BY DEF End
    <2> QED BY <1>1, <2>1, <2>2 DEF LedgerInv, Books
<1>3. /\ \A q \in Player : u[GoldRow(q)] = At(f, GoldRow(q), t[GoldRow(q)])
      /\ \A i \in Item : /\ u[ItemRow(i)] = At(f, ItemRow(i), t[ItemRow(i)])
                         /\ u[MailItem(i)] = At(f, MailItem(i), t[MailItem(i)])
                         /\ u[MailItemTo(i)] = At(f, MailItemTo(i), t[MailItemTo(i)])
                         /\ u[GivenUp(i)] = At(f, GivenUp(i), t[GivenUp(i)])
                         /\ u[AuctionRow(i)] = At(f, AuctionRow(i), t[AuctionRow(i)])
      /\ \A m \in MailId : /\ u[MailRow(m)] = At(f, MailRow(m), t[MailRow(m)])
                           /\ u[MailTo(m)] = At(f, MailTo(m), t[MailTo(m)])
                           /\ u[MailMoney(m)] = At(f, MailMoney(m), t[MailMoney(m)])
    BY <1>1, <1>2, TableAfter
<1>4. /\ \A q, v : At(f, GoldRow(q), v) = At(g, GoldRow(q), v)
      /\ \A m, v : At(f, MailRow(m), v) = At(S, MailRow(m), At(c, MailRow(m), v))
      /\ \A m, v : At(f, MailTo(m), v) = At(S, MailTo(m), v)
      /\ \A m, v : At(f, MailMoney(m), v) = At(S, MailMoney(m), v)
      /\ \A i, v : At(f, MailItem(i), v) = At(S, MailItem(i), v)
      /\ \A i, v : At(f, MailItemTo(i), v) = At(S, MailItemTo(i), v)
      /\ \A i, v : At(f, GivenUp(i), v) = v
      /\ \A i, v : At(f, ItemRow(i), v) = At(c, ItemRow(i), v)
      /\ \A i, v : At(f, AuctionRow(i), v) = At(c, AuctionRow(i), v)
    BY MoveAt
<1>5. \A n \in DOMAIN ds : Ids(ds)[n] \in MailId /\ ds[n].item \in Item \cup {NoItem}
    <2>1. \A n \in DOMAIN ds : ds[n] \in DraftType OBVIOUS
    <2> QED BY <2>1, SentFresh DEF DraftType
<1>6. \A i \in Item : u[GivenUp(i)] = t[GivenUp(i)] BY <1>3, <1>4
<1>7. ASSUME NEW i \in X PROVE i \in Item /\ ~t[GivenUp(i)]
    <2>1. \/ p # Nobody /\ t[ItemRow(i)] = p
          \/ t[AuctionRow(i)] # NoAuction
          \/ \E m \in MailId : In(t, m, i)
        BY <1>1 DEF Rightful
    <2>2. OnePlace(t, i) BY <1>2 DEF Ledger
    <2> QED BY <2>1, <2>2 DEF OnePlace, In
<1>8. \A q \in Player \ {p} : u[GoldRow(q)] = t[GoldRow(q)] BY <1>3, <1>4 DEF MoveRows
<1>9. ASSUME NEW n \in DOMAIN ds
      PROVE  /\ u[MailRow(Ids(ds)[n])] /\ u[MailTo(Ids(ds)[n])] = Address(ds[n])
             /\ u[MailMoney(Ids(ds)[n])] = ds[n].money
             /\ ds[n].item # NoItem => /\ In(u, Ids(ds)[n], ds[n].item)
                                       /\ u[MailItemTo(ds[n].item)] = ds[n].to
    <2>1. PICK k, j : k = Ids(ds)[n] /\ j = ds[n].item OBVIOUS
    <2>2. k \in MailId /\ (j # NoItem => j \in X) BY <1>5, <2>1 DEF Placed
    <2>3. \A v : /\ At(S, MailRow(k), v) = TRUE /\ At(S, MailTo(k), v) = Address(ds[n])
                 /\ At(S, MailMoney(k), v) = ds[n].money
                 /\ j # NoItem => At(S, MailItem(j), v) = k /\ At(S, MailItemTo(j), v) = ds[n].to
        BY <2>1 DEF MoveRows, SendsAll
    <2>4. u[MailRow(k)] = TRUE
        <3>1. \A v : At(S, MailRow(k), v) = TRUE BY <2>3, Zenon
        <3>2. PICK v : v = At(c, MailRow(k), t[MailRow(k)]) OBVIOUS
        <3>3. u[MailRow(k)] = At(S, MailRow(k), v) BY <1>3, <1>4, <2>2, <3>2
        <3> QED BY <3>1, <3>3
    <2>5. u[MailTo(k)] = Address(ds[n]) /\ u[MailMoney(k)] = ds[n].money BY <1>3, <1>4, <2>2, <2>3
    <2>6. ASSUME j # NoItem PROVE In(u, k, j) /\ u[MailItemTo(j)] = ds[n].to
        <3>1. j \in Item /\ ~u[GivenUp(j)] BY <1>6, <1>7, <2>2, <2>6
        <3>2. u[MailItem(j)] = k /\ u[MailItemTo(j)] = ds[n].to BY <1>3, <1>4, <2>3, <2>6, <3>1
        <3> QED BY <3>1, <3>2 DEF In
    <2> QED BY <2>1, <2>4, <2>5, <2>6
<1>10. ASSUME NEW m \in MailId \ Sent(ds)
       PROVE  /\ u[MailTo(m)] = t[MailTo(m)] /\ u[MailMoney(m)] = t[MailMoney(m)]
              /\ m \notin D => u[MailRow(m)] = t[MailRow(m)]
    BY <1>3, <1>4 DEF MoveRows, SendsNoMore
<1>11. ASSUME NEW i \in Item \ X
       PROVE  /\ u[ItemRow(i)] = t[ItemRow(i)] /\ u[MailItem(i)] = t[MailItem(i)]
              /\ u[GivenUp(i)] = t[GivenUp(i)] /\ u[MailItemTo(i)] = t[MailItemTo(i)]
              /\ u[AuctionRow(i)] = NoAuction <=> t[AuctionRow(i)] = NoAuction
    <2>1. \A n \in DOMAIN ds : ds[n].item # i BY MailAssumption DEF Placed
    <2>2. u[MailItem(i)] = t[MailItem(i)] /\ u[MailItemTo(i)] = t[MailItemTo(i)]
        BY <1>3, <1>4, <2>1 DEF MoveRows, SendsNoMore
    <2>3. u[ItemRow(i)] = t[ItemRow(i)] /\ u[AuctionRow(i)] = t[AuctionRow(i)]
        BY <1>3, <1>4 DEF MoveRows
    <2> QED BY <1>6, <2>2, <2>3
<1>12. ASSUME NEW i \in Item, i \in X
       PROVE  /\ OnePlace(u, i)
              /\ \A m \in MailId : In(u, m, i) =>
                   \E n \in DOMAIN ds : m = Ids(ds)[n] /\ ds[n].item = i /\ u[MailItemTo(i)] = ds[n].to
    <2>1. u[ItemRow(i)] = Nobody /\ ~u[GivenUp(i)] BY <1>1, <1>3, <1>4, <1>6, <1>7, <1>12 DEF Placed
    <2>2. i # NoItem BY MailAssumption
    <2>3. CASE At(c, AuctionRow(i), t[AuctionRow(i)]) = NoAuction /\ \E n \in DOMAIN ds : ds[n].item = i
        <3>1. PICK n \in DOMAIN ds : ds[n].item = i BY <2>3
        <3>2. In(u, Ids(ds)[n], i) /\ u[MailItemTo(i)] = ds[n].to BY <1>9, <2>2, <3>1
        <3>3. u[AuctionRow(i)] = NoAuction BY <1>3, <1>4, <2>3
        <3>4. Ids(ds)[n] \in MailId BY <1>5
        <3>5. OnePlace(u, i) BY <2>1, <3>2, <3>3, <3>4 DEF OnePlace
        <3>6. \A m \in MailId : In(u, m, i) => m = Ids(ds)[n] BY <3>2 DEF In
        <3> QED BY <3>1, <3>2, <3>5, <3>6
    <2>4. CASE /\ At(c, AuctionRow(i), t[AuctionRow(i)]) # NoAuction
               /\ p # Nobody /\ t[ItemRow(i)] = p /\ \A n \in DOMAIN ds : ds[n].item # i
        <3>1. u[AuctionRow(i)] # NoAuction BY <1>3, <1>4, <2>4
        <3>2. u[MailItem(i)] = t[MailItem(i)] BY <1>3, <1>4, <2>4 DEF MoveRows, SendsNoMore
        <3>3. \A m \in MailId : ~In(t, m, i) BY <1>2, <2>4 DEF Ledger, OnePlace
        <3>4. \A m \in MailId : ~In(u, m, i) BY <1>6, <3>2, <3>3 DEF In
        <3> QED BY <2>1, <3>1, <3>4 DEF OnePlace
    <2> QED BY <1>1, <1>12, <2>3, <2>4 DEF Placed
<1>13. Deed(p, t, u, ds, D, Z, X) BY <1>8, <1>9, <1>10, <1>11, <1>12 DEF Deed
<1> QED BY <1>1, <1>13

\* The memory after such a transaction, whose drafts go into the boxes bx.
MoveShown(p, ds, D, X, g, bx) ==
    /\ \A q \in online' \ {p} : bx[q] = box[q] /\ money'[q] = money[q] /\ inv'[q] = inv[q]
    /\ \A q \in online' : Delivered(box'[q], bx[q], ds, q)
    /\ p \in online' =>
        /\ Remains(bx[p], box[p], D, {}, X) /\ inv'[p] \subseteq inv[p] \ X
        /\ At(g, GoldRow(p), money[p]) = money'[p]

\* A transaction that moves items keeps the ledger.
LEMMA MoveLedger ==
    ASSUME TypeInv, TypeInv', LedgerInv, NEW p \in online \cup {Nobody}, NEW f, Commit(f), db' = db,
           online' = online, NEW ds \in Seq(DraftType), CanSend(ds), OneItem(ds),
           NEW D, NEW X \in SUBSET Item, NEW g, NEW S, NEW c, Linked(f),
           MoveRows(f, p, ds, D, X, g, S, c), Placed(p, ds, X, c, End), Rightful(p, End, ds, D, {}, X),
           NEW bx, MoveShown(p, ds, D, X, g, bx)
    PROVE  LedgerInv'
<1>1. PICK u, Z : u = f ++ End /\ Z = {} OBVIOUS
<1>2. Rightful(p, End, ds, D, Z, X) BY <1>1
<1>3. Deed(p, End, u, ds, D, Z, X) BY <1>1, <1>2, MoveDeed
<1>4. DOMAIN End = RowNames /\ online \subseteq Player /\ Nobody \notin Player
    BY StoreAssumption DEF End, TypeInv, PlayersTyped
<1>5. /\ \A q \in online' \ {p} : bx[q] = box[q] /\ money'[q] = money[q] /\ inv'[q] = inv[q]
      /\ \A q \in online' : Delivered(box'[q], bx[q], ds, q)
    BY DEF MoveShown
<1>6. ASSUME p \in online'
      PROVE  /\ Remains(bx[p], box[p], D, Z, X) /\ \A m \in Z : u[MailMoney(m)] = 0
             /\ u[GoldRow(p)] = money'[p] /\ \A i \in inv'[p] : u[ItemRow(i)] = p
    <2>1. /\ Remains(bx[p], box[p], D, Z, X) /\ inv'[p] \subseteq inv[p] \ X
          /\ At(g, GoldRow(p), money[p]) = money'[p]
        BY <1>1, <1>6 DEF MoveShown
    <2>2. p \in Player /\ inv[p] \subseteq Item BY <1>4, <1>6 DEF TypeInv, PlayersTyped
    <2>3. Backs(End, p, money[p], inv[p], box[p]) BY <1>6 DEF LedgerInv, Memory
    <2>4. u[GoldRow(p)] = At(f, GoldRow(p), End[GoldRow(p)]) BY <1>1, <1>4, <2>2, TableAfter
    <2>5. \A q, v : At(f, GoldRow(q), v) = At(g, GoldRow(q), v) BY MoveAt
    <2>6. u[GoldRow(p)] = money'[p] BY <2>1, <2>3, <2>4, <2>5 DEF Backs
    <2>7. ASSUME NEW i \in inv'[p] PROVE u[ItemRow(i)] = p
        <3>1. i \in Item \ X /\ End[ItemRow(i)] = p BY <2>1, <2>2, <2>3 DEF Backs
        <3> QED BY <1>3, <3>1 DEF Deed
    <2> QED BY <1>1, <2>1, <2>6, <2>7
<1> QED BY <1>1, <1>2, <1>3, <1>5, <1>6, DeedLedger

\* Items that p carries or that are on sale are in no mail of his box.
LEMMA SameRemains ==
    ASSUME TypeInv, LedgerInv, NEW p \in online, NEW X,
           \A i \in Item \cap X : End[ItemRow(i)] # Nobody \/ End[AuctionRow(i)] # NoAuction
    PROVE  Remains(box[p], box[p], {}, {}, X)
<1>1. Backs(End, p, money[p], inv[p], box[p]) BY DEF LedgerInv, Memory
<1>2. p \in Player BY DEF TypeInv, PlayersTyped
<1>3. DOMAIN box[p] \subseteq MailId BY <1>2, BoxFacts DEF TypeInv
<1>4. End = Tab(Len(queue)) /\ Len(queue) \in 0 .. Len(queue) BY TabFacts
<1>5. Ledger(End) BY <1>4 DEF LedgerInv, Books
<1>6. ASSUME NEW m \in DOMAIN box[p], NEW i \in Item, box[p][m].item = i, i \in X PROVE FALSE
    <2>1. In(End, m, i) /\ m \in MailId BY <1>1, <1>3, <1>6 DEF Backs
    <2>2. OnePlace(End, i) BY <1>5 DEF Ledger
    <2> QED BY <1>6, <2>1, <2>2 DEF OnePlace
<1> QED BY <1>6 DEF Remains

\* A box without mail m.
LEMMA RestRemains ==
    ASSUME TypeInv, LedgerInv, NEW p \in online, NEW m \in DOMAIN box[p],
           NEW a, a = [x \in DOMAIN box[p] \ {m} |-> box[p][x]], NEW X, X = ItemsIn(p, {m})
    PROVE  Remains(a, box[p], {m}, {}, X)
<1>1. DOMAIN a = DOMAIN box[p] \ {m} /\ \A k \in DOMAIN a : a[k] = box[p][k] OBVIOUS
<1>2. ASSUME NEW k \in DOMAIN a, NEW i \in Item, box[p][k].item = i, i \in X PROVE FALSE
    <2>1. box[p][m].item = i BY <1>2 DEF ItemsIn
    <2>2. k = m BY <1>1, <1>2, <2>1, BoxItems
    <2> QED BY <1>1, <2>2
<1> QED BY <1>1, <1>2 DEF Remains

\* A mail of the server is thrown away, and the mail of a player goes back.
LEMMA ReturnLedger ==
    ASSUME TypeInv, TypeInv', LedgerInv, NEW p \in Player, NEW m \in MailId,
           HandleMailReturnToSender(p, m)
    PROVE  LedgerInv'
<1> DEFINE mail == box[p][m]
           d == Draft(mail.address.from, p, TRUE, TRUE, mail.money, 0, mail.item)
<1>1. PICK ds, rest, bx :
        /\ ds = IF mail.address.normal THEN <<d>> ELSE <<>>
        /\ rest = [x \in DOMAIN box[p] \ {m} |-> box[p][x]] /\ bx = [box EXCEPT ![p] = rest]
    OBVIOUS
<1>2. /\ p \in online /\ m \in DOMAIN box[p] /\ CanSend(ds) /\ box' = Deliver(bx, ds)
      /\ UNCHANGED <<online, inv, money, db>>
      /\ mail.address.normal => Commit(SendRows(ds) ++ Write(MailRow(m), FALSE))
      /\ ~mail.address.normal => Commit(DeleteRows(p, {m}) ++ Fee(mail.money))
    BY <1>1 DEF HandleMailReturnToSender, Open, InBox
<1>3. /\ mail.money \in Nat /\ mail.item \in Item \cup {NoItem} /\ mail.address.normal \in BOOLEAN
      /\ mail.address.normal => mail.address.from \in Player
      /\ box \in [Player -> Boxes] /\ online \subseteq Player
    BY <1>2, BoxFacts DEF TypeInv, PlayersTyped, AddressType, AddressRecord
<1>4. bx[p] = rest /\ \A q \in Player : q # p => bx[q] = box[q] BY <1>1, <1>3
<1>5. PICK X, D, o : X = ItemsIn(p, {m}) /\ D = {m} /\ o = NoRows OBVIOUS
<1>6. Remains(bx[p], box[p], D, {}, X)
    <2>1. Remains(rest, box[p], {m}, {}, X) BY <1>1, <1>2, <1>5, RestRemains
    <2> QED BY <1>4, <1>5, <2>1
<1>7. ds \in Seq(DraftType) /\ (~mail.address.normal => ds = <<>>)
      /\ (mail.address.normal => d \in DraftType /\ ds = <<d>>)
    <2>1. mail.address.normal => d \in DraftType
        <3>1. PICK a, c, i : a = mail.address.from /\ c = mail.money /\ i = mail.item OBVIOUS
        <3>2. mail.address.normal => Draft(a, p, TRUE, TRUE, c, 0, i) \in DraftType
            BY <1>3, <3>1, DraftTyped, CodesNat
        <3> QED BY <3>1, <3>2
    <2> HIDE DEF d, mail
    <2> QED BY <1>1, <2>1, DraftSeqs
<1>8. \A q \in online' : Delivered(box'[q], bx[q], ds, q) BY <1>2, <1>3, <1>7, DeliverAdds
<1>9. /\ \A K : Only(o, K)
      /\ \A r, v : At(o, r, v) = v
      /\ Without(<<>>) /\ DOMAIN <<>> = {} /\ Sent(<<>>) = {}
      /\ SendsAll(o, <<>>) /\ SendsNoMore(o, <<>>)
    BY <1>5, NoParts
<1>10. CASE ~mail.address.normal
    <2>1. PICK C, F, f : C = DeleteRows(p, D) /\ F = Fee(mail.money) /\ f = C ++ F OBVIOUS
    <2>2. Commit(f) /\ ds = <<>> BY <1>2, <1>5, <1>7, <1>10, <2>1
    <2>3. /\ Only(C, {"mail", "mail_item", "given_up"}) /\ DeletesAll(C, p, D) /\ DeletesNoMore(C, p, D)
          /\ Linked(C)
        BY <2>1, DeleteAt, LinkedParts
    <2>4. Only(F, {"fees"}) /\ Linked(F) BY <2>1, PartKinds, LinkedParts
    <2>5. Linked(f) BY <2>1, <2>3, <2>4, LinkedParts
    <2>6. \A r, v : At(f, r, v) = At(C, r, At(F, r, v)) BY <2>1, AtFacts
    <2>7. \A r, v : At(f, r, v) = At(o, r, At(o, r, At(o, r, At(C, r, At(F, r, v))))) BY <1>9, <2>6
    <2>8. PICK Z : Z = {} OBVIOUS
    <2>9. MailWrites(f, p, ds, D, Z, Z)
        <3>1. /\ Only(o, {"gold"}) /\ Only(o, {"item", "mail_money", "mail_item", "mail_cod"})
              /\ Only(o, MailKinds) /\ SendsAll(o, ds) /\ SendsNoMore(o, ds) /\ Without(ds)
              /\ Z \cap Sent(ds) = {} /\ \A x : x \notin Z
            BY <1>9, <2>2, <2>8
        <3> QED BY <1>9, <2>3, <2>4, <2>7, <3>1, MailParts
    <2>10. At(f, GoldRow(p), money[p]) = money'[p]
        <3>1. \A v : At(C, GoldRow(p), v) = v /\ At(F, GoldRow(p), v) = v BY <2>3, <2>4, AtOthers
        <3> QED BY <1>2, <2>6, <3>1
    <2>11. Remains(bx[p], box[p], D, Z, Z \cup ItemsIn(p, D)) BY <1>5, <1>6, <2>8
    <2>12. MailShown(f, p, ds, D, Z, Z, bx)
        BY <1>2, <1>3, <1>4, <1>8, <2>8, <2>10, <2>11 DEF MailShown
    <2>13. /\ D \in SUBSET DOMAIN box[p] /\ Z \in SUBSET DOMAIN box[p] /\ Z \in SUBSET Item
           /\ \A i \in Z : \E k \in DOMAIN box[p] \ D : box[p][k].item = i
           /\ Without(ds) /\ (NobodyMails => \A n \in DOMAIN ds : ~ds[n].normal)
        BY <1>2, <1>5, <1>9, <2>2, <2>8
    <2> HIDE DEF mail
    <2> QED BY <1>2, <1>7, <2>2, <2>5, <2>9, <2>12, <2>13, MailLedger
<1>11. CASE mail.address.normal
    <2>1. PICK S, c, f : S = SendRows(ds) /\ c = Write(MailRow(m), FALSE) /\ f = S ++ c OBVIOUS
    <2>2. Commit(f) BY <1>2, <1>11, <2>1
    <2>3. /\ DOMAIN ds = {1} /\ ds[1].item = mail.item /\ OneItem(ds)
        <3>1. d.item = mail.item BY DEF Draft
        <3> HIDE DEF d, mail
        <3> QED BY <1>7, <1>11, <3>1, OneDraft
    <2>4. Only(S, MailKinds) /\ SendsAll(S, ds) /\ SendsNoMore(S, ds) /\ Linked(S)
        BY <1>2, <1>7, <2>1, <2>3, SendAt, LinkedParts
    <2>5. Only(c, {"mail"}) /\ \A k, v : k # m => At(c, MailRow(k), v) = v
        <3>1. \A k : MailRow(k) = MailRow(m) <=> k = m BY RowKeys
        <3>2. PICK no : no = FALSE OBVIOUS
        <3>3. c = Write(MailRow(m), no) BY <2>1, <3>2
        <3>4. Only(c, {"mail"}) BY <3>3, PartKinds
        <3>5. \A r, v : At(c, r, v) = IF r = MailRow(m) THEN no ELSE v BY <3>3, AtFacts
        <3> QED BY <3>1, <3>4, <3>5
    <2>6. \A k, v : At(c, ItemRow(k), v) = v /\ At(c, AuctionRow(k), v) = v BY <2>5, AtOthers
    <2>7. MoveRows(f, p, ds, D, X, o, S, c)
        <3>1. Only(c, {"item", "auction", "auction_bid", "fees", "mail"}) BY <2>5 DEF Only
        <3>2. \A r, v : At(f, r, v) = At(S, r, At(c, r, v))
            <4>1. f = S ++ c BY <2>1
            <4> QED BY <4>1, AtFacts
        <3>3. \A r, v : At(f, r, v) = At(o, r, At(S, r, At(c, r, v))) BY <1>9, <3>2
        <3> QED BY <1>5, <1>9, <2>4, <2>5, <2>6, <3>1, <3>3 DEF MoveRows
    <2>8. Linked(f)
        <3>1. Linked(c) BY <2>5, LinkedParts
        <3> QED BY <2>1, <2>4, <3>1, LinkedParts
    <2>9. X \in SUBSET Item /\ X = {mail.item} \ {NoItem} BY <1>3, <1>5 DEF ItemsIn
    <2>10. PICK t : t = End OBVIOUS
    <2>11. /\ t[MailRow(m)] /\ t[MailTo(m)].to = p
           /\ \A i \in Item : mail.item = i <=> In(t, m, i)
        <3>1. Backs(t, p, money[p], inv[p], box[p]) BY <1>2, <2>10 DEF LedgerInv, Memory
        <3> QED BY <1>2, <3>1 DEF Backs
    <2>12. ASSUME NEW i \in X PROVE In(t, m, i) /\ t[ItemRow(i)] = Nobody /\ t[AuctionRow(i)] = NoAuction
        <3>1. In(t, m, i) /\ i \in Item BY <2>9, <2>11
        <3>2. End = Tab(Len(queue)) /\ Len(queue) \in 0 .. Len(queue) BY TabFacts
        <3>3. OnePlace(t, i) BY <2>10, <3>1, <3>2 DEF LedgerInv, Books, Ledger
        <3> QED BY <3>1, <3>3 DEF OnePlace
    <2>13. Placed(p, ds, X, c, t) BY <2>3, <2>6, <2>9, <2>12 DEF Placed
    <2>14. ~NobodyMails BY <1>2, <1>11, BoxNormal
    <2>15. \A i \in Item : In(t, m, i) => i \in X BY <2>9, <2>11, MailAssumption
    <2>16. Rightful(p, t, ds, D, {}, X) BY <1>5, <2>11, <2>12, <2>14, <2>15 DEF Rightful
    <2>17. MoveShown(p, ds, D, X, o, bx)
        <3>1. inv'[p] \subseteq inv[p] \ X
            <4>1. ASSUME NEW i \in inv[p], i \in X PROVE FALSE
                <5>1. Backs(t, p, money[p], inv[p], box[p]) BY <1>2, <2>10 DEF LedgerInv, Memory
                <5>2. t[ItemRow(i)] = p BY <4>1, <5>1 DEF Backs
                <5> QED BY <2>12, <4>1, <5>2, StoreAssumption
            <4> QED BY <1>2, <4>1
        <3> QED BY <1>2, <1>3, <1>4, <1>6, <1>8, <1>9, <3>1 DEF MoveShown
    <2> HIDE DEF mail, d
    <2> QED BY <1>2, <1>7, <2>2, <2>3, <2>7, <2>8, <2>9, <2>10, <2>13, <2>16, <2>17, MoveLedger
<1> QED BY <1>3, <1>10, <1>11

\* The money of a player in a transaction.
Pays(G, p, h) ==
    /\ Only(G, {"gold"}) /\ Linked(G) /\ \A q, v : q # p => At(G, GoldRow(q), v) = v
    /\ \A v : At(G, GoldRow(p), v) = h[p]
LEMMA GoldPart == ASSUME NEW p, NEW h, NEW G, G = GoldRows({p}, h) PROVE Pays(G, p, h)
<1>1. Only(G, {"gold"}) BY PartKinds
<1>2. \A q, v : At(G, GoldRow(q), v) = IF q = p THEN h[p] ELSE v BY GoldAt
<1>3. Linked(G) BY <1>1, LinkedParts
<1> QED BY <1>1, <1>2, <1>3 DEF Pays

\* What a player has, the tables show in one place only.
LEMMA CarriedOnce ==
    ASSUME TypeInv, LedgerInv, NEW p \in online, NEW i \in inv[p]
    PROVE  End[ItemRow(i)] = p /\ p # Nobody /\ End[AuctionRow(i)] = NoAuction /\ i \in Item
<1>1. Backs(End, p, money[p], inv[p], box[p]) BY DEF LedgerInv, Memory
<1>2. End[ItemRow(i)] = p BY <1>1 DEF Backs
<1>3. p # Nobody /\ i \in Item BY StoreAssumption DEF TypeInv, PlayersTyped
<1>4. End = Tab(Len(queue)) /\ Len(queue) \in 0 .. Len(queue) BY TabFacts
<1>5. OnePlace(End, i) BY <1>3, <1>4 DEF LedgerInv, Books, Ledger
<1> QED BY <1>2, <1>3, <1>5 DEF OnePlace

\* A player sends a mail.
LEMMA SendLedger ==
    ASSUME TypeInv, TypeInv', LedgerInv, NEW p \in Player, NEW q \in Player,
           NEW i \in Item \cup {NoItem}, NEW g \in Amounts, NEW cod \in Amounts,
           HandleSendMail(p, q, i, g, cod)
    PROVE  LedgerInv'
<1>1. PICK d, ds, h, last : /\ d = Draft(q, p, TRUE, FALSE, g, Uint32(cod), i) /\ ds = <<d>>
                            /\ h = [money EXCEPT ![p] = Paid(@, MailCost + g)]
                            /\ last = IF i = NoItem THEN NoRows ELSE Write(ItemRow(i), Nobody)
    OBVIOUS
<1>2. PICK G, S, F, f : /\ G = GoldRows({p}, h) /\ S = SendRows(ds) /\ F = Fee(MailCost)
                        /\ f = ((G ++ S) ++ F) ++ last
    OBVIOUS
<1>3. /\ p \in online /\ i \in inv[p] \cup {NoItem} /\ CanSend(ds)
      /\ p \in GameMaster \/ money[p] >= MailCost + g
      /\ inv' = [inv EXCEPT ![p] = @ \ {i}] /\ money' = h /\ box' = Deliver(box, ds)
      /\ UNCHANGED <<online, db>> /\ Commit(f)
    BY <1>1, <1>2 DEF HandleSendMail
<1>4. g \in Nat /\ MailCost \in Nat /\ MaxMoney \in Nat BY MailAssumption, StoreAssumption
<1>5. d \in DraftType /\ d.item = i
    <2>1. PICK c \in Codes : c = Uint32(cod) BY DEF Codes
    <2>2. Draft(q, p, TRUE, FALSE, g, c, i) \in DraftType BY <1>4, DraftTyped
    <2> QED BY <1>1, <2>1, <2>2 DEF Draft
<1>6. ds \in Seq(DraftType) /\ DOMAIN ds = {1} /\ ds[1].item = i /\ OneItem(ds) BY <1>1, <1>5, OneDraft
<1>7. /\ money \in [Player -> 0 .. MaxMoney] /\ inv \in [Player -> SUBSET Item] /\ online \subseteq Player
    BY DEF TypeInv, PlayersTyped
<1>8. ~NobodyMails
    <2>1. money[p] \in 0 .. MaxMoney BY <1>7
    <2>2. MailCost > MaxMoney => p \in GameMaster BY <1>3, <1>4, <2>1
    <2> QED BY <2>2 DEF NobodyMails
<1>9. /\ Only(G, {"gold"}) /\ Linked(G) /\ \A x, v : x # p => At(G, GoldRow(x), v) = v
      /\ \A v : At(G, GoldRow(p), v) = h[p]
    <2>1. G = GoldRows({p}, h) BY <1>2
    <2>2. Pays(G, p, h) BY <2>1, GoldPart
    <2> QED BY <2>2 DEF Pays
<1>10. Only(S, MailKinds) /\ SendsAll(S, ds) /\ SendsNoMore(S, ds) /\ Linked(S)
    BY <1>2, <1>3, <1>6, SendAt, LinkedParts
<1>11. Only(F, {"fees"}) BY <1>2, PartKinds
<1>12. PICK X, D : X = {i} \ {NoItem} /\ D = {} OBVIOUS
<1>13. /\ Only(last, {"item"})
       /\ \A k, v : k \notin X => At(last, ItemRow(k), v) = v
       /\ \A k, v : k \in X => At(last, ItemRow(k), v) = Nobody
    <2>1. CASE i = NoItem
        <3>1. last = NoRows /\ X = {} BY <1>1, <1>12, <2>1
        <3> QED BY <3>1, NoParts
    <2>2. CASE i # NoItem
        <3>1. last = Write(ItemRow(i), Nobody) /\ X = {i} BY <1>1, <1>12, <2>2
        <3>2. \A k : ItemRow(k) = ItemRow(i) <=> k = i BY RowKeys
        <3>3. Only(last, {"item"}) BY <3>1, PartKinds
        <3>4. \A r, v : At(last, r, v) = IF r = ItemRow(i) THEN Nobody ELSE v BY <3>1, AtFacts
        <3> QED BY <3>1, <3>2, <3>3, <3>4
    <2> QED BY <2>1, <2>2
<1>14. PICK c : c = F ++ last OBVIOUS
<1>15. /\ \A r, v : At(c, r, v) = At(F, r, At(last, r, v))
       /\ DOMAIN c = DOMAIN F \cup DOMAIN last
    <2>1. DOMAIN c = DOMAIN F \cup DOMAIN last BY <1>14 DEF ++
    <2> QED BY <1>14, <2>1, AtFacts
<1>16. Only(c, {"item", "auction", "auction_bid", "fees", "mail"}) BY <1>11, <1>13, <1>15 DEF Only
<1>17. /\ \A k, v : k \notin X => At(c, ItemRow(k), v) = v
       /\ \A k, v : k \in X => At(c, ItemRow(k), v) = Nobody
       /\ \A k, v : At(c, AuctionRow(k), v) = v
       /\ \A k, v : At(c, MailRow(k), v) = v
    <2>1. \A k, v : At(F, ItemRow(k), v) = v /\ At(F, AuctionRow(k), v) = v /\ At(F, MailRow(k), v) = v
        BY <1>11, AtOthers
    <2>2. \A k, v : At(last, AuctionRow(k), v) = v /\ At(last, MailRow(k), v) = v BY <1>13, AtOthers
    <2> QED BY <1>13, <1>15, <2>1, <2>2
<1>18. Linked(f)
    <2>1. Linked(F) /\ Linked(last) BY <1>11, <1>13, LinkedParts
    <2> QED BY <1>2, <1>9, <1>10, <2>1, LinkedParts
<1>19. MoveRows(f, p, ds, D, X, G, S, c)
    <2>1. \A r, v : At(f, r, v) = At(G, r, At(S, r, At(F, r, At(last, r, v)))) BY <1>2, AtFacts
    <2>2. \A r, v : At(f, r, v) = At(G, r, At(S, r, At(c, r, v))) BY <1>15, <2>1
    <2> QED BY <1>9, <1>10, <1>16, <1>17, <2>2 DEF MoveRows
<1>20. \A k \in X : /\ k \in Item /\ k = i /\ End[ItemRow(k)] = p /\ p # Nobody
                    /\ End[AuctionRow(k)] = NoAuction
    BY <1>3, <1>12, CarriedOnce
<1>21. X \in SUBSET Item BY <1>20
<1>22. Placed(p, ds, X, c, End) BY <1>6, <1>12, <1>17, <1>20 DEF Placed
<1>23. Rightful(p, End, ds, D, {}, X) BY <1>8, <1>12, <1>20 DEF Rightful
<1>24. MoveShown(p, ds, D, X, G, box)
    <2>1. Remains(box[p], box[p], {}, {}, X) BY <1>3, <1>20, SameRemains
    <2>2. \A x \in online' : Delivered(box'[x], box[x], ds, x) BY <1>3, <1>6, <1>7, DeliverAdds
    <2>3. /\ \A x \in online' \ {p} : money'[x] = money[x] /\ inv'[x] = inv[x]
          /\ money'[p] = h[p] /\ inv'[p] = inv[p] \ {i}
        BY <1>1, <1>3, <1>7
    <2>4. inv'[p] \subseteq inv[p] \ X BY <1>12, <2>3
    <2> QED BY <1>9, <1>12, <2>1, <2>2, <2>3, <2>4 DEF MoveShown
<1> QED BY <1>3, <1>6, <1>18, <1>19, <1>21, <1>22, <1>23, <1>24, MoveLedger

\* A player puts an item up for sale.
LEMMA SellLedger ==
    ASSUME TypeInv, TypeInv', LedgerInv, NEW p \in Player, NEW i \in Item,
           NEW sb \in StartBids, NEW bo \in Buyouts, HandleAuctionSellItem(p, i, sb, bo)
    PROVE  LedgerInv'
<1>1. PICK h, rec, bid : /\ h = [money EXCEPT ![p] = Paid(@, Deposit)]
                         /\ rec = [owner |-> p, startbid |-> sb, buyout |-> bo, deposit |-> Deposit]
                         /\ bid = [bidder |-> Nobody, bid |-> 0]
    OBVIOUS
<1>2. PICK G, W, A, B, f : /\ G = GoldRows({p}, h) /\ W = Write(ItemRow(i), Nobody)
                           /\ A = Write(AuctionRow(i), rec) /\ B = Write(BidRow(i), bid)
                           /\ f = ((G ++ W) ++ A) ++ B
    OBVIOUS
<1>3. /\ p \in online /\ i \in inv[p] /\ money' = h /\ inv' = [inv EXCEPT ![p] = @ \ {i}]
      /\ box' = box /\ UNCHANGED <<online, db>> /\ Commit(f)
    BY <1>1, <1>2 DEF HandleAuctionSellItem
<1>4. rec # NoAuction
    <2>1. rec \in ListingRecord BY <1>1 DEF ListingRecord
    <2> QED BY <2>1, AuctionAssumption
<1>5. /\ money \in [Player -> 0 .. MaxMoney] /\ inv \in [Player -> SUBSET Item] /\ online \subseteq Player
    BY DEF TypeInv, PlayersTyped
<1>6. /\ Only(G, {"gold"}) /\ Linked(G) /\ \A x, v : x # p => At(G, GoldRow(x), v) = v
      /\ \A v : At(G, GoldRow(p), v) = h[p]
    <2>1. G = GoldRows({p}, h) BY <1>2
    <2>2. Pays(G, p, h) BY <2>1, GoldPart
    <2> QED BY <2>2 DEF Pays
<1>7. PICK o, ds, D, X, c : /\ o = NoRows /\ ds = <<>> /\ D = {} /\ X = {i} /\ c = (W ++ A) ++ B
    OBVIOUS
<1>8. /\ Only(o, MailKinds) /\ SendsAll(o, ds) /\ SendsNoMore(o, ds) /\ \A r, v : At(o, r, v) = v
      /\ ds \in Seq(DraftType) /\ DOMAIN ds = {} /\ CanSend(ds) /\ OneItem(ds)
    <2>1. /\ Only(o, MailKinds) /\ SendsAll(o, ds) /\ SendsNoMore(o, ds) /\ \A r, v : At(o, r, v) = v
          /\ ds \in Seq(DraftType) /\ DOMAIN ds = {} /\ CanSend(ds)
        BY <1>7, NoParts
    <2> QED BY <2>1 DEF OneItem
<1>9. Only(W, {"item"}) /\ Only(A, {"auction"}) /\ Only(B, {"auction_bid"}) BY <1>2, PartKinds
<1>10. /\ \A r, v : At(c, r, v) = At(W, r, At(A, r, At(B, r, v)))
       /\ DOMAIN c = DOMAIN W \cup DOMAIN A \cup DOMAIN B
    <2>1. PICK d : d = W ++ A OBVIOUS
    <2>2. c = d ++ B BY <1>7, <2>1
    <2>3. DOMAIN d = DOMAIN W \cup DOMAIN A /\ DOMAIN c = DOMAIN d \cup DOMAIN B BY <2>1, <2>2 DEF ++
    <2> QED BY <1>7, <2>3, AtFacts
<1>11. Only(c, {"item", "auction", "auction_bid", "fees", "mail"}) BY <1>9, <1>10 DEF Only
<1>12. /\ \A k, v : At(c, ItemRow(k), v) = IF k = i THEN Nobody ELSE v
       /\ \A k, v : At(c, AuctionRow(k), v) = IF k = i THEN rec ELSE v
       /\ \A k, v : At(c, MailRow(k), v) = v
    <2>1. \A k, v : /\ At(A, ItemRow(k), v) = v /\ At(B, ItemRow(k), v) = v
                    /\ At(W, AuctionRow(k), v) = v /\ At(B, AuctionRow(k), v) = v
                    /\ At(W, MailRow(k), v) = v /\ At(A, MailRow(k), v) = v /\ At(B, MailRow(k), v) = v
        BY <1>9, AtOthers
    <2>2. \A k : (ItemRow(k) = ItemRow(i) <=> k = i) /\ (AuctionRow(k) = AuctionRow(i) <=> k = i) BY RowKeys
    <2>3. \A k, v : At(W, ItemRow(k), v) = IF k = i THEN Nobody ELSE v BY <1>2, <2>2, AtFacts
    <2>4. \A k, v : At(A, AuctionRow(k), v) = IF k = i THEN rec ELSE v BY <1>2, <2>2, AtFacts
    <2> QED BY <1>10, <2>1, <2>3, <2>4
<1>13. Linked(f)
    <2>1. Linked(W) /\ Linked(A) /\ Linked(B) BY <1>9, LinkedParts
    <2> QED BY <1>2, <1>6, <2>1, LinkedParts
<1>14. MoveRows(f, p, ds, D, X, G, o, c)
    <2>1. \A r, v : At(f, r, v) = At(G, r, At(W, r, At(A, r, At(B, r, v)))) BY <1>2, AtFacts
    <2>2. \A r, v : At(f, r, v) = At(G, r, At(o, r, At(c, r, v))) BY <1>8, <1>10, <2>1
    <2>3. \A k, v : k \notin X => At(c, ItemRow(k), v) = v /\ At(c, AuctionRow(k), v) = v BY <1>7, <1>12
    <2> QED BY <1>6, <1>8, <1>11, <1>12, <2>2, <2>3 DEF MoveRows
<1>15. End[ItemRow(i)] = p /\ p # Nobody /\ End[AuctionRow(i)] = NoAuction /\ i \in Item
    BY <1>3, CarriedOnce
<1>16. X \in SUBSET Item BY <1>7
<1>17. Placed(p, ds, X, c, End) BY <1>4, <1>7, <1>8, <1>12, <1>15 DEF Placed
<1>18. Rightful(p, End, ds, D, {}, X) BY <1>7, <1>8, <1>15 DEF Rightful
<1>19. MoveShown(p, ds, D, X, G, box)
    <2>1. \A k \in Item \cap X : End[ItemRow(k)] # Nobody BY <1>7, <1>15
    <2>2. Remains(box[p], box[p], {}, {}, X) BY <1>3, <2>1, SameRemains
    <2>3. \A x \in online' : Delivered(box'[x], box[x], ds, x) BY <1>3, <1>7, DeliverNone
    <2>4. /\ \A x \in online' \ {p} : money'[x] = money[x] /\ inv'[x] = inv[x]
          /\ money'[p] = h[p] /\ inv'[p] = inv[p] \ {i}
        BY <1>1, <1>3, <1>5
    <2> QED BY <1>6, <1>7, <2>2, <2>3, <2>4 DEF MoveShown
<1> QED BY <1>3, <1>8, <1>13, <1>14, <1>16, <1>17, <1>18, <1>19, MoveLedger

\* No draft of the auction house is a mail of a player.
LEMMA ServerMail ==
    ASSUME NEW to, NEW g, NEW j
    PROVE  AuctionDraft(to, g, j).normal = FALSE /\ AuctionDraft(to, g, j).item = j
  BY DEF AuctionDraft, Draft

\* A bid.
LEMMA BidLedger ==
    ASSUME TypeInv, TypeInv', LedgerInv, NEW p \in Player, NEW i \in Item,
           NEW price \in Prices, PlaceBid(p, i, price)
    PROVE  LedgerInv'
<1>1. PICK h, ds, bid : /\ h = [money EXCEPT ![p] = Paid(@, BidPaid(p, i, price))]
                        /\ ds = Outbid(p, i) /\ bid = [bidder |-> p, bid |-> price]
    OBVIOUS
<1>2. PICK G, S, B, f : /\ G = GoldRows({p}, h) /\ S = SendRows(ds) /\ B = Write(BidRow(i), bid)
                        /\ f = (G ++ S) ++ B
    OBVIOUS
<1>3. /\ ValidBid(p, i, price) /\ CanSend(ds) /\ money' = h /\ box' = Deliver(box, ds)
      /\ inv' = inv /\ UNCHANGED <<online, db>> /\ Commit(f)
    BY <1>1, <1>2 DEF PlaceBid
<1>4. p \in online /\ OnSale(i) BY <1>3 DEF ValidBid
<1>5. money \in [Player -> 0 .. MaxMoney] /\ online \subseteq Player BY DEF TypeInv, PlayersTyped
<1>6. /\ ds \in Seq(DraftType) /\ Without(ds) /\ OneItem(ds)
      /\ \A n \in DOMAIN ds : ~ds[n].normal
    <2>1. /\ Outbid(p, i) \in Seq(DraftType) /\ Without(Outbid(p, i)) /\ OneItem(Outbid(p, i))
          /\ \A d : Among(d, Outbid(p, i)) =>
                d = AuctionDraft(auction[i].bidder, auction[i].bid, NoItem)
        BY <1>4, OutbidDrafts
    <2>2. ASSUME NEW n \in DOMAIN ds PROVE ~ds[n].normal
        <3>1. PICK d, b, g : d = ds[n] /\ b = auction[i].bidder /\ g = auction[i].bid OBVIOUS
        <3>2. Among(d, Outbid(p, i))
            <4>1. Among(d, ds) BY <3>1 DEF Among
            <4> QED BY <1>1, <4>1
        <3>3. d = AuctionDraft(b, g, NoItem)
            <4>1. d = AuctionDraft(auction[i].bidder, auction[i].bid, NoItem) BY <2>1, <3>2
            <4>2. b = auction[i].bidder /\ g = auction[i].bid BY <3>1
            <4> QED BY <4>1, <4>2
        <3>4. AuctionDraft(b, g, NoItem).normal = FALSE BY ServerMail
        <3>5. d.normal = FALSE BY <3>3, <3>4
        <3> QED BY <3>1, <3>5
    <2> QED BY <1>1, <2>1, <2>2
<1>7. /\ Only(G, {"gold"}) /\ Linked(G) /\ \A x, v : x # p => At(G, GoldRow(x), v) = v
      /\ \A v : At(G, GoldRow(p), v) = h[p]
    <2>1. G = GoldRows({p}, h) BY <1>2
    <2>2. Pays(G, p, h) BY <2>1, GoldPart
    <2> QED BY <2>2 DEF Pays
<1>8. Only(S, MailKinds) /\ SendsAll(S, ds) /\ SendsNoMore(S, ds) /\ Linked(S)
    BY <1>2, <1>3, <1>6, SendAt, LinkedParts
<1>9. Only(B, {"auction_bid"}) BY <1>2, PartKinds
<1>10. PICK D, X : D = {} /\ X = {} OBVIOUS
<1>11. Linked(f)
    <2>1. Linked(B) BY <1>9, LinkedParts
    <2> QED BY <1>2, <1>7, <1>8, <2>1, LinkedParts
<1>12. MoveRows(f, p, ds, D, X, G, S, B)
    <2>1. \A r, v : At(f, r, v) = At(G, r, At(S, r, At(B, r, v))) BY <1>2, AtFacts
    <2>2. \A k, v : At(B, ItemRow(k), v) = v /\ At(B, AuctionRow(k), v) = v /\ At(B, MailRow(k), v) = v
        BY <1>9, AtOthers
    <2>3. Only(B, {"item", "auction", "auction_bid", "fees", "mail"}) BY <1>9 DEF Only
    <2> QED BY <1>7, <1>8, <2>1, <2>2, <2>3 DEF MoveRows
<1>13. X \in SUBSET Item BY <1>10
<1>14. Placed(p, ds, X, B, End) BY <1>6, <1>10 DEF Placed, Without
<1>15. Rightful(p, End, ds, D, {}, X) BY <1>6, <1>10 DEF Rightful
<1>16. MoveShown(p, ds, D, X, G, box)
    <2>1. Remains(box[p], box[p], {}, {}, X) BY <1>4, <1>10, SameRemains
    <2>2. \A x \in online' : Delivered(box'[x], box[x], ds, x) BY <1>3, <1>5, <1>6, DeliverAdds
    <2>3. /\ \A x \in online' \ {p} : money'[x] = money[x] /\ inv'[x] = inv[x]
          /\ money'[p] = h[p] /\ inv'[p] = inv[p]
        BY <1>1, <1>3, <1>5
    <2> QED BY <1>7, <1>10, <2>1, <2>2, <2>3 DEF MoveShown
<1> QED BY <1>3, <1>4, <1>6, <1>11, <1>12, <1>13, <1>14, <1>15, <1>16, MoveLedger

-----------------------------------------------------------------------------
(***************************************************************************)
(* The end of an auction: the drafts ds take its item, g is the money of   *)
(* the player p who ends it, and F the fee.                                *)
(***************************************************************************)

\* f is made of four parts.
Stacked(f, a, b, c, d) == \A r, v : At(f, r, v) = At(a, r, At(b, r, At(c, r, At(d, r, v))))
LEMMA StackedRows ==
    ASSUME NEW a, NEW b, NEW c, NEW d, NEW f, f = ((a ++ b) ++ c) ++ d PROVE Stacked(f, a, b, c, d)
  BY AtFacts DEF Stacked

CloseDrafts(ds, i) ==
    /\ ds \in Seq(DraftType) /\ OneItem(ds) /\ OnlyItem(ds, i)
    /\ \E n \in DOMAIN ds : ds[n].item = i
    /\ \A n \in DOMAIN ds : ds[n].normal = FALSE
CloseRows(f, p, i, ds, g, F) ==
    /\ Stacked(f, g, SendRows(ds), AuctionGone(i), F)
    /\ Only(g, {"gold"}) /\ \A q, v : q # p => At(g, GoldRow(q), v) = v
    /\ Only(F, {"fees"}) /\ Linked(g) /\ Linked(f)
CloseShown(p, g) ==
    /\ \A q \in online \ {p} : money'[q] = money[q]
    /\ p \in online => At(g, GoldRow(p), money[p]) = money'[p]

\* Such a transaction keeps the ledger.
LEMMA CloseLedger ==
    ASSUME TypeInv, TypeInv', LedgerInv, HouseInv, ~ExpireWhileDown,
           NEW p \in online \cup {Nobody}, NEW i \in Item, OnSale(i),
           NEW ds, CloseDrafts(ds, i), CanSend(ds), NEW f, NEW g, NEW F, CloseRows(f, p, i, ds, g, F),
           Commit(f), box' = Deliver(box, ds), UNCHANGED <<online, inv, db>>, CloseShown(p, g)
    PROVE  LedgerInv'
<1>1. /\ ds \in Seq(DraftType) /\ OneItem(ds) /\ \A n \in DOMAIN ds : ds[n].item \in {NoItem, i}
      /\ \E n \in DOMAIN ds : ds[n].item = i
      /\ \A n \in DOMAIN ds : ds[n].normal = FALSE
    BY DEF CloseDrafts, OnlyItem
<1>2. PICK S, A, c : S = SendRows(ds) /\ A = AuctionGone(i) /\ c = A ++ F OBVIOUS
<1>3. /\ \A r, v : At(f, r, v) = At(g, r, At(S, r, At(A, r, At(F, r, v))))
      /\ Only(g, {"gold"}) /\ \A q, v : q # p => At(g, GoldRow(q), v) = v
      /\ Only(F, {"fees"}) /\ Linked(f)
    BY <1>2 DEF CloseRows, Stacked
<1>4. Only(S, MailKinds) /\ SendsAll(S, ds) /\ SendsNoMore(S, ds) BY <1>1, <1>2, SendAt
<1>5. Only(A, {"auction"}) /\ \A k, v : At(A, AuctionRow(k), v) = IF k = i THEN NoAuction ELSE v
    <2>1. A = Write(AuctionRow(i), NoAuction) BY <1>2 DEF AuctionGone
    <2>2. \A k : AuctionRow(k) = AuctionRow(i) <=> k = i BY RowKeys
    <2>3. \A r, v : At(A, r, v) = IF r = AuctionRow(i) THEN NoAuction ELSE v BY <2>1, AtFacts
    <2>4. Only(A, {"auction"}) BY <2>1, PartKinds
    <2> QED BY <2>2, <2>3, <2>4
<1>6. /\ \A r, v : At(c, r, v) = At(A, r, At(F, r, v))
      /\ DOMAIN c = DOMAIN A \cup DOMAIN F
    <2>1. DOMAIN c = DOMAIN A \cup DOMAIN F BY <1>2 DEF ++
    <2> QED BY <1>2, <2>1, AtFacts
<1>7. Only(c, {"item", "auction", "auction_bid", "fees", "mail"}) BY <1>3, <1>5, <1>6 DEF Only
<1>8. /\ \A k, v : At(c, ItemRow(k), v) = v /\ At(c, MailRow(k), v) = v
      /\ \A k, v : At(c, AuctionRow(k), v) = IF k = i THEN NoAuction ELSE v
    <2>1. \A k, v : /\ At(A, ItemRow(k), v) = v /\ At(F, ItemRow(k), v) = v
                    /\ At(A, MailRow(k), v) = v /\ At(F, MailRow(k), v) = v
                    /\ At(F, AuctionRow(k), v) = v
        BY <1>3, <1>5, AtOthers
    <2> QED BY <1>5, <1>6, <2>1
<1>9. PICK D, X : D = {} /\ X = {i} OBVIOUS
<1>10. MoveRows(f, p, ds, D, X, g, S, c)
    <2>1. \A r, v : At(f, r, v) = At(g, r, At(S, r, At(c, r, v))) BY <1>3, <1>6
    <2>2. \A k, v : k \notin X => At(c, ItemRow(k), v) = v /\ At(c, AuctionRow(k), v) = v BY <1>8, <1>9
    <2> QED BY <1>3, <1>4, <1>7, <1>8, <2>1, <2>2 DEF MoveRows
<1>11. End[AuctionRow(i)] # NoAuction
    <2>1. Latest(AuctionRow(i)) = Listing(i) BY DEF HouseInv, AuctionsBacked
    <2>2. auction[i] \in AuctionRecord BY DEF OnSale, TypeInv, HouseTyped
    <2>3. Listing(i) \in ListingRecord BY <2>2 DEF Listing, ListingRecord, AuctionRecord
    <2>4. AuctionRow(i) \in RowNames BY RowKinds
    <2>5. End[AuctionRow(i)] = Latest(AuctionRow(i)) BY <2>4 DEF End
    <2> QED BY <2>1, <2>3, <2>5, AuctionAssumption
<1>12. End[ItemRow(i)] = Nobody
    <2>1. End = Tab(Len(queue)) /\ Len(queue) \in 0 .. Len(queue) BY TabFacts
    <2>2. OnePlace(End, i) BY <2>1 DEF LedgerInv, Books, Ledger
    <2> QED BY <1>11, <2>2 DEF OnePlace
<1>13. X \in SUBSET Item BY <1>9
<1>14. Placed(p, ds, X, c, End) BY <1>1, <1>8, <1>9, <1>12 DEF Placed
<1>15. Rightful(p, End, ds, D, {}, X) BY <1>1, <1>9, <1>11 DEF Rightful
<1>16. MoveShown(p, ds, D, X, g, box)
    <2>1. \A q \in online' : Delivered(box'[q], box[q], ds, q)
        <3>1. online \subseteq Player BY DEF TypeInv, PlayersTyped
        <3> QED BY <1>1, <3>1, DeliverAdds
    <2>2. ASSUME p \in online
          PROVE  Remains(box[p], box[p], {}, {}, X) /\ inv'[p] \subseteq inv[p] \ X
        <3>1. \A k \in Item \cap X : End[AuctionRow(k)] # NoAuction BY <1>9, <1>11
        <3>2. Remains(box[p], box[p], {}, {}, X) BY <2>2, <3>1, SameRemains
        <3>3. i \notin inv[p]
            <4>1. Backs(End, p, money[p], inv[p], box[p]) BY <2>2 DEF LedgerInv, Memory
            <4>2. p # Nobody BY <2>2, StoreAssumption DEF TypeInv, PlayersTyped
            <4> QED BY <1>12, <4>1, <4>2 DEF Backs
        <3> QED BY <1>9, <3>2, <3>3
    <2> QED BY <1>9, <2>1, <2>2 DEF MoveShown, CloseShown
<1> QED BY <1>1, <1>3, <1>10, <1>13, <1>14, <1>15, <1>16, MoveLedger

\* The drafts of the auction house that are among ds.
LEMMA AmongHouse ==
    ASSUME NEW ds, NEW i \in Item, ds \in Seq(DraftType), OneItem(ds), OnlyItem(ds, i),
           \E d : Among(d, ds) /\ d.item = i,
           \A d : Among(d, ds) => d.normal = FALSE
    PROVE  CloseDrafts(ds, i)
<1>1. \E n \in DOMAIN ds : ds[n].item = i BY DEF Among
<1>2. \A n \in DOMAIN ds : Among(ds[n], ds) BY DEF Among
<1> QED BY <1>1, <1>2 DEF CloseDrafts

\* The rows of a player who ends an auction.
LEMMA ClosePaid ==
    ASSUME NEW p, NEW i, NEW ds \in Seq(DraftType), CanSend(ds), OneItem(ds), NEW h, NEW fee,
           NEW G, G = GoldRows({p}, h), NEW S, S = SendRows(ds), NEW A, A = AuctionGone(i),
           NEW F, F = Fee(fee), NEW f, f = ((G ++ S) ++ A) ++ F
    PROVE  CloseRows(f, p, i, ds, G, F) /\ Pays(G, p, h)
<1>1. Pays(G, p, h) BY GoldPart
<1>2. Linked(S) BY LinkedParts
<1>3. Only(A, {"auction"}) /\ Only(F, {"fees"}) BY PartKinds
<1>4. Linked(A) /\ Linked(F) BY <1>3, LinkedParts
<1>5. Linked(f) BY <1>1, <1>2, <1>4, LinkedParts DEF Pays
<1>6. Stacked(f, G, SendRows(ds), AuctionGone(i), F) BY StackedRows
<1>7. Only(G, {"gold"}) /\ Linked(G) /\ \A q, v : q # p => At(G, GoldRow(q), v) = v BY <1>1 DEF Pays
<1>8. CloseRows(f, p, i, ds, G, F) BY <1>3, <1>5, <1>6, <1>7 DEF CloseRows
<1> QED BY <1>1, <1>8

\* A player buys an auction out.
LEMMA BuyoutLedger ==
    ASSUME TypeInv, TypeInv', LedgerInv, HouseInv, ~ExpireWhileDown, LogTrade,
           NEW p \in Player, NEW i \in Item, NEW price \in Prices, Buyout(p, i, price)
    PROVE  LedgerInv'
<1>1. PICK sold, ds, h, fee : /\ sold = Sold(p, i) /\ ds = BuyoutMails(p, i)
                              /\ h = [money EXCEPT ![p] = Paid(@, BidPaid(p, i, auction[i].buyout))]
                              /\ fee = GetAuctionCut(sold.bid)
    OBVIOUS
<1>2. PICK G, S, A, F, f : /\ G = GoldRows({p}, h) /\ S = SendRows(ds) /\ A = AuctionGone(i)
                           /\ F = Fee(fee) /\ f = ((G ++ S) ++ A) ++ F
    OBVIOUS
<1>3. /\ ValidBid(p, i, price) /\ CanSend(ds) /\ money' = h /\ box' = Deliver(box, ds)
      /\ UNCHANGED <<online, inv, db>> /\ Commit(f)
    BY <1>1, <1>2 DEF Buyout, Sold, BuyoutMails
<1>4. p \in online /\ OnSale(i) BY <1>3 DEF ValidBid
<1>5. /\ ds \in Seq(DraftType) /\ OneItem(ds) /\ OnlyItem(ds, i)
      /\ \A d : Among(d, ds) <=>
            \/ Among(d, Outbid(p, i))
            \/ d = AuctionDraft(sold.owner, sold.bid + sold.deposit - GetAuctionCut(sold.bid), NoItem)
            \/ d = AuctionDraft(p, 0, i)
    BY <1>1, BuyoutDrafts
<1>6. \A d : Among(d, Outbid(p, i)) => d = AuctionDraft(auction[i].bidder, auction[i].bid, NoItem)
    BY <1>4, OutbidDrafts
<1>7. \A d : Among(d, ds) => d.normal = FALSE
    <2>1. \A to, g, j : AuctionDraft(to, g, j).normal = FALSE BY ServerMail
    <2> QED BY <1>5, <1>6, <2>1
<1>8. \E d : Among(d, ds) /\ d.item = i
    <2>1. AuctionDraft(p, 0, i).item = i BY ServerMail
    <2> QED BY <1>5, <2>1
<1>9. CloseDrafts(ds, i) BY <1>5, <1>7, <1>8, AmongHouse
<1>10. CloseRows(f, p, i, ds, G, F) /\ Pays(G, p, h) BY <1>2, <1>3, <1>5, ClosePaid
<1>11. CloseShown(p, G)
    <2>1. money \in [Player -> 0 .. MaxMoney] /\ online \subseteq Player BY DEF TypeInv, PlayersTyped
    <2>2. \A q \in online \ {p} : money'[q] = money[q] BY <1>1, <1>3, <2>1
    <2>3. At(G, GoldRow(p), money[p]) = money'[p] BY <1>3, <1>10 DEF Pays
    <2> QED BY <2>2, <2>3 DEF CloseShown
<1> QED BY <1>3, <1>4, <1>9, <1>10, <1>11, CloseLedger

\* A player cancels his auction.
LEMMA CancelLedger ==
    ASSUME TypeInv, TypeInv', LedgerInv, HouseInv, ~ExpireWhileDown,
           NEW p \in Player, NEW i \in Item, HandleAuctionRemoveItem(p, i)
    PROVE  LedgerInv'
<1>1. PICK ds, h, fee : /\ ds = CancelMails(p, i) /\ fee = CancelCost(i) + auction[i].deposit
                        /\ h = [money EXCEPT ![p] = Paid(@, CancelCost(i))]
    OBVIOUS
<1>2. PICK G, S, A, F, f : /\ G = GoldRows({p}, h) /\ S = SendRows(ds) /\ A = AuctionGone(i)
                           /\ F = Fee(fee) /\ f = ((G ++ S) ++ A) ++ F
    OBVIOUS
<1>3. /\ p \in online /\ OnSale(i) /\ CanSend(ds) /\ money' = h /\ box' = Deliver(box, ds)
      /\ UNCHANGED <<online, inv, db>> /\ Commit(f)
    BY <1>1, <1>2 DEF HandleAuctionRemoveItem, CancelMails, CancelBack
<1>4. /\ ds \in Seq(DraftType) /\ OneItem(ds) /\ OnlyItem(ds, i)
      /\ \A d : Among(d, ds) <=>
            \/ /\ auction[i].bidder # Nobody
               /\ d = AuctionDraft(auction[i].bidder, auction[i].bid, NoItem)
            \/ d = AuctionDraft(p, 0, i)
    BY <1>1, <1>3, CancelDrafts
<1>5. \A d : Among(d, ds) => d.normal = FALSE
    <2>1. \A to, g, j : AuctionDraft(to, g, j).normal = FALSE BY ServerMail
    <2> QED BY <1>4, <2>1
<1>6. \E d : Among(d, ds) /\ d.item = i
    <2>1. AuctionDraft(p, 0, i).item = i BY ServerMail
    <2> QED BY <1>4, <2>1
<1>7. CloseDrafts(ds, i) BY <1>4, <1>5, <1>6, AmongHouse
<1>8. CloseRows(f, p, i, ds, G, F) /\ Pays(G, p, h) BY <1>2, <1>3, <1>4, ClosePaid
<1>9. CloseShown(p, G)
    <2>1. money \in [Player -> 0 .. MaxMoney] /\ online \subseteq Player BY DEF TypeInv, PlayersTyped
    <2>2. \A q \in online \ {p} : money'[q] = money[q] BY <1>1, <1>3, <2>1
    <2>3. At(G, GoldRow(p), money[p]) = money'[p] BY <1>3, <1>8 DEF Pays
    <2> QED BY <2>2, <2>3 DEF CloseShown
<1> QED BY <1>3, <1>7, <1>8, <1>9, CloseLedger

\* An auction expires.
LEMMA UpdateLedger ==
    ASSUME TypeInv, TypeInv', LedgerInv, HouseInv, ~ExpireWhileDown, LogTrade, NEW i \in Item, Update(i)
    PROVE  LedgerInv'
<1>1. PICK a, ds, fee, o : /\ a = auction[i] /\ ds = ExpiryDrafts(i, a) /\ fee = ExpiryFee(auction[i])
                           /\ o = NoRows
    OBVIOUS
<1>2. PICK S, A, F, f : /\ S = SendRows(ds) /\ A = AuctionGone(i) /\ F = Fee(fee) /\ f = (S ++ A) ++ F
    OBVIOUS
<1>3. /\ OnSale(i) /\ CanSend(ds) /\ box' = Deliver(box, ds) /\ Commit(f)
      /\ UNCHANGED <<online, inv, money, db>>
    BY <1>1, <1>2 DEF Update, StillOnSale
<1>4. a \in AuctionRecord /\ i \in aitems BY <1>1, <1>3 DEF OnSale, TypeInv, HouseTyped, HouseInv
<1>5. /\ ds \in Seq(DraftType) /\ OneItem(ds) /\ OnlyItem(ds, i)
      /\ a.bidder = Nobody => \A d : Among(d, ds) <=> d = AuctionDraft(a.owner, 0, i)
      /\ a.bidder # Nobody => \A d : Among(d, ds) <=>
            \/ d = AuctionDraft(a.owner, a.bid + a.deposit - GetAuctionCut(a.bid), NoItem)
            \/ d = AuctionDraft(a.bidder, 0, i)
    BY <1>1, <1>4, ExpiryMails
<1>6. \A d : Among(d, ds) => d.normal = FALSE
    <2>1. \A to, g, j : AuctionDraft(to, g, j).normal = FALSE BY ServerMail
    <2> QED BY <1>5, <2>1
<1>7. \E d : Among(d, ds) /\ d.item = i
    <2>1. \A to, g, j : AuctionDraft(to, g, j).item = j BY ServerMail
    <2> QED BY <1>5, <2>1
<1>8. CloseDrafts(ds, i) BY <1>5, <1>6, <1>7, AmongHouse
<1>9. Only(A, {"auction"}) /\ Only(F, {"fees"}) BY <1>2, PartKinds
<1>10. Linked(f)
    <2>1. Linked(S) BY <1>2, <1>3, <1>5, LinkedParts
    <2>2. Linked(A) /\ Linked(F) BY <1>9, LinkedParts
    <2> QED BY <1>2, <2>1, <2>2, LinkedParts
<1>11. Only(o, {"gold"}) /\ Linked(o) /\ \A r, v : At(o, r, v) = v
    <2>1. Only(o, {"gold"}) /\ \A r, v : At(o, r, v) = v BY <1>1, NoParts
    <2> QED BY <2>1, LinkedParts
<1>12. CloseRows(f, Nobody, i, ds, o, F)
    <2>1. \A r, v : At(f, r, v) = At(S, r, At(A, r, At(F, r, v))) BY <1>2, AtFacts
    <2>2. Stacked(f, o, SendRows(ds), AuctionGone(i), F) BY <1>2, <1>11, <2>1 DEF Stacked
    <2> QED BY <1>9, <1>10, <1>11, <2>2 DEF CloseRows
<1>13. CloseShown(Nobody, o) BY <1>3, StoreAssumption DEF CloseShown, TypeInv, PlayersTyped
<1> QED BY <1>3, <1>8, <1>12, <1>13, CloseLedger

-----------------------------------------------------------------------------
(***************************************************************************)
(* The steps that commit nothing.                                          *)
(***************************************************************************)

\* The tables of a queue that does not change.
LEMMA SameTables ==
    ASSUME db' = db, queue' = queue PROVE (\A n : Tab(n)' = Tab(n)) /\ End' = End
<1>1. ASSUME NEW n, NEW r PROVE Value(n, r)' = Value(n, r)
    <2>1. Value(n, r)' = ValueIn(db', queue', n, r) BY ValuePrimed
    <2> QED BY <2>1 DEF Value
<1>2. \A r : Latest(r)' = Latest(r) BY LatestSame
<1>3. \A n : Tab(n)' = Tab(n) BY <1>1 DEF Tab
<1>4. End' = End BY <1>2 DEF End
<1> QED BY <1>3, <1>4

\* What is in it stays in order.
LEMMA SameQueue ==
    ASSUME LedgerInv, db' = db, queue' = queue, online' = online
    PROVE  (Books /\ Registers /\ Links /\ Logins)' /\ End' = End
<1>1. (\A n : Tab(n)' = Tab(n)) /\ End' = End BY SameTables
<1>2. Books'
    <2> SUFFICES ASSUME NEW n \in 0 .. Len(queue') PROVE Ledger(Tab(n)') BY Zenon DEF Books
    <2> QED BY <1>1 DEF LedgerInv, Books
<1>3. Registers'
    <2> SUFFICES ASSUME NEW n \in 0 .. Len(queue')
                 PROVE  \/ Registered(Tab(n)')
                        \/ MaxCrashes = 0 /\ n < Len(queue') /\ queue'[n + 1].load = Nobody
        BY Zenon DEF Registers
    <2> QED BY <1>1 DEF LedgerInv, Registers
<1>4. Links' BY DEF LedgerInv, Links
<1>5. Logins'
    <2> SUFFICES ASSUME NEW k \in DOMAIN queue', queue'[k].load # Nobody
                 PROVE  /\ queue'[k].load \notin online'
                        /\ \A l \in DOMAIN queue' : queue'[l].load = queue'[k].load => l = k
                        /\ Mine(queue'[k].load, Tab(k)', End')
        BY Zenon DEF Logins
    <2> QED BY <1>1 DEF LedgerInv, Logins
<1> QED BY <1>1, <1>2, <1>3, <1>4, <1>5

\* A step of the server that leaves the players and the queue alone.
LEMMA StillLedger ==
    ASSUME LedgerInv, UNCHANGED <<online, inv, money, db, queue, box>> PROVE LedgerInv'
<1>1. (Books /\ Registers /\ Links /\ Logins)' /\ End' = End BY SameQueue
<1>2. Memory' BY <1>1, Zenon DEF LedgerInv, Memory
<1> QED BY <1>1, <1>2 DEF LedgerInv

\* A mail is marked, in memory only.
LEMMA MarkLedger ==
    ASSUME TypeInv, LedgerInv, NEW p \in Player, NEW m \in MailId,
           HandleMailDelete(p, m) \/ HandleMailMarkAsRead(p, m)
    PROVE  LedgerInv'
<1>2. PICK d : /\ m \in DOMAIN box[p] /\ box' = [box EXCEPT ![p][m].deleted = d]
               /\ UNCHANGED <<online, inv, money, db, queue>>
    BY DEF HandleMailDelete, HandleMailMarkAsRead, InBox, storeVars
<1>3. (Books /\ Registers /\ Links /\ Logins)' /\ End' = End BY <1>2, SameQueue
<1>4. box \in [Player -> Boxes] /\ online \subseteq Player BY DEF TypeInv, PlayersTyped
<1>5. ASSUME NEW q \in online
      PROVE  /\ DOMAIN box'[q] = DOMAIN box[q]
             /\ \A k \in DOMAIN box[q] : /\ box'[q][k].address = box[q][k].address
                                         /\ box'[q][k].money = box[q][k].money
                                         /\ box'[q][k].item = box[q][k].item
    <2>1. CASE q # p BY <1>2, <1>4, <2>1
    <2>2. CASE q = p
        <3>1. PICK M : box[p] \in [M -> MailType] BY <1>4 DEF Boxes
        <3>2. box'[p] = [box[p] EXCEPT ![m] = [box[p][m] EXCEPT !.deleted = d]] BY <1>2, <1>4
        <3>3. box[p][m] \in MailType BY <1>2, <3>1
        <3>4. PICK y : y = [box[p][m] EXCEPT !.deleted = d] OBVIOUS
        <3>5. y.address = box[p][m].address /\ y.money = box[p][m].money /\ y.item = box[p][m].item
            BY <3>3, <3>4 DEF MailType
        <3>6. box'[p] = [box[p] EXCEPT ![m] = y] BY <3>2, <3>4
        <3> QED BY <1>2, <2>2, <3>1, <3>5, <3>6
    <2> QED BY <2>1, <2>2
<1>6. Memory'
    <2> SUFFICES ASSUME NEW q \in online' PROVE Backs(End', q, money'[q], inv'[q], box'[q])
        BY Zenon DEF Memory
    <2>1. q \in online BY <1>2
    <2>2. Backs(End, q, money[q], inv[q], box[q]) BY <2>1 DEF LedgerInv, Memory
    <2>3. Backs(End, q, money[q], inv[q], box'[q]) BY <1>5, <2>1, <2>2 DEF Backs
    <2> QED BY <1>2, <1>3, <2>3
<1> QED BY <1>3, <1>6 DEF LedgerInv

\* The query of a login enters the queue.
LEMMA LoginLedger ==
    ASSUME TypeInv, TypeInv', LedgerInv, NEW p \in Player, Login(p)
    PROVE  LedgerInv'
<1>1. PICK e : e = Query(p) OBVIOUS
<1>2. /\ p \notin online /\ ~Loading(p) /\ queue' = Append(queue, e)
      /\ UNCHANGED <<online, inv, money, db, box>>
    BY <1>1 DEF Login, LoginPlayer, mailVars
<1>3. e.load = p /\ DOMAIN e.rows = {} BY <1>1 DEF Query
<1>4. queue \in Seq(EntryType) /\ queue' \in Seq(EntryType) BY DEF TypeInv, TablesTyped
<1>5. e \in EntryType
    <2>1. Query(p) = [load |-> p, rows |-> NoRows] BY DEF Query, NoRows
    <2>2. DOMAIN NoRows = {} BY DEF NoRows
    <2> QED BY <1>1, <2>1, <2>2, GoodDeletes, GoodEntry
<1>6. /\ \A r : \A n \in 0 .. Len(queue) : Value(n, r)' = Value(n, r)
      /\ \A r : Latest(r)' = IF r \in DOMAIN e.rows THEN e.rows[r] ELSE Latest(r)
      /\ \A r : \A n : n = Len(queue) + 1 => Value(n, r)' = Latest(r)'
      /\ Len(queue') = Len(queue) + 1
    BY <1>2, <1>4, <1>5, AppendValues
<1>7. /\ \A n \in 0 .. Len(queue) : Tab(n)' = Tab(n)
      /\ \A n : n = Len(queue) + 1 => Tab(n)' = End
      /\ End' = End
    <2>1. \A r : Latest(r)' = Latest(r) BY <1>3, <1>6
    <2>2. \A n \in 0 .. Len(queue) : Tab(n)' = Tab(n) BY <1>6 DEF Tab
    <2>3. End' = End BY <2>1 DEF End
    <2>4. \A n : n = Len(queue) + 1 => Tab(n)' = End BY <1>6, <2>1 DEF Tab, End
    <2> QED BY <2>2, <2>3, <2>4
<1>8. /\ Len(queue) \in Nat /\ DOMAIN queue = 1 .. Len(queue) /\ DOMAIN queue' = 1 .. Len(queue) + 1
      /\ \A k \in DOMAIN queue : queue'[k] = queue[k]
      /\ queue'[Len(queue) + 1] = e
    <2>1. DOMAIN queue' = 1 .. Len(queue') BY <1>4, LenProperties
    <2> QED BY <1>2, <1>4, <1>5, <1>6, <2>1, AppendProperties, LenProperties
<1>9. Ledger(End) /\ Registered(End)
    <2>1. End = Tab(Len(queue)) /\ Len(queue) \in 0 .. Len(queue) BY <1>8, TabFacts
    <2>2. ~(Len(queue) < Len(queue)) BY <1>8
    <2> QED BY <2>1, <2>2 DEF LedgerInv, Books, Registers
<1>10. Books'
    <2> SUFFICES ASSUME NEW n \in 0 .. Len(queue') PROVE Ledger(Tab(n)') BY Zenon DEF Books
    <2>1. n \in 0 .. Len(queue) \/ n = Len(queue) + 1 BY <1>6, <1>8
    <2> QED BY <1>7, <1>9, <2>1 DEF LedgerInv, Books
<1>11. Registers'
    <2> SUFFICES ASSUME NEW n \in 0 .. Len(queue')
                 PROVE  \/ Registered(Tab(n)')
                        \/ MaxCrashes = 0 /\ n < Len(queue') /\ queue'[n + 1].load = Nobody
        BY Zenon DEF Registers
    <2>1. CASE n = Len(queue) + 1 BY <1>7, <1>9, <2>1
    <2>2. CASE n \in 0 .. Len(queue)
        <3>1. \/ Registered(Tab(n))
              \/ MaxCrashes = 0 /\ n < Len(queue) /\ queue[n + 1].load = Nobody
            BY <2>2 DEF LedgerInv, Registers
        <3>2. n < Len(queue) => n + 1 \in DOMAIN queue /\ n < Len(queue') BY <1>6, <1>8, <2>2
        <3> QED BY <1>7, <1>8, <2>2, <3>1, <3>2
    <2> QED BY <1>6, <1>8, <2>1, <2>2
<1>12. Links'
    <2> SUFFICES ASSUME NEW k \in DOMAIN queue' PROVE Linked(queue'[k].rows) BY Zenon DEF Links
    <2>1. CASE k \in DOMAIN queue BY <1>8, <2>1 DEF LedgerInv, Links
    <2>2. CASE k = Len(queue) + 1
        <3>1. queue'[k] = e BY <1>8, <2>2
        <3>2. Linked(e.rows) BY <1>3 DEF Linked
        <3> QED BY <3>1, <3>2
    <2> QED BY <1>8, <2>1, <2>2
<1>13. \A k \in DOMAIN queue : queue[k].load # p BY <1>2 DEF Loading
<1>14. Logins'
    <2> SUFFICES ASSUME NEW k \in DOMAIN queue', queue'[k].load # Nobody
                 PROVE  /\ queue'[k].load \notin online'
                        /\ \A l \in DOMAIN queue' : queue'[l].load = queue'[k].load => l = k
                        /\ Mine(queue'[k].load, Tab(k)', End')
        BY Zenon DEF Logins
    <2>1. \A l \in DOMAIN queue' : l \in DOMAIN queue \/ l = Len(queue) + 1 BY <1>8
    <2>2. CASE k \in DOMAIN queue
        <3>1. queue'[k] = queue[k] /\ Tab(k)' = Tab(k) BY <1>7, <1>8, <2>2
        <3>2. /\ queue[k].load \notin online
              /\ \A l \in DOMAIN queue : queue[l].load = queue[k].load => l = k
              /\ Mine(queue[k].load, Tab(k), End)
            BY <2>2, <3>1 DEF LedgerInv, Logins
        <3>3. \A l \in DOMAIN queue' : queue'[l].load = queue'[k].load => l = k
            BY <1>3, <1>8, <1>13, <2>1, <2>2, <3>1, <3>2
        <3> QED BY <1>2, <1>7, <3>1, <3>2, <3>3
    <2>3. CASE k = Len(queue) + 1
        <3>1. queue'[k].load = p /\ Tab(k)' = End BY <1>3, <1>7, <1>8, <2>3
        <3>2. \A l \in DOMAIN queue' : queue'[l].load = queue'[k].load => l = k
            BY <1>8, <1>13, <2>1, <2>3, <3>1
        <3>3. Mine(p, End, End) BY MineKept
        <3> QED BY <1>2, <1>7, <3>1, <3>2, <3>3
    <2> QED BY <2>1, <2>2, <2>3
<1>15. Memory' BY <1>2, <1>7, Zenon DEF LedgerInv, Memory
<1> QED BY <1>10, <1>11, <1>12, <1>14, <1>15 DEF LedgerInv

\* The first entry leaves the queue: what was to come one entry later comes now.
LEMMA FinishLedger ==
    ASSUME TypeInv, TypeInv', LedgerInv, Finish(1),
           \/ db' = queue[1].rows ++ db
           \/ db' = db /\ DOMAIN queue[1].rows = {},
           online' \subseteq online \cup ({queue[1].load} \ {Nobody})
    PROVE  (Books /\ Registers /\ Links /\ Logins)' /\ End' = End
<1>1. queue \in Seq(EntryType) /\ DOMAIN db = RowNames /\ queue' \in Seq(EntryType)
    BY DEF TypeInv, TablesTyped, GoodTable
<1>2. /\ \A r \in DOMAIN db : \A n \in 0 .. Len(queue) - 1 : Value(n, r)' = Value(n + 1, r)
      /\ \A r \in DOMAIN db : Latest(r)' = Latest(r)
      /\ queue # <<>> /\ queue' = Tail(queue)
    BY <1>1, TakeValues
<1>3. /\ Len(queue) \in Nat /\ Len(queue) > 0 /\ Len(queue') = Len(queue) - 1
      /\ DOMAIN queue = 1 .. Len(queue) /\ DOMAIN queue' = 1 .. Len(queue')
      /\ \A k \in DOMAIN queue' : k + 1 \in DOMAIN queue /\ queue'[k] = queue[k + 1]
    <2>1. /\ Len(queue) \in Nat /\ DOMAIN queue = 1 .. Len(queue) /\ DOMAIN queue' = 1 .. Len(queue')
        BY <1>1, LenProperties
    <2>2. Len(queue) > 0 BY <1>1, <1>2, <2>1, EmptySeq
    <2>3. Len(queue') = Len(queue) - 1 /\ \A k \in 1 .. Len(queue) - 1 : queue'[k] = queue[k + 1]
        BY <1>1, <1>2, HeadTailProperties
    <2> QED BY <2>1, <2>2, <2>3
<1>4. /\ \A n \in 0 .. Len(queue') : n + 1 \in 0 .. Len(queue) /\ Tab(n)' = Tab(n + 1)
      /\ End' = End
    <2>1. \A n \in 0 .. Len(queue') : n \in 0 .. Len(queue) - 1 /\ n + 1 \in 0 .. Len(queue) BY <1>3
    <2>2. \A n \in 0 .. Len(queue') : Tab(n)' = Tab(n + 1) BY <1>1, <1>2, <2>1 DEF Tab
    <2>3. End' = End BY <1>1, <1>2 DEF End
    <2> QED BY <2>1, <2>2, <2>3
<1>5. Books'
    <2> SUFFICES ASSUME NEW n \in 0 .. Len(queue') PROVE Ledger(Tab(n)') BY Zenon DEF Books
    <2> QED BY <1>4 DEF LedgerInv, Books
<1>6. Registers'
    <2> SUFFICES ASSUME NEW n \in 0 .. Len(queue')
                 PROVE  \/ Registered(Tab(n)')
                        \/ MaxCrashes = 0 /\ n < Len(queue') /\ queue'[n + 1].load = Nobody
        BY Zenon DEF Registers
    <2>1. PICK k : k = n + 1 OBVIOUS
    <2>2. k \in 0 .. Len(queue) /\ Tab(n)' = Tab(k) BY <1>4, <2>1
    <2>3. \/ Registered(Tab(k))
          \/ MaxCrashes = 0 /\ k < Len(queue) /\ queue[k + 1].load = Nobody
        BY <2>2 DEF LedgerInv, Registers
    <2>4. k < Len(queue) => n < Len(queue') /\ k \in DOMAIN queue' BY <1>3, <2>1, <2>2
    <2>5. k < Len(queue) => queue'[k] = queue[k + 1] BY <1>3, <2>4
    <2> QED BY <2>1, <2>2, <2>3, <2>4, <2>5
<1>7. Links'
    <2> SUFFICES ASSUME NEW k \in DOMAIN queue' PROVE Linked(queue'[k].rows) BY Zenon DEF Links
    <2> QED BY <1>3 DEF LedgerInv, Links
<1>8. Logins'
    <2> SUFFICES ASSUME NEW k \in DOMAIN queue', queue'[k].load # Nobody
                 PROVE  /\ queue'[k].load \notin online'
                        /\ \A l \in DOMAIN queue' : queue'[l].load = queue'[k].load => l = k
                        /\ Mine(queue'[k].load, Tab(k)', End')
        BY Zenon DEF Logins
    <2>1. PICK n : n = k + 1 OBVIOUS
    <2>2. n \in DOMAIN queue /\ queue'[k] = queue[n] /\ k \in 0 .. Len(queue') /\ n # 1 /\ 1 \in DOMAIN queue
        BY <1>3, <2>1
    <2>3. /\ queue[n].load \notin online
          /\ \A l \in DOMAIN queue : queue[l].load = queue[n].load => l = n
          /\ Mine(queue[n].load, Tab(n), End)
        BY <2>2 DEF LedgerInv, Logins
    <2>4. Tab(k)' = Tab(n) BY <1>4, <2>1, <2>2
    <2>5. queue[1].load # queue[n].load BY <2>2, <2>3
    <2>6. ASSUME NEW l \in DOMAIN queue', queue'[l].load = queue'[k].load PROVE l = k
        <3>1. l + 1 \in DOMAIN queue /\ queue'[l] = queue[l + 1] BY <1>3
        <3>2. l + 1 = n BY <2>2, <2>3, <2>6, <3>1
        <3> QED BY <1>3, <2>1, <3>2
    <2> QED BY <1>4, <2>2, <2>3, <2>4, <2>5, <2>6
<1> QED BY <1>4, <1>5, <1>6, <1>7, <1>8

\* A transaction is executed.
LEMMA ExecuteLedger ==
    ASSUME TypeInv, TypeInv', LedgerInv, Workers = 1, NEW k, Execute(k), UNCHANGED mailVars
    PROVE  LedgerInv'
<1>1. /\ Finish(k) /\ queue[k].load = Nobody /\ db' = queue[k].rows ++ db
      /\ UNCHANGED <<online, inv, money, box>>
    BY DEF Execute, mailVars
<1>2. k = 1
    <2>1. queue \in Seq(EntryType) BY DEF TypeInv, TablesTyped
    <2>2. DOMAIN queue = 1 .. Len(queue) /\ Len(queue) \in Nat BY <2>1, LenProperties
    <2> QED BY <1>1, <2>2 DEF Finish
<1>3. (Books /\ Registers /\ Links /\ Logins)' /\ End' = End BY <1>1, <1>2, FinishLedger
<1>4. Memory' BY <1>1, <1>3, Zenon DEF LedgerInv, Memory
<1> QED BY <1>3, <1>4 DEF LedgerInv

\* What a query reads is what the tables hold.
LEMMA LoadBacks ==
    ASSUME TypeInv, NEW p \in Player, NEW t, \A r \in RowNames : t[r] = db[r], Ledger(t), Registered(t)
    PROVE  /\ t[GoldRow(p)] = db[GoldRow(p)]
           /\ Backs(t, p, db[GoldRow(p)], {i \in Item : db[ItemRow(i)] = p}, LoadMail(p))
           /\ DOMAIN LoadMail(p) \subseteq MailId
<1>1. /\ \A i \in Item : /\ t[ItemRow(i)] = db[ItemRow(i)] /\ t[MailItem(i)] = db[MailItem(i)]
                         /\ t[GivenUp(i)] = db[GivenUp(i)] /\ t[MailItemTo(i)] = db[MailItemTo(i)]
      /\ \A m \in MailId : /\ t[MailRow(m)] = db[MailRow(m)] /\ t[MailTo(m)] = db[MailTo(m)]
                           /\ t[MailMoney(m)] = db[MailMoney(m)]
      /\ t[GoldRow(p)] = db[GoldRow(p)]
    BY RowKinds
<1> DEFINE K == {m \in MailId : db[MailRow(m)] /\ db[MailTo(m)].to = p}
           mine(m) == {i \in StoredIn(m) : db[MailItemTo(i)] = p}
           it(m) == IF mine(m) = {} THEN NoItem ELSE CHOOSE i \in mine(m) : TRUE
<1>2. DOMAIN LoadMail(p) = K BY DEF LoadMail
<1>3. ASSUME NEW m \in K
      PROVE  /\ LoadMail(p)[m].address = db[MailTo(m)] /\ LoadMail(p)[m].money = db[MailMoney(m)]
             /\ LoadMail(p)[m].item = it(m)
    BY DEF LoadMail
<1>4. ASSUME NEW m \in K, NEW i \in Item PROVE it(m) = i <=> In(t, m, i)
    <2>1. m \in MailId /\ t[MailTo(m)].to = p BY <1>1
    <2>2. \A j \in Item : j \in StoredIn(m) <=> In(t, m, j) BY <1>1 DEF StoredIn, In
    <2>3. \A j \in Item : In(t, m, j) => t[MailItemTo(j)] = p BY <2>1 DEF Registered
    <2>4. StoredIn(m) \subseteq Item BY DEF StoredIn
    <2>5. \A j \in Item : j \in mine(m) <=> In(t, m, j) BY <1>1, <2>2, <2>3
    <2>6. mine(m) \subseteq Item BY <2>4
    <2>7. \A j \in Item : In(t, m, i) /\ In(t, m, j) => i = j BY <2>1 DEF Ledger
    <2> HIDE DEF mine
    <2>8. CASE mine(m) = {}
        <3>1. it(m) = NoItem BY <2>8
        <3> QED BY <2>5, <2>8, <3>1, MailAssumption
    <2>9. CASE mine(m) # {}
        <3>1. it(m) \in mine(m) BY <2>9
        <3> HIDE DEF it
        <3> QED BY <2>5, <2>6, <2>7, <3>1
    <2> QED BY <2>8, <2>9
<1> HIDE DEF it
<1>5. ASSUME NEW m \in DOMAIN LoadMail(p)
      PROVE  /\ t[MailRow(m)] /\ t[MailTo(m)] = LoadMail(p)[m].address /\ LoadMail(p)[m].address.to = p
             /\ t[MailMoney(m)] = LoadMail(p)[m].money
             /\ \A i \in Item : LoadMail(p)[m].item = i <=> In(t, m, i)
    <2>1. m \in K BY <1>2
    <2>2. m \in MailId /\ db[MailRow(m)] /\ db[MailTo(m)].to = p BY <2>1
    <2> QED BY <1>1, <1>3, <1>4, <2>1, <2>2
<1>6. \A i \in {j \in Item : db[ItemRow(j)] = p} : t[ItemRow(i)] = p BY <1>1
<1> HIDE DEF K
<1>7. Backs(t, p, db[GoldRow(p)], {i \in Item : db[ItemRow(i)] = p}, LoadMail(p))
    BY <1>1, <1>5, <1>6 DEF Backs
<1> QED BY <1>1, <1>2, <1>7 DEF K

\* The player whose query is answered enters the world.
LEMMA LoadLedger ==
    ASSUME TypeInv, TypeInv', LedgerInv, Workers = 1, NEW p \in Player, NEW k, Load(p, k)
    PROVE  LedgerInv'
<1>1. PICK bag, gold, b : /\ bag = {i \in Item : db[ItemRow(i)] = p} /\ b = LoadMail(p)
                          /\ gold = IF db[GoldRow(p)] > MaxMoney THEN MaxMoney ELSE db[GoldRow(p)]
    OBVIOUS
<1>2. /\ Finish(k) /\ queue[k].load = p /\ online' = online \cup {p}
      /\ inv' = [inv EXCEPT ![p] = bag] /\ money' = [money EXCEPT ![p] = gold]
      /\ box' = [box EXCEPT ![p] = b] /\ db' = db
    BY <1>1 DEF Load, LoadFromDB
<1>3. /\ queue \in Seq(EntryType) /\ GoodTable(db) /\ p # Nobody
      /\ inv \in [Player -> SUBSET Item] /\ money \in [Player -> 0 .. MaxMoney]
      /\ box \in [Player -> Boxes] /\ online \subseteq Player
    BY StoreAssumption DEF TypeInv, TablesTyped, PlayersTyped
<1>4. k = 1 /\ 1 \in DOMAIN queue /\ Len(queue) \in Nat /\ Len(queue) > 0
    <2>1. DOMAIN queue = 1 .. Len(queue) /\ Len(queue) \in Nat BY <1>3, LenProperties
    <2> QED BY <1>2, <2>1 DEF Finish
<1>5. DOMAIN queue[1].rows = {}
    <2>1. queue[1] \in EntryType BY <1>3, <1>4
    <2> QED BY <1>2, <1>3, <1>4, <2>1 DEF EntryType
<1>6. (Books /\ Registers /\ Links /\ Logins)' /\ End' = End
    <2>1. online' \subseteq online \cup ({queue[1].load} \ {Nobody}) BY <1>2, <1>3, <1>4
    <2> QED BY <1>2, <1>4, <1>5, <2>1, FinishLedger
<1>7. PICK t : t = Tab(1) OBVIOUS
<1>8. \A r \in RowNames : t[r] = db[r]
    <2>1. /\ \A r \in RowNames : Tab(0)[r] = db[r]
          /\ \A n \in 0 .. Len(queue) - 1 : Tab(n + 1) = queue[n + 1].rows ++ Tab(n)
        BY TabFacts
    <2>2. 0 \in 0 .. Len(queue) - 1 /\ 0 + 1 = 1 BY <1>4
    <2>3. t = queue[1].rows ++ Tab(0) BY <1>7, <2>1, <2>2
    <2>4. DOMAIN Tab(0) = RowNames BY DEF Tab
    <2>5. \A r \in RowNames : t[r] = Tab(0)[r] BY <1>5, <2>3, <2>4 DEF ++
    <2> QED BY <2>1, <2>5
<1>9. Ledger(t) /\ Registered(t)
    <2>1. 0 \in 0 .. Len(queue) /\ 1 \in 0 .. Len(queue) /\ 0 + 1 = 1 BY <1>4
    <2>2. Ledger(t) BY <1>7, <2>1 DEF LedgerInv, Books
    <2>3. PICK z : z = Tab(0) OBVIOUS
    <2>4. Registered(z)
        <3>1. \/ Registered(Tab(0))
              \/ queue[0 + 1].load = Nobody
            BY <2>1 DEF LedgerInv, Registers
        <3> QED BY <1>2, <1>3, <1>4, <2>1, <2>3, <3>1
    <2>5. \A r \in RowNames : t[r] = z[r] BY <1>8, <2>3, TabFacts
    <2>6. /\ \A i \in Item : /\ t[MailItem(i)] = z[MailItem(i)] /\ t[GivenUp(i)] = z[GivenUp(i)]
                             /\ t[MailItemTo(i)] = z[MailItemTo(i)]
          /\ \A m \in MailId : t[MailTo(m)] = z[MailTo(m)]
        BY <2>5, RowKinds
    <2>7. Registered(t) BY <2>4, <2>6 DEF Registered, In
    <2> QED BY <2>2, <2>7
<1>10. gold = db[GoldRow(p)]
    <2>1. db[GoldRow(p)] \in 0 .. MaxMoney BY <1>3, TableTypes DEF GoodTable
    <2> QED BY <1>1, <2>1, StoreAssumption
<1>11. Backs(t, p, gold, bag, b) /\ DOMAIN b \subseteq MailId BY <1>1, <1>8, <1>9, <1>10, LoadBacks
<1>12. Mine(p, t, End) BY <1>2, <1>3, <1>4, <1>7 DEF LedgerInv, Logins
<1>13. Backs(End, p, gold, bag, b)
    <2>1. bag \in SUBSET Item BY <1>1
    <2> QED BY <1>11, <1>12, <2>1, MineKept
<1>14. Memory'
    <2> SUFFICES ASSUME NEW q \in online' PROVE Backs(End', q, money'[q], inv'[q], box'[q])
        BY Zenon DEF Memory
    <2>1. CASE q = p BY <1>2, <1>3, <1>6, <1>13, <2>1
    <2>2. CASE q # p
        <3>1. q \in online /\ money'[q] = money[q] /\ inv'[q] = inv[q] /\ box'[q] = box[q]
            BY <1>2, <1>3, <2>2
        <3> QED BY <1>6, <3>1 DEF LedgerInv, Memory
    <2> QED BY <2>1, <2>2
<1> QED BY <1>6, <1>14 DEF LedgerInv


-----------------------------------------------------------------------------
(***************************************************************************)
(* Start and crash of the server.                                          *)
(***************************************************************************)

\* No auction expires while the server is down, so the start finds none.
LEMMA StartupLedger ==
    ASSUME TypeInv, LedgerInv, ~ExpireWhileDown, NEW S \in SUBSET Item,
           DeleteExpiredAuctionsAtStartup(S)
    PROVE  LedgerInv'
<1>1. UNCHANGED <<online, inv, money, db, box>> BY DEF DeleteExpiredAuctionsAtStartup
<1>2. PICK es \in Seq(EntryType) :
            /\ \A k \in DOMAIN es : GoneEntry(es[k]) /\ ExpireWhileDown
            /\ Len(queue) + Len(es) <= MaxQueue /\ queue' = queue \o es
    BY StartupEntries
<1>3. queue \in Seq(EntryType) BY DEF TypeInv, TablesTyped
<1>4. DOMAIN es = {} BY <1>2
<1>5. es = <<>> BY <1>4, LenProperties, EmptySeq
<1>6. queue' = queue BY <1>2, <1>3, <1>5, ConcatEmptySeq
<1> QED BY <1>1, <1>6, StillLedger

\* A crash leaves the tables as they are now; no old mail is half returned.
LEMMA CrashLedger == ASSUME TypeInv, LedgerInv, ServerCrash PROVE LedgerInv'
<1>1. /\ crashes < MaxCrashes /\ online' = {} /\ queue' = <<>> /\ db' = db
    BY DEF ServerCrash, Crash
<1>2. MaxCrashes # 0 BY <1>1, StoreAssumption DEF TypeInv, HouseTyped
<1>3. Tab(0)' = Tab(0)
    <2>1. \A r : Value(0, r)' = db'[r] BY ValuePrimed, ValueNow
    <2>2. \A r : Value(0, r) = db[r] BY ValueNow DEF Value
    <2> QED BY <1>1, <2>1, <2>2 DEF Tab
<1>4. 0 \in 0 .. Len(queue) BY TabFacts
<1>5. Ledger(Tab(0)) /\ Registered(Tab(0)) BY <1>2, <1>4 DEF LedgerInv, Books, Registers
<1>6. Len(queue') = 0 /\ DOMAIN queue' = {} BY <1>1
<1>7. \A n \in 0 .. Len(queue') : n = 0 BY <1>6
<1>8. Books'
    <2> SUFFICES ASSUME NEW n \in 0 .. Len(queue') PROVE Ledger(Tab(n)') BY Zenon DEF Books
    <2> QED BY <1>3, <1>5, <1>7
<1>9. Registers'
    <2> SUFFICES ASSUME NEW n \in 0 .. Len(queue') PROVE Registered(Tab(n)') BY Zenon DEF Registers
    <2> QED BY <1>3, <1>5, <1>7
<1>10. Links' /\ Logins' BY <1>6, Zenon DEF Links, Logins
<1>11. Memory' BY <1>1, Zenon DEF Memory
<1> QED BY <1>8, <1>9, <1>10, <1>11 DEF LedgerInv

\* At the start every item is with its owner, and there are no mails.
LEMMA StartPlaces ==
    ASSUME NEW f, f = InitRows ++ MailInitRows ++ AuctionInitRows
    PROVE  /\ \A p \in Player : f[GoldRow(p)] = InitMoney[p]
           /\ \A i \in Item : f[ItemRow(i)] = InitOwner[i]
           /\ \A i \in Item : f[MailItem(i)] = NoMail /\ f[GivenUp(i)] = FALSE
           /\ \A m \in MailId : f[MailTo(m)] = NoMail
<1> DEFINE a == [r \in {GoldRow(p) : p \in Player} |-> InitMoney[r[2]]]
           b == [r \in {ItemRow(i) : i \in Item} |-> InitOwner[r[2]]]
           c == [r \in {MailRow(m) : m \in MailId} |-> FALSE]
           d == [r \in {MailTo(m) : m \in MailId} |-> NoMail]
           e == [r \in {MailMoney(m) : m \in MailId} |-> 0]
           g == [r \in {MailCod(m) : m \in MailId} |-> 0]
           h == [r \in {MailItem(i) : i \in Item} |-> NoMail]
           j == [r \in {MailItemTo(i) : i \in Item} |-> Nobody]
           k == [r \in {GivenUp(i) : i \in Item} |-> FALSE]
           l == Write(Fees, 0)
           z == AuctionInitRows
<1>1. f = ((a ++ b) ++ (((((((c ++ d) ++ e) ++ g) ++ h) ++ j) ++ k) ++ l)) ++ z
    BY Zenon DEF InitRows, MailInitRows
<1>2. /\ DOMAIN a = {GoldRow(p) : p \in Player} /\ DOMAIN b = {ItemRow(i) : i \in Item}
      /\ DOMAIN c = {MailRow(m) : m \in MailId} /\ DOMAIN d = {MailTo(m) : m \in MailId}
      /\ DOMAIN e = {MailMoney(m) : m \in MailId} /\ DOMAIN g = {MailCod(m) : m \in MailId}
      /\ DOMAIN h = {MailItem(i) : i \in Item} /\ DOMAIN j = {MailItemTo(i) : i \in Item}
      /\ DOMAIN k = {GivenUp(i) : i \in Item}
    OBVIOUS
<1>3. /\ \A p \in Player : GoldRow(p) \in DOMAIN a /\ a[GoldRow(p)] = InitMoney[p]
      /\ \A i \in Item : ItemRow(i) \in DOMAIN b /\ b[ItemRow(i)] = InitOwner[i]
      /\ \A m \in MailId : MailTo(m) \in DOMAIN d /\ d[MailTo(m)] = NoMail
      /\ \A i \in Item : MailItem(i) \in DOMAIN h /\ h[MailItem(i)] = NoMail
      /\ \A i \in Item : GivenUp(i) \in DOMAIN k /\ k[GivenUp(i)] = FALSE
    <2>1. \A x : GoldRow(x)[2] = x /\ ItemRow(x)[2] = x BY RowKeys
    <2> QED BY <2>1
<1> HIDE DEF a, b, c, d, e, g, h, j, k, l, z
<1>4. /\ \A r \in DOMAIN a : r[1] = "gold"
      /\ \A r \in DOMAIN b : r[1] = "item"
      /\ \A r \in DOMAIN c : r[1] = "mail"
      /\ \A r \in DOMAIN d : r[1] = "mail_to"
      /\ \A r \in DOMAIN e : r[1] = "mail_money"
      /\ \A r \in DOMAIN g : r[1] = "mail_cod"
      /\ \A r \in DOMAIN h : r[1] = "mail_item"
      /\ \A r \in DOMAIN j : r[1] = "mail_item_to"
      /\ \A r \in DOMAIN k : r[1] = "given_up"
    BY <1>2, Kinds
<1>5. PICK s : s = ((((((c ++ d) ++ e) ++ g) ++ h) ++ j) ++ k) ++ l OBVIOUS
<1>6. /\ \A r \in DOMAIN a : f[r] = a[r]
      /\ \A r \in DOMAIN b : r \notin DOMAIN a => f[r] = b[r]
      /\ \A r \in DOMAIN s : r \notin DOMAIN a /\ r \notin DOMAIN b => f[r] = s[r]
    <2>1. PICK x, y : x = a ++ b /\ y = x ++ s OBVIOUS
    <2>2. f = y ++ z BY <1>1, <1>5, <2>1, Zenon
    <2>3. /\ DOMAIN x = DOMAIN a \cup DOMAIN b /\ DOMAIN y = DOMAIN x \cup DOMAIN s
          /\ \A r \in DOMAIN a : x[r] = a[r]
          /\ \A r \in DOMAIN b : r \notin DOMAIN a => x[r] = b[r]
        BY <2>1 DEF ++
    <2>4. /\ \A r \in DOMAIN x : y[r] = x[r]
          /\ \A r \in DOMAIN s : r \notin DOMAIN x => y[r] = s[r]
        BY <2>1 DEF ++
    <2>5. \A r \in DOMAIN y : f[r] = y[r] BY <2>2 DEF ++
    <2> QED BY <2>3, <2>4, <2>5
<1>7. /\ \A r \in DOMAIN d : r \notin DOMAIN c => r \in DOMAIN s /\ s[r] = d[r]
      /\ \A r \in DOMAIN h :
            r \notin DOMAIN c /\ r \notin DOMAIN d /\ r \notin DOMAIN e /\ r \notin DOMAIN g
            => r \in DOMAIN s /\ s[r] = h[r]
      /\ \A r \in DOMAIN k :
            /\ r \notin DOMAIN c /\ r \notin DOMAIN d /\ r \notin DOMAIN e /\ r \notin DOMAIN g
            /\ r \notin DOMAIN h /\ r \notin DOMAIN j
            => r \in DOMAIN s /\ s[r] = k[r]
    BY <1>5 DEF ++
<1>8. \A p \in Player : f[GoldRow(p)] = InitMoney[p] BY <1>3, <1>6
<1>9. \A i \in Item : f[ItemRow(i)] = InitOwner[i] BY <1>3, <1>4, <1>6, RowKeys
<1>10. \A m \in MailId : f[MailTo(m)] = NoMail
    <2>1. \A r \in DOMAIN d : f[r] = d[r] BY <1>4, <1>6, <1>7
    <2> QED BY <1>3, <2>1
<1>11. \A i \in Item : f[MailItem(i)] = NoMail
    <2>1. \A r \in DOMAIN h : f[r] = h[r] BY <1>4, <1>6, <1>7
    <2> QED BY <1>3, <2>1
<1>12. \A i \in Item : f[GivenUp(i)] = FALSE
    <2>1. \A r \in DOMAIN k : f[r] = k[r] BY <1>4, <1>6, <1>7
    <2> QED BY <1>3, <2>1
<1> QED BY <1>8, <1>9, <1>10, <1>11, <1>12

\* The ledger is in order at the start.
LEMMA InitLedger ==
    ASSUME \A p \in Player : InitMoney[p] <= MaxMoney, Init PROVE LedgerInv
<1>1. /\ online = Player /\ inv = [p \in Player |-> {i \in Item : InitOwner[i] = p}]
      /\ money = InitMoney /\ queue = <<>> /\ box = [p \in Player |-> NoRows]
      /\ db = InitRows ++ MailInitRows ++ AuctionInitRows
    BY DEF Init, StoreInit, MailInit
<1>2. TypeInv /\ \A i \in Item : db[AuctionRow(i)] = NoAuction BY InitTypes, StartTable, <1>1
<1>3. /\ \A p \in Player : db[GoldRow(p)] = InitMoney[p]
      /\ \A i \in Item : db[ItemRow(i)] = InitOwner[i]
      /\ \A i \in Item : db[MailItem(i)] = NoMail /\ db[GivenUp(i)] = FALSE
      /\ \A m \in MailId : db[MailTo(m)] = NoMail
    BY <1>1, StartPlaces
<1>4. PICK t : t = Tab(0) OBVIOUS
<1>5. (\A r \in RowNames : t[r] = db[r]) /\ End = t
    <2>1. Len(queue) = 0 BY <1>1
    <2> QED BY <1>2, <1>4, <2>1, TabFacts
<1>6. /\ \A p \in Player : t[GoldRow(p)] = InitMoney[p]
      /\ \A i \in Item : t[ItemRow(i)] = InitOwner[i]
      /\ \A i \in Item : t[MailItem(i)] = NoMail /\ t[GivenUp(i)] = FALSE /\ t[AuctionRow(i)] = NoAuction
      /\ \A m \in MailId : t[MailTo(m)] = NoMail
    BY <1>2, <1>3, <1>5, RowKinds
<1>7. \A i \in Item, m \in MailId : ~In(t, m, i) BY <1>6, MailAssumption DEF In
<1>8. \A i \in Item : InitOwner[i] \in Player /\ InitOwner[i] # Nobody BY StoreAssumption
<1>9. \A i \in Item : OnePlace(t, i) BY <1>6, <1>7, <1>8 DEF OnePlace
<1>10. \A m \in MailId : t[MailTo(m)] \notin AddressType BY <1>6, MailAssumption DEF AddressType
<1>11. Ledger(t) /\ Registered(t) BY <1>7, <1>9, <1>10 DEF Ledger, Registered
<1>12. (\A n \in 0 .. Len(queue) : n = 0) /\ DOMAIN queue = {} BY <1>1
<1>13. Books /\ Registers /\ Links /\ Logins
    BY <1>4, <1>11, <1>12 DEF Books, Registers, Links, Logins
<1>14. ASSUME NEW p \in online PROVE Backs(End, p, money[p], inv[p], box[p])
    <2>1. DOMAIN box[p] = {} BY <1>1 DEF NoRows
    <2> QED BY <1>1, <1>5, <1>6, <2>1 DEF Backs
<1> QED BY <1>13, <1>14 DEF LedgerInv, Memory


-----------------------------------------------------------------------------
(***************************************************************************)
(* Old mails.  Each statement is an entry of its own.                      *)
(***************************************************************************)

\* The tables t and u differ in the rows R at most.
Except(t, u, R) == \A r \in RowNames \ R : u[r] = t[r]

\* The rows of the items, apart from one kind of them, and of the mails.
LEMMA ExceptRows ==
    ASSUME NEW t, NEW u, NEW R, Except(t, u, R)
    PROVE  /\ (\A r \in R : r[1] # "gold") => \A q \in Player : u[GoldRow(q)] = t[GoldRow(q)]
           /\ (\A r \in R : r[1] # "item") => \A i \in Item : u[ItemRow(i)] = t[ItemRow(i)]
           /\ (\A r \in R : r[1] # "auction") => \A i \in Item : u[AuctionRow(i)] = t[AuctionRow(i)]
           /\ (\A r \in R : r[1] # "mail_item") => \A i \in Item : u[MailItem(i)] = t[MailItem(i)]
           /\ (\A r \in R : r[1] # "mail_item_to") => \A i \in Item : u[MailItemTo(i)] = t[MailItemTo(i)]
           /\ (\A r \in R : r[1] # "given_up") => \A i \in Item : u[GivenUp(i)] = t[GivenUp(i)]
           /\ (\A r \in R : r[1] # "mail") => \A m \in MailId : u[MailRow(m)] = t[MailRow(m)]
           /\ (\A r \in R : r[1] # "mail_to") => \A m \in MailId : u[MailTo(m)] = t[MailTo(m)]
           /\ (\A r \in R : r[1] # "mail_money") => \A m \in MailId : u[MailMoney(m)] = t[MailMoney(m)]
    BY RowKinds DEF Except

\* An empty mail is deleted.
LEMMA DropMail ==
    ASSUME NEW t, NEW u, Ledger(t), NEW m \in MailId, t[MailRow(m)], \A i \in Item : ~In(t, m, i),
           NEW p, p = t[MailTo(m)].to, Except(t, u, {MailRow(m), Fees})
    PROVE  TabStep(p, t, u) /\ TabRegister(t, u)
<1>1. \A r \in {MailRow(m), Fees} : r[1] \in {"mail", "fees"} BY RowKinds
<1>2. /\ \A q \in Player : u[GoldRow(q)] = t[GoldRow(q)]
      /\ \A i \in Item : /\ u[ItemRow(i)] = t[ItemRow(i)] /\ u[AuctionRow(i)] = t[AuctionRow(i)]
                         /\ u[MailItem(i)] = t[MailItem(i)] /\ u[GivenUp(i)] = t[GivenUp(i)]
                         /\ u[MailItemTo(i)] = t[MailItemTo(i)]
      /\ \A n \in MailId : u[MailTo(n)] = t[MailTo(n)] /\ u[MailMoney(n)] = t[MailMoney(n)]
    BY <1>1, ExceptRows
<1>3. ASSUME NEW n \in MailId, n # m PROVE u[MailRow(n)] = t[MailRow(n)]
    <2>1. MailRow(n) # MailRow(m) /\ MailRow(n) # Fees /\ MailRow(n) \in RowNames
        BY <1>3, RowKeys, RowKinds
    <2> QED BY <2>1 DEF Except
<1>4. \A n, i : i \in Item => (In(u, n, i) <=> In(t, n, i)) BY <1>2 DEF In
<1>5. \A i \in Item, n \in MailId : In(t, n, i) => t[MailRow(n)] /\ n # m BY DEF Ledger
<1>6. \A i \in Item : Stays(t, u, i) BY <1>2, <1>3, <1>5 DEF Stays
<1>7. \A n \in MailId, i, j \in Item : ~t[MailRow(n)] => ~In(u, n, i) BY <1>4, <1>5
<1>8. NoneNormal(u) BY <1>2 DEF NoneNormal, Ledger
<1>9. TabStep(p, t, u) BY <1>2, <1>3, <1>6, <1>7, <1>8 DEF TabStep
<1>10. TabRegister(t, u) BY <1>2, <1>4 DEF TabRegister
<1> QED BY <1>9, <1>10

\* The item of a mail is deleted.
LEMMA DropItem ==
    ASSUME NEW t, NEW u, Ledger(t), NEW m \in MailId, NEW i \in Item, In(t, m, i),
           NEW p, p = t[MailTo(m)].to, Except(t, u, {GivenUp(i)}), u[GivenUp(i)]
    PROVE  /\ TabStep(p, t, u) /\ TabRegister(t, u) /\ \A j \in Item : ~In(u, m, j)
           /\ \A n \in MailId : u[MailRow(n)] = t[MailRow(n)] /\ u[MailTo(n)] = t[MailTo(n)]
<1>1. \A r \in {GivenUp(i)} : r[1] = "given_up" BY RowKinds
<1>2. /\ \A q \in Player : u[GoldRow(q)] = t[GoldRow(q)]
      /\ \A j \in Item : /\ u[ItemRow(j)] = t[ItemRow(j)] /\ u[AuctionRow(j)] = t[AuctionRow(j)]
                         /\ u[MailItem(j)] = t[MailItem(j)]
                         /\ u[MailItemTo(j)] = t[MailItemTo(j)]
      /\ \A n \in MailId : /\ u[MailTo(n)] = t[MailTo(n)] /\ u[MailMoney(n)] = t[MailMoney(n)]
                           /\ u[MailRow(n)] = t[MailRow(n)]
    BY <1>1, ExceptRows
<1>3. ASSUME NEW j \in Item, j # i PROVE u[GivenUp(j)] = t[GivenUp(j)]
    <2>1. GivenUp(j) # GivenUp(i) /\ GivenUp(j) \in RowNames BY <1>3, RowKeys, RowKinds
    <2> QED BY <2>1 DEF Except
<1>4. (\A n : ~In(u, n, i)) /\ \A n, j : j \in Item /\ j # i => (In(u, n, j) <=> In(t, n, j))
    BY <1>2, <1>3 DEF In
<1>5. \A j \in Item, n \in MailId : In(t, n, j) => t[MailRow(n)] BY DEF Ledger
<1>6. \A j \in Item : j # i => Stays(t, u, j) BY <1>2, <1>3, <1>5 DEF Stays
<1>7. Moves(p, t, u, i)
    <2>1. t[ItemRow(i)] = Nobody /\ t[AuctionRow(i)] = NoAuction BY DEF Ledger, OnePlace
    <2>2. OnePlace(u, i) BY <1>2, <2>1, <1>4 DEF OnePlace
    <2> QED BY <1>4, <2>2 DEF Moves
<1>8. \A n \in MailId, j, k \in Item : ~t[MailRow(n)] => ~In(u, n, j) BY <1>4, <1>5
<1>9. NoneNormal(u) BY <1>2 DEF NoneNormal, Ledger
<1>10. TabStep(p, t, u) BY <1>2, <1>6, <1>7, <1>8, <1>9 DEF TabStep
<1>11. TabRegister(t, u) BY <1>2, <1>4 DEF TabRegister
<1>12. \A j \in Item : ~In(u, m, j)
    <2>1. \A j \in Item : In(t, m, j) => j = i BY DEF Ledger
    <2> QED BY <1>4, <2>1
<1> QED BY <1>2, <1>10, <1>11, <1>12

\* What another receiver of mail m leaves alone.
TurnKeeps(t, u, m) ==
    /\ \A n, j : j \in Item => (In(u, n, j) <=> In(t, n, j))
    /\ \A n \in MailId : n # m => u[MailTo(n)] = t[MailTo(n)]
    /\ \A j \in Item : u[MailItemTo(j)] = t[MailItemTo(j)]

\* A mail is sent back.
LEMMA TurnMail ==
    ASSUME NEW t, NEW u, Ledger(t), NEW m \in MailId, NEW p, p = t[MailTo(m)].to,
           ~NobodyMails, Except(t, u, {MailTo(m), MailCod(m)})
    PROVE  TabStep(p, t, u) /\ TurnKeeps(t, u, m)
<1>1. \A r \in {MailTo(m), MailCod(m)} : r[1] \in {"mail_to", "mail_cod"} BY RowKinds
<1>2. /\ \A q \in Player : u[GoldRow(q)] = t[GoldRow(q)]
      /\ \A i \in Item : /\ u[ItemRow(i)] = t[ItemRow(i)] /\ u[AuctionRow(i)] = t[AuctionRow(i)]
                         /\ u[MailItem(i)] = t[MailItem(i)] /\ u[GivenUp(i)] = t[GivenUp(i)]
                         /\ u[MailItemTo(i)] = t[MailItemTo(i)]
      /\ \A n \in MailId : u[MailRow(n)] = t[MailRow(n)] /\ u[MailMoney(n)] = t[MailMoney(n)]
    BY <1>1, ExceptRows
<1>3. ASSUME NEW n \in MailId, n # m PROVE u[MailTo(n)] = t[MailTo(n)]
    <2>1. MailTo(n) # MailTo(m) /\ MailTo(n) # MailCod(m) /\ MailTo(n) \in RowNames
        BY <1>3, RowKeys, RowKinds
    <2> QED BY <2>1 DEF Except
<1>4. \A n, i : i \in Item => (In(u, n, i) <=> In(t, n, i)) BY <1>2 DEF In
<1>5. \A i \in Item, n \in MailId : In(t, n, i) => t[MailRow(n)] BY DEF Ledger
<1>6. \A i \in Item : Stays(t, u, i) BY <1>2, <1>5 DEF Stays
<1>7. \A n \in MailId, i, j \in Item : ~t[MailRow(n)] => ~In(u, n, i) BY <1>4, <1>5
<1>8. NoneNormal(u)
    <2>1. ~NobodyMails OBVIOUS
    <2> QED BY <2>1 DEF NoneNormal
<1>9. TabStep(p, t, u) BY <1>2, <1>3, <1>6, <1>7, <1>8 DEF TabStep
<1> QED BY <1>2, <1>3, <1>4, <1>9 DEF TurnKeeps

\* The item of a mail gets another receiver.
LEMMA TurnItem ==
    ASSUME NEW t, NEW u, Ledger(t), NEW i \in Item, NEW p, Except(t, u, {MailItemTo(i)})
    PROVE  /\ TabStep(p, t, u) /\ \A n, j : j \in Item => (In(u, n, j) <=> In(t, n, j))
           /\ \A n \in MailId : u[MailTo(n)] = t[MailTo(n)]
           /\ \A j \in Item : j # i => u[MailItemTo(j)] = t[MailItemTo(j)]
<1>1. \A r \in {MailItemTo(i)} : r[1] = "mail_item_to" BY RowKinds
<1>2. /\ \A q \in Player : u[GoldRow(q)] = t[GoldRow(q)]
      /\ \A j \in Item : /\ u[ItemRow(j)] = t[ItemRow(j)] /\ u[AuctionRow(j)] = t[AuctionRow(j)]
                         /\ u[MailItem(j)] = t[MailItem(j)] /\ u[GivenUp(j)] = t[GivenUp(j)]
      /\ \A n \in MailId : /\ u[MailRow(n)] = t[MailRow(n)] /\ u[MailMoney(n)] = t[MailMoney(n)]
                           /\ u[MailTo(n)] = t[MailTo(n)]
    BY <1>1, ExceptRows
<1>3. ASSUME NEW j \in Item, j # i PROVE u[MailItemTo(j)] = t[MailItemTo(j)]
    <2>1. MailItemTo(j) # MailItemTo(i) /\ MailItemTo(j) \in RowNames BY <1>3, RowKeys, RowKinds
    <2> QED BY <2>1 DEF Except
<1>4. \A n, j : j \in Item => (In(u, n, j) <=> In(t, n, j)) BY <1>2 DEF In
<1>5. \A j \in Item, n \in MailId : In(t, n, j) => t[MailRow(n)] BY DEF Ledger
<1>6. \A j \in Item : Stays(t, u, j) BY <1>2, <1>5 DEF Stays
<1>7. \A n \in MailId, j, k \in Item : ~t[MailRow(n)] => ~In(u, n, j) BY <1>4, <1>5
<1>8. NoneNormal(u) BY <1>2 DEF NoneNormal, Ledger
<1>9. TabStep(p, t, u) BY <1>2, <1>6, <1>7, <1>8 DEF TabStep
<1> QED BY <1>2, <1>3, <1>4, <1>9


\* The tables that new entries make, one after the other.
LEMMA TabEntries ==
    ASSUME TypeInv, TypeInv', NEW es \in Seq(EntryType), queue' = queue \o es, db' = db
    PROVE  /\ \A n : n = Len(queue) => Tab(n)' = End
           /\ \A k \in 1 .. Len(es) : \A m, n : m = Len(queue) + k /\ n + 1 = m /\ n \in Nat =>
                Tab(m)' = es[k].rows ++ Tab(n)'
           /\ \A n : n = Len(queue) + Len(es) => End' = Tab(n)'
<1>1. queue \in Seq(EntryType) /\ queue' \in Seq(EntryType) BY DEF TypeInv, TablesTyped
<1>2. /\ \A n \in 0 .. Len(queue) : Tab(n)' = Tab(n)
      /\ \A n \in 1 .. Len(es) : \A k : k = Len(queue) + n => queue'[k] = es[n]
      /\ Len(queue') = Len(queue) + Len(es) /\ Len(es) \in Nat
    BY TabConcat
<1>3. End = Tab(Len(queue)) /\ Len(queue) \in Nat BY TabFacts
<1>4. ASSUME NEW n, n = Len(queue) PROVE Tab(n)' = End
    <2>1. n \in 0 .. Len(queue) BY <1>3, <1>4
    <2>2. Tab(n)' = Tab(n) BY <1>2, <2>1
    <2> QED BY <1>3, <1>4, <2>2
<1>5. ASSUME NEW k \in 1 .. Len(es), NEW m, NEW n \in Nat, m = Len(queue) + k, n + 1 = m
      PROVE  Tab(m)' = es[k].rows ++ Tab(n)'
    <2>1. PICK f : f = es[k].rows OBVIOUS
    <2>2. DOMAIN f \subseteq RowNames
        <3>1. es[k] \in EntryType BY <1>2, LenProperties
        <3> QED BY <2>1, <3>1 DEF EntryType, Good, Typed
    <2>3. queue'[n + 1].rows = f BY <1>2, <1>5, <2>1
    <2>4. \A r : ValueIn(db', queue', n + 1, r) = IF r \in DOMAIN f THEN f[r] ELSE ValueIn(db', queue', n, r)
        BY <2>3, ValueNext
    <2>5. \A r : Value(m, r)' = IF r \in DOMAIN f THEN f[r] ELSE Value(n, r)'
        BY <1>5, <2>4, ValuePrimed
    <2>6. PICK t : t = Tab(n)' OBVIOUS
    <2>7. t = [r \in RowNames |-> Value(n, r)'] BY <2>6 DEF Tab
    <2>8. DOMAIN f \cup DOMAIN t = RowNames BY <2>2, <2>7
    <2>9. f ++ t = [r \in RowNames |-> IF r \in DOMAIN f THEN f[r] ELSE Value(n, r)']
        BY <2>7, <2>8 DEF ++
    <2>10. Tab(m)' = [r \in RowNames |-> IF r \in DOMAIN f THEN f[r] ELSE Value(n, r)']
        BY <2>5 DEF Tab
    <2> QED BY <2>1, <2>6, <2>9, <2>10
<1>6. ASSUME NEW n, n = Len(queue) + Len(es) PROVE End' = Tab(n)'
    <2>1. DOMAIN queue' = 1 .. n BY <1>1, <1>2, <1>6, LenProperties
    <2>2. \A r : Latest(r)' = ValueIn(db', queue', n, r) BY <2>1 DEF Latest, ValueIn, LastWrite
    <2>3. \A r : Latest(r)' = Value(n, r)' BY <2>2, ValuePrimed
    <2> QED BY <2>3 DEF Tab, End
<1> QED BY <1>4, <1>5, <1>6

\* The rows of a mail at rest, and of its item, do not change any more.
LEMMA RestRows ==
    ASSUME TypeInv, LedgerInv, NEW m \in MailId, AtRest(m), db[MailRow(m)]
    PROVE  /\ End[MailRow(m)] /\ End[MailTo(m)] = db[MailTo(m)]
           /\ db[MailTo(m)] \in AddressType
           /\ \A j \in Item : In(End, m, j) <=> j \in StoredIn(m)
           /\ \A i, j \in StoredIn(m) : i = j
<1>1. \A k \in DOMAIN queue :
            {r[2] : r \in DOMAIN queue[k].rows} \cap ({m} \cup StoredIn(m)) = {}
    BY DEF AtRest
<1>2. ASSUME NEW r \in RowNames, r[2] \in {m} \cup StoredIn(m) PROVE End[r] = db[r]
    <2>1. \A k \in DOMAIN queue : r \notin DOMAIN queue[k].rows BY <1>1, <1>2
    <2> QED BY <2>1 DEF End, Latest
<1>3. End[MailRow(m)] = db[MailRow(m)] /\ End[MailTo(m)] = db[MailTo(m)]
    <2>1. MailRow(m)[2] = m /\ MailTo(m)[2] = m BY RowKeys
    <2> QED BY <1>2, <2>1, RowKinds
<1>4. db[MailTo(m)] \in AddressType BY DEF TypeInv, TablesTyped, GoodTable
<1>5. ASSUME NEW j \in Item, j \in StoredIn(m) PROVE In(End, m, j)
    <2>1. End[MailItem(j)] = db[MailItem(j)] /\ End[GivenUp(j)] = db[GivenUp(j)]
        <3>1. MailItem(j)[2] = j /\ GivenUp(j)[2] = j BY RowKeys
        <3> QED BY <1>2, <1>5, <3>1, RowKinds
    <2> QED BY <1>5, <2>1 DEF In, StoredIn
<1>6. ASSUME NEW j \in Item, In(End, m, j) PROVE j \in StoredIn(m)
    <2>1. Latest(MailItem(j)) = m /\ ~Latest(GivenUp(j)) BY <1>6, RowKinds DEF In, End
    <2>2. queue \in Seq(EntryType) /\ GoodTable(db) BY DEF TypeInv, TablesTyped
    <2>3. ASSUME NEW k \in DOMAIN queue, MailItem(j) \in DOMAIN queue[k].rows,
                 queue[k].rows[MailItem(j)] = m
          PROVE  FALSE
        <3>1. MailRow(m) \in DOMAIN queue[k].rows BY <2>3, MailAssumption DEF LedgerInv, Links, Linked
        <3>2. MailRow(m)[2] = m BY RowKeys
        <3> QED BY <1>1, <3>1, <3>2
    <2>4. db[MailItem(j)] = m
        <3> SUFFICES ASSUME db[MailItem(j)] # m PROVE FALSE OBVIOUS
        <3>1. PICK V : V = (MailId \cup {NoMail}) \ {m} OBVIOUS
        <3>2. db[MailItem(j)] \in V BY <2>2, <3>1, TableTypes DEF GoodTable
        <3>3. ASSUME NEW k \in DOMAIN queue, MailItem(j) \in DOMAIN queue[k].rows
              PROVE  queue[k].rows[MailItem(j)] \in V
            <4>1. Typed(queue[k].rows) BY TabFacts DEF Good
            <4>2. queue[k].rows[MailItem(j)] \in MailId \cup {NoMail} BY <3>3, <4>1, RowKinds, RowTypeOf DEF Typed
            <4> QED BY <2>3, <3>1, <3>3, <4>2
        <3>4. Latest(MailItem(j)) \in V BY <2>2, <3>2, <3>3, LatestType
        <3> QED BY <2>1, <3>1, <3>4
    <2>5. ASSUME db[GivenUp(j)] PROVE FALSE
        <3>1. PICK V : V = {TRUE} OBVIOUS
        <3>2. db[GivenUp(j)] \in V BY <2>2, <2>5, <3>1, TableTypes DEF GoodTable
        <3>3. \A k \in DOMAIN queue : GivenUp(j) \in DOMAIN queue[k].rows => queue[k].rows[GivenUp(j)] \in V
            BY <3>1 DEF LedgerInv, Links, Linked
        <3>4. Latest(GivenUp(j)) \in V BY <2>2, <3>2, <3>3, LatestType
        <3> QED BY <2>1, <3>1, <3>4
    <2> QED BY <2>4, <2>5 DEF StoredIn
<1>7. ASSUME NEW i \in StoredIn(m), NEW j \in StoredIn(m) PROVE i = j
    <2>1. 0 \in 0 .. Len(queue) /\ \A r \in RowNames : Tab(0)[r] = db[r] BY TabFacts
    <2>2. Ledger(Tab(0)) BY <2>1 DEF LedgerInv, Books
    <2>3. i \in Item /\ j \in Item /\ In(Tab(0), m, i) /\ In(Tab(0), m, j)
        BY <2>1, RowKinds DEF StoredIn, In
    <2> QED BY <2>2, <2>3 DEF Ledger
<1> QED BY <1>3, <1>4, <1>5, <1>6, <1>7


\* One member of a set, or none, as a sequence.
LEMMA FewInSeq == SetToSeq({}) = <<>> /\ \A e : SetToSeq({e}) = <<e>>
<1>1. SetToSeq({}) = <<>>
    <2>1. IsFiniteSet({}) /\ Cardinality({}) = 0 BY FS_EmptySet
    <2>2. SetToSeq({}) \in Seq({}) /\ Len(SetToSeq({})) = 0 BY <2>1, SetToSeqFacts
    <2> QED BY <2>2, EmptySeq
<1>2. ASSUME NEW e PROVE SetToSeq({e}) = <<e>>
    <2>1. IsFiniteSet({e}) /\ Cardinality({e}) = 1 BY FS_Singleton
    <2>2. PICK s : s = SetToSeq({e}) OBVIOUS
    <2>3. s \in Seq({e}) /\ Len(s) = 1 BY <2>1, <2>2, SetToSeqFacts
    <2>4. s[1] = e BY <2>3
    <2>5. s = <<e>> BY <2>3, <2>4
    <2> QED BY <2>2, <2>5
<1> QED BY <1>1, <1>2

\* What follows a queue is known when the whole is.
LEMMA SameEnd ==
    ASSUME NEW S, NEW q \in Seq(S), NEW a \in Seq(S), NEW b \in Seq(S), q \o a = q \o b
    PROVE  Len(a) = Len(b) /\ \A k \in 1 .. Len(b) : a[k] = b[k]
<1>1. Len(q) \in Nat /\ Len(a) \in Nat /\ Len(b) \in Nat BY LenProperties
<1>2. /\ Len(q \o a) = Len(q) + Len(a) /\ Len(q \o b) = Len(q) + Len(b)
      /\ \A k \in 1 .. Len(q) + Len(a) : (q \o a)[k] = IF k <= Len(q) THEN q[k] ELSE a[k - Len(q)]
      /\ \A k \in 1 .. Len(q) + Len(b) : (q \o b)[k] = IF k <= Len(q) THEN q[k] ELSE b[k - Len(q)]
    BY ConcatProperties
<1>3. Len(a) = Len(b) BY <1>1, <1>2
<1>4. ASSUME NEW k \in 1 .. Len(b) PROVE a[k] = b[k]
    <2>1. Len(q) + k \in 1 .. Len(q) + Len(b) /\ ~(Len(q) + k <= Len(q)) /\ (Len(q) + k) - Len(q) = k
        BY <1>1
    <2> QED BY <1>2, <1>3, <2>1
<1> QED BY <1>3, <1>4

\* The rows of the three statements about an old mail.
Dropped(f, m) ==
    f = Write(MailRow(m), FALSE) ++ Fee(IF Latest(MailRow(m)) THEN Latest(MailMoney(m)) ELSE 0)
DropRows(f, m) == DOMAIN f = {MailRow(m), Fees} /\ Dropped(f, m)
TurnRows(f, m, a) == DOMAIN f = {MailTo(m), MailCod(m)} /\ f[MailTo(m)] = a
OneRow(f, r, v) == DOMAIN f = {r} /\ f[r] = v

\* What becomes of the old mail m: it has no item and is deleted; its item i and
\* then the mail are deleted; the mail and then its item go back to the sender.
OldAlone(m, es) == StoredIn(m) = {} /\ Len(es) = 1 /\ DropRows(es[1].rows, m)
OldDeleted(m, i, es) ==
    /\ StoredIn(m) = {i} /\ Len(es) = 2
    /\ OneRow(es[1].rows, GivenUp(i), TRUE) /\ DropRows(es[2].rows, m)
OldReturned(m, i, es) ==
    /\ StoredIn(m) = {i} /\ Len(es) = 2 /\ db[MailTo(m)].normal
    /\ \E a : TurnRows(es[1].rows, m, a) /\ a.to = db[MailTo(m)].from
    /\ OneRow(es[2].rows, MailItemTo(i), db[MailTo(m)].from)

\* It is one of these.
LEMMA OldEntries ==
    ASSUME TypeInv, NEW m \in MailId, \A i, j \in StoredIn(m) : i = j, ReturnOrDeleteOldMails(m)
    PROVE  \E es \in Seq(EntryType) :
               /\ \A k \in DOMAIN es : es[k].load = Nobody
               /\ queue' = queue \o es
               /\ OldAlone(m, es) \/ \E i \in Item : OldDeleted(m, i, es) \/ OldReturned(m, i, es)
<1>1. PICK es \in Seq(EntryType) : (\A k \in DOMAIN es : MailEntry(es[k])) /\ queue' = queue \o es
    BY OldMailEntries
<1>2. \A k \in DOMAIN es : es[k].load = Nobody BY <1>1 DEF MailEntry
<1>3. queue \in Seq(EntryType) /\ db[MailRow(m)] /\ GoodTable(db)
    BY DEF TypeInv, TablesTyped, ReturnOrDeleteOldMails
<1>4. PICK old : old = db[MailTo(m)] OBVIOUS
<1>5. old \in AddressType BY <1>3, <1>4 DEF GoodTable
<1>6. PICK v : v = IF Latest(MailRow(m)) THEN Latest(MailMoney(m)) ELSE 0 OBVIOUS
<1>7. PICK x : x = Entry(Write(MailRow(m), FALSE) ++ Fee(v)) OBVIOUS
<1>8. PICK a : a = [old EXCEPT !.to = old.from, !.from = old.to, !.returned = TRUE] OBVIOUS
<1>9. PICK z : z = Entry(Write(MailTo(m), a) ++ Write(MailCod(m), 0)) OBVIOUS
<1>10. DropRows(x.rows, m)
    <2>1. DOMAIN x.rows = {MailRow(m), Fees} BY <1>7 DEF Entry, Write, Fee, ++
    <2>2. PICK h : h = Write(MailRow(m), FALSE) ++ Fee(v) OBVIOUS
    <2>3. x.rows = h BY <1>7, <2>2 DEF Entry
    <2>4. Dropped(h, m) BY <1>6, <2>2, Zenon DEF Dropped
    <2> QED BY <2>1, <2>3, <2>4 DEF DropRows
<1>11. TurnRows(z.rows, m, a)
    <2>1. PICK h : h = Write(MailTo(m), a) ++ Write(MailCod(m), 0) OBVIOUS
    <2>2. DOMAIN h = {MailTo(m), MailCod(m)} /\ h[MailTo(m)] = a BY <2>1 DEF Write, ++
    <2>3. z.rows = h BY <1>9, <2>1 DEF Entry
    <2> QED BY <2>2, <2>3 DEF TurnRows
<1>12. a.to = old.from BY <1>5, <1>8 DEF AddressType, AddressRecord
<1>13. DeleteMail(m) = SetToSeq({Entry(Write(GivenUp(i), TRUE)) : i \in StoredIn(m)}) \o <<x>>
    BY <1>6, <1>7, Zenon DEF DeleteMail
<1>14. ReturnMail(m) = <<z>> \o SetToSeq({Entry(Write(MailItemTo(i), old.from)) : i \in StoredIn(m)})
    BY <1>4, <1>8, <1>9, Zenon DEF ReturnMail
<1>15. /\ StoredIn(m) # {} /\ old.normal /\ queue' = queue \o ReturnMail(m)
       \/ queue' = queue \o DeleteMail(m)
    BY <1>4 DEF ReturnOrDeleteOldMails
<1>16. ASSUME NEW y, queue' = queue \o <<y>> PROVE Len(es) = 1 /\ es[1] = y
    <2>1. PICK S, b : S = EntryType \cup {y} /\ b = <<y>> OBVIOUS
    <2>2. queue \in Seq(S) /\ es \in Seq(S) /\ b \in Seq(S) BY <1>3, <2>1
    <2>3. queue \o es = queue \o b BY <1>1, <1>16, <2>1
    <2>4. Len(es) = Len(b) /\ \A k \in 1 .. Len(b) : es[k] = b[k] BY <2>2, <2>3, SameEnd
    <2>5. Len(b) = 1 /\ b[1] = y BY <2>1
    <2> QED BY <2>4, <2>5
<1>17. ASSUME NEW y, NEW w, queue' = queue \o <<y, w>> PROVE Len(es) = 2 /\ es[1] = y /\ es[2] = w
    <2>1. PICK S, b : S = EntryType \cup {y, w} /\ b = <<y, w>> OBVIOUS
    <2>2. queue \in Seq(S) /\ es \in Seq(S) /\ b \in Seq(S) BY <1>3, <2>1
    <2>3. queue \o es = queue \o b BY <1>1, <1>17, <2>1
    <2>4. Len(es) = Len(b) /\ \A k \in 1 .. Len(b) : es[k] = b[k] BY <2>2, <2>3, SameEnd
    <2>5. Len(b) = 2 /\ b[1] = y /\ b[2] = w BY <2>1
    <2> QED BY <2>4, <2>5
<1>18. CASE StoredIn(m) = {}
    <2>1. DeleteMail(m) = <<x>>
        <3>1. {Entry(Write(GivenUp(i), TRUE)) : i \in StoredIn(m)} = {} BY <1>18
        <3>2. DeleteMail(m) = <<>> \o <<x>> BY <1>13, <3>1, FewInSeq
        <3> QED BY <3>2
    <2>2. queue' = queue \o <<x>> BY <1>15, <1>18, <2>1
    <2>3. OldAlone(m, es) BY <1>10, <1>16, <1>18, <2>2 DEF OldAlone
    <2> QED BY <1>1, <1>2, <2>3
<1>19. CASE StoredIn(m) # {}
    <2>1. PICK i : i \in StoredIn(m) BY <1>19
    <2>2. StoredIn(m) = {i} /\ i \in Item BY <2>1 DEF StoredIn
    <2>3. CASE old.normal /\ queue' = queue \o ReturnMail(m)
        <3>1. PICK y : y = Entry(Write(MailItemTo(i), old.from)) OBVIOUS
        <3>2. {Entry(Write(MailItemTo(j), old.from)) : j \in StoredIn(m)} = {y} BY <2>2, <3>1
        <3>3. ReturnMail(m) = <<z>> \o <<y>> BY <1>14, <3>2, FewInSeq
        <3>4. queue' = queue \o <<z, y>> BY <2>3, <3>3
        <3>5. OneRow(y.rows, MailItemTo(i), old.from) BY <3>1, Single DEF OneRow, Entry
        <3>6. OldReturned(m, i, es)
            BY <1>4, <1>11, <1>12, <1>17, <2>2, <2>3, <3>4, <3>5 DEF OldReturned
        <3> QED BY <1>1, <1>2, <2>2, <3>6
    <2>4. CASE queue' = queue \o DeleteMail(m)
        <3>1. PICK y : y = Entry(Write(GivenUp(i), TRUE)) OBVIOUS
        <3>2. {Entry(Write(GivenUp(j), TRUE)) : j \in StoredIn(m)} = {y} BY <2>2, <3>1
        <3>3. DeleteMail(m) = <<y>> \o <<x>> BY <1>13, <3>2, FewInSeq
        <3>4. queue' = queue \o <<y, x>> BY <2>4, <3>3
        <3>5. OneRow(y.rows, GivenUp(i), TRUE) BY <3>1, Single DEF OneRow, Entry
        <3>6. OldDeleted(m, i, es) BY <1>10, <1>17, <2>2, <3>4, <3>5 DEF OldDeleted
        <3> QED BY <1>1, <1>2, <2>2, <3>6
    <2> QED BY <1>15, <2>3, <2>4
<1> QED BY <1>18, <1>19


\* Statements about the mail of a player p who is neither in the world nor about
\* to enter it.
LEMMA AwayLedger ==
    ASSUME TypeInv, TypeInv', LedgerInv, NEW es \in Seq(EntryType), queue' = queue \o es,
           UNCHANGED <<online, inv, money, db, box>>,
           NEW p, p \notin online, \A k \in DOMAIN queue : queue[k].load # p,
           \A k \in DOMAIN es : es[k].load = Nobody /\ Linked(es[k].rows),
           \A n \in Nat : n > Len(queue) /\ n <= Len(queue') =>
                /\ Ledger(Tab(n)')
                /\ Registered(Tab(n)') \/ (MaxCrashes = 0 /\ n < Len(queue')),
           \A q \in Player \ {p} : Mine(q, End, End')
    PROVE  LedgerInv'
<1>1. queue \in Seq(EntryType) /\ online \subseteq Player
    BY DEF TypeInv, TablesTyped, PlayersTyped
<1>2. ASSUME NEW k \in DOMAIN queue, queue[k].load # Nobody PROVE Mine(queue[k].load, End, End')
    <2>1. queue[k] \in EntryType BY <1>1
    <2>2. queue[k].load \in Player \ {p} BY <1>2, <2>1 DEF EntryType
    <2> QED BY <2>2
<1>3. db' = db /\ online' \subseteq online OBVIOUS
<1>4. (Books /\ Registers /\ Links /\ Logins)' BY <1>2, <1>3, QueueKeeps
<1>5. Memory'
    <2> SUFFICES ASSUME NEW q \in online' PROVE Backs(End', q, money'[q], inv'[q], box'[q])
        BY Zenon DEF Memory
    <2>1. q \in online /\ q \in Player \ {p} BY <1>1
    <2>2. inv[q] \in SUBSET Item /\ DOMAIN box[q] \subseteq MailId
        BY <2>1, BoxFacts DEF TypeInv, PlayersTyped
    <2>3. Backs(End, q, money[q], inv[q], box[q]) BY <2>1 DEF LedgerInv, Memory
    <2>4. Mine(q, End, End') BY <2>1
    <2>5. Backs(End', q, money[q], inv[q], box[q]) BY <2>2, <2>3, <2>4, MineKept
    <2> QED BY <2>5
<1> QED BY <1>4, <1>5 DEF LedgerInv

\* A mail that gets old is at rest: its receiver finds it gone or the sender finds
\* it back, with the item, and nobody else notices.  Between the two statements
\* of a return the item is registered for the old receiver: a crash there would
\* strand it, so that the lemma asks for a server that does not crash or for
\* players who never send a mail.
LEMMA OldMailLedger ==
    ASSUME TypeInv, TypeInv', LedgerInv, OldMailsAtRest, MaxCrashes = 0 \/ NobodyMails,
           NEW m \in MailId, ReturnOrDeleteOldMails(m)
    PROVE  LedgerInv'
<1>1. UNCHANGED <<online, inv, money, db, box>> /\ AtRest(m) /\ db[MailRow(m)]
    BY DEF ReturnOrDeleteOldMails
<1>2. /\ End[MailRow(m)] /\ End[MailTo(m)] = db[MailTo(m)]
      /\ db[MailTo(m)] \in AddressType
      /\ \A j \in Item : In(End, m, j) <=> j \in StoredIn(m)
      /\ \A i, j \in StoredIn(m) : i = j
    BY <1>1, RestRows
<1>3. PICK p : p = End[MailTo(m)].to OBVIOUS
<1>4. p \notin online /\ \A k \in DOMAIN queue : queue[k].load # p
    BY <1>1, <1>2, <1>3 DEF AtRest
<1>5. PICK es \in Seq(EntryType) :
            /\ \A k \in DOMAIN es : es[k].load = Nobody
            /\ queue' = queue \o es
            /\ OldAlone(m, es) \/ \E i \in Item : OldDeleted(m, i, es) \/ OldReturned(m, i, es)
    BY <1>2, OldEntries
<1>6. /\ Len(queue) \in Nat /\ Len(es) \in Nat /\ DOMAIN es = 1 .. Len(es)
      /\ Len(queue') = Len(queue) + Len(es)
    BY <1>1, <1>5, TabConcat, TabFacts, LenProperties
<1>7. PICK L : L = Len(queue) OBVIOUS
<1>8. /\ Tab(L)' = End
      /\ \A k \in 1 .. Len(es) : \A j, n : j = L + k /\ n + 1 = j /\ n \in Nat =>
                Tab(j)' = es[k].rows ++ Tab(n)'
      /\ \A n : n = L + Len(es) => End' = Tab(n)'
    BY <1>1, <1>5, <1>7, TabEntries
<1>9. Ledger(End) /\ Registered(End)
    <2>1. End = Tab(L) /\ L \in 0 .. Len(queue) BY <1>6, <1>7, TabFacts
    <2>2. ~(L < Len(queue)) BY <1>6, <1>7
    <2> QED BY <2>1, <2>2 DEF LedgerInv, Books, Registers
<1>10. \A q \in Player : q # Nobody BY StoreAssumption
<1>11. ASSUME NEW f, NEW t, NEW u, u = f ++ t, DOMAIN t = RowNames PROVE Except(t, u, DOMAIN f)
    BY <1>11 DEF Except, ++
<1>12. DOMAIN End = RowNames BY DEF End
<1>13. ASSUME NEW n PROVE DOMAIN Tab(n)' = RowNames BY DEF Tab
<1>20. CASE OldAlone(m, es)
    <2>1. PICK f, u : f = es[1].rows /\ u = f ++ End OBVIOUS
    <2>2. Len(es) = 1 /\ DOMAIN f = {MailRow(m), Fees} /\ \A j \in Item : ~In(End, m, j)
        BY <1>2, <1>20, <2>1 DEF OldAlone, DropRows
    <2>3. Except(End, u, {MailRow(m), Fees}) BY <1>11, <1>12, <2>1, <2>2
    <2>4. TabStep(p, End, u) /\ TabRegister(End, u) BY <1>2, <1>3, <1>9, <2>2, <2>3, DropMail
    <2>5. Ledger(u) /\ Registered(u) /\ \A q \in Player \ {p} : Mine(q, End, u)
        BY <1>9, <1>10, <2>4, StepKeeps
    <2>6. \A n : n = L + 1 => Tab(n)' = u
        <3>1. 1 \in 1 .. Len(es) /\ L \in Nat BY <1>6, <1>7, <2>2
        <3> QED BY <1>8, <2>1, <3>1
    <2>7. End' = u BY <1>8, <2>2, <2>6
    <2>8. \A n \in Nat : n > Len(queue) /\ n <= Len(queue') => n = L + 1 BY <1>6, <1>7, <2>2
    <2>9. Linked(f) BY <2>2, RowKinds DEF Linked
    <2>10. \A k \in DOMAIN es : es[k].load = Nobody /\ Linked(es[k].rows)
        BY <1>5, <1>6, <2>1, <2>2, <2>9
    <2>11. \A n \in Nat : n > Len(queue) /\ n <= Len(queue') => Ledger(Tab(n)') /\ Registered(Tab(n)')
        BY <2>5, <2>6, <2>8
    <2>12. \A q \in Player \ {p} : Mine(q, End, End') BY <2>5, <2>7
    <2> QED BY <1>1, <1>4, <1>5, <2>10, <2>11, <2>12, AwayLedger
<1>21. ASSUME NEW f, NEW g, NEW w, NEW u, Len(es) = 2, f = es[1].rows, g = es[2].rows,
              w = f ++ End, u = g ++ w, Linked(f), Linked(g),
              Ledger(w), Registered(w) \/ MaxCrashes = 0, Ledger(u), Registered(u),
              \A q \in Player \ {p} : Mine(q, End, w) /\ Mine(q, w, u)
       PROVE  LedgerInv'
    <2>1. 1 \in 1 .. Len(es) /\ 2 \in 1 .. Len(es) /\ L \in Nat /\ L + 1 \in Nat /\ (L + 1) + 1 = L + 2
        BY <1>6, <1>7, <1>21
    <2>2. \A n : n = L + 1 => Tab(n)' = w BY <1>8, <1>21, <2>1
    <2>3. \A n : n = L + 2 => Tab(n)' = u
        <3>1. PICK j, n : j = L + 2 /\ n = L + 1 OBVIOUS
        <3>2. Tab(j)' = es[2].rows ++ Tab(n)' BY <1>8, <2>1, <3>1
        <3> QED BY <1>21, <2>2, <3>1, <3>2
    <2>4. End' = u BY <1>8, <1>21, <2>3
    <2>5. \A n \in Nat : n > Len(queue) /\ n <= Len(queue') =>
                (n = L + 1 /\ n < Len(queue')) \/ n = L + 2
        BY <1>6, <1>7, <1>21
    <2>6. \A k \in DOMAIN es : es[k].load = Nobody /\ Linked(es[k].rows)
        <3>1. \A k \in DOMAIN es : k = 1 \/ k = 2 BY <1>6, <1>21
        <3> QED BY <1>5, <1>21, <3>1
    <2>7. \A n \in Nat : n > Len(queue) /\ n <= Len(queue') =>
                /\ Ledger(Tab(n)')
                /\ Registered(Tab(n)') \/ (MaxCrashes = 0 /\ n < Len(queue'))
        BY <1>21, <2>2, <2>3, <2>5
    <2>8. \A q \in Player \ {p} : Mine(q, End, End') BY <1>21, <2>4, MineKept
    <2> QED BY <1>1, <1>4, <1>5, <2>6, <2>7, <2>8, AwayLedger
<1>22. ASSUME NEW i \in Item, OldDeleted(m, i, es) PROVE LedgerInv'
    <2>1. PICK f, g : f = es[1].rows /\ g = es[2].rows OBVIOUS
    <2>2. PICK w, u : w = f ++ End /\ u = g ++ w OBVIOUS
    <2>3. /\ Len(es) = 2 /\ DOMAIN f = {GivenUp(i)} /\ f[GivenUp(i)] = TRUE
          /\ DOMAIN g = {MailRow(m), Fees} /\ In(End, m, i)
        BY <1>2, <1>22, <2>1 DEF OldDeleted, OneRow, DropRows
    <2>4. Except(End, w, {GivenUp(i)}) BY <1>11, <1>12, <2>2, <2>3
    <2>5. w[GivenUp(i)] = TRUE /\ DOMAIN w = RowNames
        <3>1. DOMAIN w = DOMAIN f \cup DOMAIN End /\ w[GivenUp(i)] = f[GivenUp(i)] BY <2>2, <2>3 DEF ++
        <3> QED BY <1>12, <2>3, <3>1, RowKinds
    <2>6. /\ TabStep(p, End, w) /\ TabRegister(End, w) /\ \A j \in Item : ~In(w, m, j)
          /\ \A n \in MailId : w[MailRow(n)] = End[MailRow(n)] /\ w[MailTo(n)] = End[MailTo(n)]
        BY <1>3, <1>9, <2>3, <2>4, <2>5, DropItem
    <2>7. Ledger(w) /\ Registered(w) /\ \A q \in Player \ {p} : Mine(q, End, w)
        BY <1>9, <1>10, <2>6, StepKeeps
    <2>8. Except(w, u, {MailRow(m), Fees}) BY <1>11, <2>2, <2>3, <2>5
    <2>9. w[MailRow(m)] /\ p = w[MailTo(m)].to BY <1>2, <1>3, <2>6
    <2>10. TabStep(p, w, u) /\ TabRegister(w, u) BY <2>6, <2>7, <2>8, <2>9, DropMail
    <2>11. Ledger(u) /\ Registered(u) /\ \A q \in Player \ {p} : Mine(q, w, u)
        BY <1>10, <2>7, <2>10, StepKeeps
    <2>12. Linked(f) /\ Linked(g) BY <2>3, RowKinds, RowKeys DEF Linked
    <2> QED BY <1>21, <2>1, <2>2, <2>3, <2>7, <2>11, <2>12
<1>23. ASSUME NEW i \in Item, OldReturned(m, i, es) PROVE LedgerInv'
    <2>1. PICK f, g : f = es[1].rows /\ g = es[2].rows OBVIOUS
    <2>2. PICK w, u : w = f ++ End /\ u = g ++ w OBVIOUS
    <2>3. PICK a : DOMAIN f = {MailTo(m), MailCod(m)} /\ f[MailTo(m)] = a /\ a.to = db[MailTo(m)].from
        BY <1>23, <2>1 DEF OldReturned, TurnRows
    <2>4. /\ Len(es) = 2 /\ DOMAIN g = {MailItemTo(i)} /\ g[MailItemTo(i)] = a.to
          /\ StoredIn(m) = {i} /\ End[MailTo(m)].normal
        BY <1>2, <1>23, <2>1, <2>3 DEF OldReturned, OneRow
    <2>5. ~NobodyMails /\ MaxCrashes = 0
        <3>1. ~NobodyMails BY <1>2, <1>9, <2>4 DEF Ledger
        <3> QED BY <3>1
    <2>6. Except(End, w, {MailTo(m), MailCod(m)}) BY <1>11, <1>12, <2>2, <2>3
    <2>7. w[MailTo(m)] = a /\ DOMAIN w = RowNames
        <3>1. DOMAIN w = DOMAIN f \cup DOMAIN End /\ w[MailTo(m)] = f[MailTo(m)] BY <2>2, <2>3 DEF ++
        <3> QED BY <1>12, <2>3, <3>1, RowKinds
    <2>8. /\ TabStep(p, End, w) /\ \A n, j : j \in Item => (In(w, n, j) <=> In(End, n, j))
          /\ \A n \in MailId : n # m => w[MailTo(n)] = End[MailTo(n)]
          /\ \A j \in Item : w[MailItemTo(j)] = End[MailItemTo(j)]
        <3>1. PICK t : t = End OBVIOUS
        <3>2. Ledger(t) /\ p = t[MailTo(m)].to /\ Except(t, w, {MailTo(m), MailCod(m)})
            BY <1>3, <1>9, <2>6, <3>1
        <3>3. TabStep(p, t, w) /\ TurnKeeps(t, w, m) BY <2>5, <3>2, TurnMail, Zenon
        <3> QED BY <3>1, <3>3 DEF TurnKeeps
    <2>9. Ledger(w) /\ \A q \in Player \ {p} : Mine(q, End, w) BY <1>9, <1>10, <2>8, StepKeeps
    <2>10. Except(w, u, {MailItemTo(i)}) BY <1>11, <2>2, <2>4, <2>7
    <2>11. /\ TabStep(p, w, u) /\ \A n, j : j \in Item => (In(u, n, j) <=> In(w, n, j))
           /\ \A n \in MailId : u[MailTo(n)] = w[MailTo(n)]
           /\ \A j \in Item : j # i => u[MailItemTo(j)] = w[MailItemTo(j)]
        BY <2>9, <2>10, TurnItem
    <2>12. Ledger(u) /\ \A q \in Player \ {p} : Mine(q, w, u) BY <1>10, <2>9, <2>11, StepKeeps
    <2>13. u[MailItemTo(i)] = a.to BY <2>2, <2>4 DEF ++
    <2>14. ASSUME NEW j \in Item, NEW n \in MailId, In(u, n, j) PROVE u[MailItemTo(j)] = u[MailTo(n)].to
        <3>1. In(End, n, j) /\ In(End, m, i) BY <1>2, <2>4, <2>8, <2>11, <2>14
        <3>2. CASE n = m
            <4>1. j = i BY <1>2, <2>4, <3>1, <3>2
            <4> QED BY <2>7, <2>11, <2>13, <3>2, <4>1
        <3>3. CASE n # m
            <4>1. j # i BY <3>1, <3>3 DEF In
            <4>2. u[MailItemTo(j)] = End[MailItemTo(j)] /\ u[MailTo(n)] = End[MailTo(n)]
                BY <2>8, <2>11, <3>3, <4>1
            <4> QED BY <1>9, <3>1, <4>2 DEF Registered
        <3> QED BY <3>2, <3>3
    <2>15. Registered(u) BY <2>14 DEF Registered
    <2>16. Linked(f) /\ Linked(g) BY <2>3, <2>4, RowKinds, RowKeys DEF Linked
    <2> QED BY <1>21, <2>1, <2>2, <2>4, <2>5, <2>9, <2>12, <2>15, <2>16
<1> QED BY <1>5, <1>20, <1>22, <1>23


-----------------------------------------------------------------------------
\* Every step keeps the ledger in order.
LEMMA StepLedger ==
    ASSUME Workers = 1, OldMailsAtRest, ~ExpireWhileDown, LogTrade,
           MaxCrashes = 0 \/ NobodyMails,
           TypeInv, TypeInv', HouseInv, LedgerInv, [Next]_vars
    PROVE  LedgerInv'
<1>1. ASSUME NEW p \in Player, AuctionStep(p) PROVE LedgerInv'
    BY <1>1, SellLedger, BidLedger, BuyoutLedger, CancelLedger DEF AuctionStep
<1>2. ASSUME NEW p \in Player, MailStep(p) PROVE LedgerInv'
    <2>1. ASSUME NEW q \in Player, NEW i \in Item \cup {NoItem}, NEW g \in Amounts, NEW cod \in Amounts,
                 HandleSendMail(p, q, i, g, cod)
          PROVE  LedgerInv'
        BY <2>1, SendLedger
    <2>2. ASSUME NEW m \in MailId, HandleMailDelete(p, m) \/ HandleMailMarkAsRead(p, m) PROVE LedgerInv'
        BY <2>2, MarkLedger
    <2>3. ASSUME NEW m \in MailId, HandleMailReturnToSender(p, m) PROVE LedgerInv' BY <2>3, ReturnLedger
    <2>4. ASSUME NEW m \in MailId, HandleMailTakeItem(p, m) PROVE LedgerInv' BY <2>4, TakeItemLedger
    <2>5. ASSUME NEW m \in MailId, NEW g \in 0 .. MaxMoney, HandleMailTakeMoney(p, m, g) PROVE LedgerInv'
        <3>1. g \in Nat BY StoreAssumption
        <3> QED BY <2>5, <3>1, TakeMoneyLedger
    <2>6. CASE SaveToDB(p) \/ Logout(p) BY <2>6, SaveLedger
    <2>7. CASE Login(p) BY <2>7, LoginLedger
    <2>8. ASSUME NEW k, Load(p, k) PROVE LedgerInv' BY <2>8, LoadLedger
    <2> QED BY <1>2, <2>1, <2>2, <2>3, <2>4, <2>5, <2>6, <2>7, <2>8 DEF MailStep
<1>3. CASE MailStoreStep BY <1>3, OldMailLedger, ExecuteLedger DEF MailStoreStep
<1>4. ASSUME NEW i \in Item, Update(i) PROVE LedgerInv' BY <1>4, UpdateLedger
<1>5. ASSUME NEW S \in SUBSET Item, DeleteExpiredAuctionsAtStartup(S) PROVE LedgerInv'
    BY <1>5, StartupLedger
<1>6. CASE LoadAuctions BY <1>6, StillLedger DEF LoadAuctions
<1>7. CASE ServerCrash BY <1>7, CrashLedger
<1>8. CASE UNCHANGED vars BY <1>8, StillLedger DEF vars
<1> QED BY <1>1, <1>2, <1>3, <1>4, <1>5, <1>6, <1>7, <1>8 DEF Next

\* The tables hold every item in one place, because the ledger is in order now.
LEMMA LedgerStored == ASSUME TypeInv, LedgerInv PROVE ItemStored
<1> SUFFICES ASSUME NEW i \in Item
             PROVE  (IF db[ItemRow(i)] # Nobody THEN 1 ELSE 0)
                    + (IF db[AuctionRow(i)] # NoAuction THEN 1 ELSE 0)
                    + Cardinality({m \in MailId : db[MailRow(m)] /\ i \in StoredIn(m)})
                    + (IF db[GivenUp(i)] THEN 1 ELSE 0) = 1
    BY Zenon DEF ItemStored
<1>1. PICK t : t = Tab(0) OBVIOUS
<1>2. (\A r \in RowNames : t[r] = db[r]) /\ Ledger(t)
    <2>1. 0 \in 0 .. Len(queue) BY TabFacts
    <2> QED BY <1>1, <2>1, TabFacts DEF LedgerInv, Books
<1>3. /\ t[ItemRow(i)] = db[ItemRow(i)] /\ t[AuctionRow(i)] = db[AuctionRow(i)]
      /\ t[MailItem(i)] = db[MailItem(i)] /\ t[GivenUp(i)] = db[GivenUp(i)]
      /\ \A m \in MailId : t[MailRow(m)] = db[MailRow(m)]
    BY <1>2, RowKinds
<1>4. PICK M : M = {m \in MailId : db[MailRow(m)] /\ i \in StoredIn(m)} OBVIOUS
<1>5. \A m \in MailId : m \in M <=> In(t, m, i) BY <1>2, <1>3, <1>4 DEF StoredIn, In, Ledger
<1>6. OnePlace(t, i) BY <1>2 DEF Ledger
<1>7. CASE \E m \in MailId : In(t, m, i)
    <2>1. PICK m \in MailId : In(t, m, i) BY <1>7
    <2>2. M = {m} BY <1>4, <1>5, <2>1 DEF In
    <2>3. Cardinality(M) = 1 BY <2>2, FS_Singleton
    <2>4. db[ItemRow(i)] = Nobody /\ db[AuctionRow(i)] = NoAuction /\ ~db[GivenUp(i)]
        BY <1>3, <1>6, <2>1 DEF OnePlace, In
    <2> QED BY <1>4, <2>3, <2>4
<1>8. CASE ~\E m \in MailId : In(t, m, i)
    <2>1. M = {} BY <1>4, <1>5, <1>8
    <2>2. Cardinality(M) = 0 BY <2>1, FS_EmptySet
    <2>3. /\ db[ItemRow(i)] # Nobody \/ db[AuctionRow(i)] # NoAuction \/ db[GivenUp(i)]
          /\ db[ItemRow(i)] # Nobody => db[AuctionRow(i)] = NoAuction /\ ~db[GivenUp(i)]
          /\ db[AuctionRow(i)] # NoAuction => ~db[GivenUp(i)]
        BY <1>3, <1>6, <1>8 DEF OnePlace
    <2> QED BY <1>4, <2>2, <2>3
<1> QED BY <1>7, <1>8

\* The memory shows what the tables will hold, because the ledger says so of the
\* players and the history of the auctions says so of these.
LEMMA LedgerBacked == ASSUME TypeInv, HouseInv, LedgerInv, ~ExpireWhileDown PROVE MemoryBacked
<1>1. online \subseteq Player /\ inv \in [Player -> SUBSET Item] BY DEF TypeInv, PlayersTyped
<1>2. ASSUME NEW p \in online
      PROVE  /\ money[p] = Latest(GoldRow(p))
             /\ \A i \in inv[p] : Latest(ItemRow(i)) = p
             /\ \A m \in DOMAIN box[p] :
                    /\ Latest(MailRow(m)) /\ Latest(MailTo(m)).to = p
                    /\ Latest(MailMoney(m)) = box[p][m].money
                    /\ box[p][m].item # NoItem => Latest(MailItem(box[p][m].item)) = m
    <2>1. Backs(End, p, money[p], inv[p], box[p]) /\ p \in Player BY <1>1 DEF LedgerInv, Memory
    <2>2. \A r \in RowNames : End[r] = Latest(r) BY DEF End
    <2>3. money[p] = Latest(GoldRow(p)) /\ \A i \in inv[p] : Latest(ItemRow(i)) = p
        BY <1>1, <2>1, <2>2, RowKinds DEF Backs
    <2>4. ASSUME NEW m \in DOMAIN box[p]
          PROVE  /\ Latest(MailRow(m)) /\ Latest(MailTo(m)).to = p
                 /\ Latest(MailMoney(m)) = box[p][m].money
                 /\ box[p][m].item # NoItem => Latest(MailItem(box[p][m].item)) = m
        <3>1. m \in MailId /\ box[p][m].item \in Item \cup {NoItem} BY <2>1, BoxFacts DEF TypeInv
        <3>2. /\ End[MailRow(m)] /\ End[MailTo(m)] = box[p][m].address /\ box[p][m].address.to = p
              /\ End[MailMoney(m)] = box[p][m].money
              /\ \A i \in Item : box[p][m].item = i => In(End, m, i)
            BY <2>1 DEF Backs
        <3>3. /\ End[MailRow(m)] = Latest(MailRow(m)) /\ End[MailTo(m)] = Latest(MailTo(m))
              /\ End[MailMoney(m)] = Latest(MailMoney(m))
            BY <2>2, <3>1, RowKinds
        <3>4. \A i \in Item : box[p][m].item = i => Latest(MailItem(i)) = m
            BY <2>2, <3>2, RowKinds DEF In
        <3> QED BY <3>1, <3>2, <3>3, <3>4
    <2> QED BY <2>3, <2>4
<1>3. ASSUME NEW i \in aitems
      PROVE  /\ Latest(AuctionRow(i)) = Listing(i)
             /\ Latest(BidRow(i)) = [bidder |-> auction[i].bidder, bid |-> auction[i].bid]
    BY DEF HouseInv, AuctionsBacked, BidOf
<1> QED BY <1>2, <1>3 DEF MemoryBacked

\* What is in two places in memory would be in two places in the tables.
LEMMA LedgerOnce == ASSUME TypeInv, HouseInv, LedgerInv, ~ExpireWhileDown PROVE ItemOnce
<1> SUFFICES ASSUME NEW i \in Item
             PROVE  Cardinality({p \in Player : i \in inv[p]})
                    + Cardinality({pm \in Player \X MailId :
                            pm[2] \in DOMAIN box[pm[1]] /\ box[pm[1]][pm[2]].item = i})
                    + (IF OnSale(i) THEN 1 ELSE 0) <= 1
    BY Zenon DEF ItemOnce
<1>1. PICK A, B : /\ A = {p \in Player : i \in inv[p]}
                  /\ B = {pm \in Player \X MailId :
                            pm[2] \in DOMAIN box[pm[1]] /\ box[pm[1]][pm[2]].item = i}
    OBVIOUS
<1>2. PICK t : t = End OBVIOUS
<1>3. OnePlace(t, i) /\ Nobody \notin Player
    <2>1. End = Tab(Len(queue)) /\ Len(queue) \in 0 .. Len(queue) BY TabFacts
    <2> QED BY <1>2, <2>1, StoreAssumption DEF LedgerInv, Books, Ledger
<1>4. ASSUME NEW p \in Player
      PROVE  /\ i \in inv[p] => t[ItemRow(i)] = p
             /\ \A m \in DOMAIN box[p] : box[p][m].item = i =>
                    m \in MailId /\ In(t, m, i) /\ t[MailTo(m)].to = p
    <2>1. CASE p \notin online BY <2>1 DEF TypeInv, PlayersTyped
    <2>2. CASE p \in online
        <3>1. Backs(t, p, money[p], inv[p], box[p]) BY <1>2, <2>2 DEF LedgerInv, Memory
        <3>2. DOMAIN box[p] \subseteq MailId BY BoxFacts DEF TypeInv
        <3> QED BY <3>1, <3>2 DEF Backs
    <2> QED BY <2>1, <2>2
<1>5. OnSale(i) => t[AuctionRow(i)] # NoAuction
    <2> SUFFICES ASSUME OnSale(i) PROVE Latest(AuctionRow(i)) # NoAuction BY <1>2, RowKinds DEF End
    <2>1. Latest(AuctionRow(i)) = Listing(i) BY DEF HouseInv, AuctionsBacked
    <2>2. auction[i] \in AuctionRecord BY DEF OnSale, TypeInv, HouseTyped
    <2>3. Listing(i) \in ListingRecord BY <2>2 DEF Listing, AuctionRecord, ListingRecord
    <2> QED BY <2>1, <2>3, AuctionAssumption
<1>6. Cardinality(A) = 0 \/ (Cardinality(A) = 1 /\ t[ItemRow(i)] # Nobody)
    <2>1. ASSUME A = {} PROVE Cardinality(A) = 0 BY <2>1, FS_EmptySet
    <2>2. CASE A # {}
        <3>1. PICK p \in A : TRUE BY <2>2
        <3>2. A = {p} /\ t[ItemRow(i)] = p /\ p \in Player BY <1>1, <1>4, <3>1
        <3> QED BY <1>3, <3>2, FS_Singleton
    <2> QED BY <2>1, <2>2
<1>7. Cardinality(B) = 0 \/ (Cardinality(B) = 1 /\ \E m \in MailId : In(t, m, i))
    <2>1. ASSUME B = {} PROVE Cardinality(B) = 0 BY <2>1, FS_EmptySet
    <2>2. CASE B # {}
        <3>1. PICK c \in B : TRUE BY <2>2
        <3>2. ASSUME NEW d \in B
              PROVE  /\ d = <<d[1], d[2]>> /\ d[2] \in MailId /\ In(t, d[2], i)
                     /\ t[MailTo(d[2])].to = d[1]
            <4>1. d \in Player \X MailId /\ d[2] \in DOMAIN box[d[1]] /\ box[d[1]][d[2]].item = i
                BY <1>1
            <4>2. d[1] \in Player /\ d = <<d[1], d[2]>> BY <4>1
            <4>3. PICK p, m : p = d[1] /\ m = d[2] OBVIOUS
            <4>4. m \in MailId /\ In(t, m, i) /\ t[MailTo(m)].to = p BY <1>4, <4>1, <4>2, <4>3
            <4> QED BY <4>2, <4>3, <4>4
        <3>3. ASSUME NEW d \in B PROVE d = c
            <4>1. d[2] = c[2] BY <3>2 DEF In
            <4> QED BY <3>2, <4>1
        <3>4. B = {c} BY <3>1, <3>3
        <3> QED BY <3>2, <3>4, FS_Singleton
    <2> QED BY <2>1, <2>2
<1> QED BY <1>1, <1>3, <1>5, <1>6, <1>7 DEF OnePlace

\* The ledger is in order in every reachable state.
LEMMA LedgerAlways ==
    ASSUME Workers = 1, OldMailsAtRest, ~ExpireWhileDown, LogTrade,
           MaxCrashes = 0 \/ NobodyMails, \A p \in Player : InitMoney[p] <= MaxMoney
    PROVE  Spec => [](TypeInv /\ HouseInv /\ LedgerInv)
<1> DEFINE I == TypeInv /\ HouseInv /\ LedgerInv
<1>1. Init => I BY InitTypes, InitHouse, InitLedger
<1>2. I /\ [Next]_vars => I'
    <2> SUFFICES ASSUME I, [Next]_vars PROVE I' OBVIOUS
    <2>1. TypeInv' BY StepTypes DEF HouseInv
    <2>2. HouseInv' BY <2>1, StepHouse
    <2>3. LedgerInv' BY <2>1, StepLedger
    <2> QED BY <2>1, <2>2, <2>3
<1> QED BY <1>1, <1>2, PTL DEF Spec

\* At any moment, so also after a crash, the tables hold every item in exactly
\* one place: no order of sales, bids, ends of auctions, mails, saves, logins,
\* logouts and crashes loses an item or makes two of it.  For one worker thread,
\* with the log of trades on (without it an offline winner gets no mail), old
\* mails at rest, auctions that do not expire while the server is down, and
\* either no crash or no mails between players.
THEOREM ItemsAlwaysStored ==
    ASSUME Workers = 1, OldMailsAtRest, ~ExpireWhileDown, LogTrade,
           MaxCrashes = 0 \/ NobodyMails, \A p \in Player : InitMoney[p] <= MaxMoney
    PROVE  Spec => []ItemStored
<1>1. TypeInv /\ HouseInv /\ LedgerInv => ItemStored BY LedgerStored
<1> QED BY <1>1, LedgerAlways, PTL

\* Under the same conditions, what players see (money, bags, mails and their
\* items, auctions and bids) is what the tables hold once the queue is empty.
THEOREM MemoryAlwaysBacked ==
    ASSUME Workers = 1, OldMailsAtRest, ~ExpireWhileDown, LogTrade,
           MaxCrashes = 0 \/ NobodyMails, \A p \in Player : InitMoney[p] <= MaxMoney
    PROVE  Spec => []MemoryBacked
<1>1. TypeInv /\ HouseInv /\ LedgerInv => MemoryBacked BY LedgerBacked
<1> QED BY <1>1, LedgerAlways, PTL

\* And no item is in two bags, mails or auctions in memory.  The condition on old
\* mails is needed, although the code does not ensure it: the run without it shows
\* an item that two players have.
THEOREM ItemsAlwaysOnce ==
    ASSUME Workers = 1, OldMailsAtRest, ~ExpireWhileDown, LogTrade,
           MaxCrashes = 0 \/ NobodyMails, \A p \in Player : InitMoney[p] <= MaxMoney
    PROVE  Spec => []ItemOnce
<1>1. TypeInv /\ HouseInv /\ LedgerInv => ItemOnce BY LedgerOnce
<1> QED BY <1>1, LedgerAlways, PTL


-----------------------------------------------------------------------------
(***************************************************************************)
(* The money.  A table t holds that of the purses, of the mails that       *)
(* exist, and of the auctions (their deposits and bids), and what was paid *)
(* to the server.  A transaction is a pile of layers, each of which moves  *)
(* money in one place.                                                     *)
(***************************************************************************)

Post(t, m) == IF t[MailRow(m)] THEN t[MailMoney(m)] ELSE 0
Stake(t, i) == IF t[AuctionRow(i)] = NoAuction THEN 0 ELSE t[AuctionRow(i)].deposit + t[BidRow(i)].bid

Purses(t) == [p \in Player |-> t[GoldRow(p)]]
Postage(t) == [m \in MailId |-> Post(t, m)]
Stakes(t) == [i \in Item |-> Stake(t, i)]
Wealth(t) == SumOn(Player, Purses(t)) + SumOn(MailId, Postage(t)) + SumOn(Item, Stakes(t)) + t[Fees]

\* The sums are sums of integers, and there is no bid without a bidder.
Counted(t) ==
    /\ RowNames \subseteq DOMAIN t /\ t[Fees] \in Int
    /\ \A p \in Player : t[GoldRow(p)] \in Int
    /\ \A m \in MailId : t[MailMoney(m)] \in Int
    /\ \A i \in Item : Stake(t, i) \in Int /\ (t[BidRow(i)].bidder = Nobody => t[BidRow(i)].bid = 0)

Worth(t, w) == Counted(t) /\ Wealth(t) = w

SamePurses(t, u) == \A p \in Player : u[GoldRow(p)] = t[GoldRow(p)]
SameMails(t, u) == \A m \in MailId : u[MailRow(m)] = t[MailRow(m)] /\ u[MailMoney(m)] = t[MailMoney(m)]
SameStakes(t, u) == \A i \in Item : u[AuctionRow(i)] = t[AuctionRow(i)] /\ u[BidRow(i)] = t[BidRow(i)]

\* The parts of a sum are summed apart.
LEMMA CountedSums ==
    ASSUME NEW t, Counted(t)
    PROVE  /\ IsFiniteSet(Player) /\ IsFiniteSet(MailId) /\ IsFiniteSet(Item)
           /\ \A p \in Player : Purses(t)[p] \in Int
           /\ \A m \in MailId : Postage(t)[m] \in Int
           /\ \A i \in Item : Stakes(t)[i] \in Int
           /\ SumOn(Player, Purses(t)) \in Int /\ SumOn(MailId, Postage(t)) \in Int
           /\ SumOn(Item, Stakes(t)) \in Int /\ Wealth(t) \in Int
<1>1. IsFiniteSet(Player) /\ IsFiniteSet(MailId) /\ IsFiniteSet(Item)
    BY StoreAssumption, MailAssumption
<1>2. PICK a, b, c : a = Purses(t) /\ b = Postage(t) /\ c = Stakes(t) OBVIOUS
<1>3. \A p \in Player : a[p] \in Int BY <1>2 DEF Purses, Counted
<1>4. \A m \in MailId : b[m] \in Int BY <1>2 DEF Postage, Counted, Post
<1>5. \A i \in Item : c[i] \in Int BY <1>2 DEF Stakes, Counted
<1>6. SumOn(Player, a) \in Int BY <1>1, <1>3, SumParts
<1>7. SumOn(MailId, b) \in Int BY <1>1, <1>4, SumParts
<1>8. SumOn(Item, c) \in Int BY <1>1, <1>5, SumParts
<1>9. Wealth(t) \in Int BY <1>2, <1>6, <1>7, <1>8 DEF Wealth, Counted
<1> QED BY <1>1, <1>2, <1>3, <1>4, <1>5, <1>6, <1>7, <1>8, <1>9

\* What is the same has the same sum.
LEMMA SameSums ==
    ASSUME NEW t, NEW u
    PROVE  /\ SamePurses(t, u) => Purses(u) = Purses(t)
           /\ SameMails(t, u) => Postage(u) = Postage(t)
           /\ SameStakes(t, u) => Stakes(u) = Stakes(t)
<1>1. ASSUME SamePurses(t, u) PROVE Purses(u) = Purses(t) BY <1>1 DEF SamePurses, Purses
<1>2. ASSUME SameMails(t, u) PROVE Postage(u) = Postage(t)
    <2>1. \A m \in MailId : Post(u, m) = Post(t, m) BY <1>2 DEF SameMails, Post
    <2> QED BY <2>1 DEF Postage
<1>3. ASSUME SameStakes(t, u) PROVE Stakes(u) = Stakes(t)
    <2>1. \A i \in Item : Stake(u, i) = Stake(t, i) BY <1>3 DEF SameStakes, Stake
    <2> QED BY <2>1 DEF Stakes
<1> QED BY <1>1, <1>2, <1>3

\* Layers: one on the other, and what is below one.
LEMMA LayerOn ==
    \A f, g, t : (f ++ g) ++ t = f ++ (g ++ t)
<1> SUFFICES ASSUME NEW f, NEW g, NEW t PROVE (f ++ g) ++ t = f ++ (g ++ t) OBVIOUS
<1>1. PICK h, k : h = f ++ g /\ k = g ++ t OBVIOUS
<1>2. /\ DOMAIN h = DOMAIN f \cup DOMAIN g /\ DOMAIN k = DOMAIN g \cup DOMAIN t
      /\ \A r \in DOMAIN f : h[r] = f[r]
      /\ \A r \in DOMAIN g : (r \notin DOMAIN f => h[r] = g[r]) /\ k[r] = g[r]
      /\ \A r \in DOMAIN t : r \notin DOMAIN g => k[r] = t[r]
    BY <1>1 DEF ++
<1>3. DOMAIN h \cup DOMAIN t = DOMAIN f \cup DOMAIN k BY <1>2
<1>4. \A r \in DOMAIN h \cup DOMAIN t :
        (IF r \in DOMAIN h THEN h[r] ELSE t[r]) = (IF r \in DOMAIN f THEN f[r] ELSE k[r])
    BY <1>2
<1>5. h ++ t = f ++ k BY <1>3, <1>4 DEF ++
<1> QED BY <1>1, <1>5

\* The money that rows of the kinds K leave alone.
LayerKeeps(t, u, K) ==
    /\ "gold" \notin K => SamePurses(t, u)
    /\ "mail" \notin K /\ "mail_money" \notin K => SameMails(t, u)
    /\ "auction" \notin K /\ "auction_bid" \notin K => SameStakes(t, u)
    /\ "fees" \notin K => u[Fees] = t[Fees]

\* The table u is the table t below the layer g, of rows of the kinds K.
Layered(t, g, u, K) ==
    /\ RowNames \subseteq DOMAIN u /\ LayerKeeps(t, u, K)
    /\ \A r \in RowNames : u[r] = At(g, r, t[r])
    /\ \A r \in RowNames : r[1] \notin K => u[r] = t[r]

\* So it is when g is laid over t.
LEMMA Layer ==
    ASSUME NEW t, RowNames \subseteq DOMAIN t, NEW g, NEW K, Only(g, K), NEW u, u = g ++ t
    PROVE  Layered(t, g, u, K)
<1>1. RowNames \subseteq DOMAIN u BY Over
<1>2. ASSUME NEW r \in RowNames PROVE u[r] = At(g, r, t[r])
    <2>1. /\ r \in DOMAIN g => u[r] = g[r]
          /\ r \notin DOMAIN g => u[r] = t[r]
        BY DEF ++
    <2> QED BY <2>1 DEF At
<1>3. \A r \in RowNames : r[1] \notin K => u[r] = t[r] BY <1>2 DEF At, Only
<1>4. "gold" \notin K => SamePurses(t, u) BY <1>3, RowKinds DEF SamePurses
<1>5. "mail" \notin K /\ "mail_money" \notin K => SameMails(t, u) BY <1>3, RowKinds DEF SameMails
<1>6. "auction" \notin K /\ "auction_bid" \notin K => SameStakes(t, u) BY <1>3, RowKinds DEF SameStakes
<1>7. "fees" \notin K => u[Fees] = t[Fees] BY <1>3, RowKinds
<1> QED BY <1>1, <1>2, <1>3, <1>4, <1>5, <1>6, <1>7 DEF LayerKeeps, Layered

\* Money that comes to one of the four places.
LEMMA WorthShift ==
    ASSUME NEW t, NEW w, Worth(t, w), NEW u, Counted(u),
           NEW a \in Int, SumOn(Player, Purses(u)) = SumOn(Player, Purses(t)) + a,
           NEW b \in Int, SumOn(MailId, Postage(u)) = SumOn(MailId, Postage(t)) + b,
           NEW c \in Int, SumOn(Item, Stakes(u)) = SumOn(Item, Stakes(t)) + c,
           NEW d \in Int, u[Fees] = t[Fees] + d,
           NEW v, v = w + a + b + c + d
    PROVE  Worth(u, v)
<1>1. PICK x, y, z, e : /\ x = SumOn(Player, Purses(t)) /\ y = SumOn(MailId, Postage(t))
                        /\ z = SumOn(Item, Stakes(t)) /\ e = t[Fees]
    OBVIOUS
<1>2. x \in Int /\ y \in Int /\ z \in Int /\ e \in Int
    BY <1>1, CountedSums DEF Worth, Counted
<1>3. w = x + y + z + e BY <1>1 DEF Worth, Wealth
<1>4. Wealth(u) = (x + a) + (y + b) + (z + c) + (e + d) BY <1>1 DEF Wealth
<1>5. v = (x + a) + (y + b) + (z + c) + (e + d) BY <1>2, <1>3
<1> QED BY <1>4, <1>5 DEF Worth

\* Rows that hold no money.
LEMMA IdleLayer ==
    ASSUME NEW t, NEW w, Worth(t, w), NEW g, NEW K, Only(g, K), NEW u, u = g ++ t,
           {"gold", "mail", "mail_money", "auction", "auction_bid", "fees"} \cap K = {}
    PROVE  Worth(u, w) /\ LayerKeeps(t, u, K)
<1>1. Counted(t) BY DEF Worth
<1>2. RowNames \subseteq DOMAIN u /\ LayerKeeps(t, u, K)
    <2>1. RowNames \subseteq DOMAIN t BY <1>1 DEF Counted
    <2>2. Layered(t, g, u, K) BY <2>1, Layer
    <2> QED BY <2>2 DEF Layered
<1>3. SamePurses(t, u) /\ SameMails(t, u) /\ SameStakes(t, u) /\ u[Fees] = t[Fees]
    BY <1>2 DEF LayerKeeps
<1>4. Purses(u) = Purses(t) /\ Postage(u) = Postage(t) /\ Stakes(u) = Stakes(t) BY <1>3, SameSums
<1>5. Wealth(u) = Wealth(t) BY <1>3, <1>4 DEF Wealth
<1>6. \A i \in Item : Stake(u, i) = Stake(t, i) BY <1>3 DEF Stake, SameStakes
<1>7. Counted(u) BY <1>1, <1>2, <1>3, <1>6 DEF Counted, SamePurses, SameMails, SameStakes
<1> QED BY <1>2, <1>5, <1>7 DEF Worth

\* The money of player p becomes h[p].
LEMMA GoldLayer ==
    ASSUME NEW t, NEW w, Worth(t, w), NEW p \in Player, NEW h, h[p] \in Int,
           NEW G, G = GoldRows({p}, h), NEW u, u = G ++ t, NEW v, v = w + (h[p] - t[GoldRow(p)])
    PROVE  Worth(u, v)
<1>1. Counted(t) BY DEF Worth
<1>2. PICK K : K = {"gold"} /\ Only(G, K) BY PartKinds
<1>3. RowNames \subseteq DOMAIN u /\ LayerKeeps(t, u, K) /\ \A r \in RowNames : u[r] = At(G, r, t[r])
    <2>1. RowNames \subseteq DOMAIN t BY <1>1 DEF Counted
    <2>2. Layered(t, G, u, K) BY <1>2, <2>1, Layer
    <2> QED BY <2>2 DEF Layered
<1>4. SameMails(t, u) /\ SameStakes(t, u) /\ u[Fees] = t[Fees] BY <1>2, <1>3 DEF LayerKeeps
<1>5. ASSUME NEW q \in Player PROVE u[GoldRow(q)] = IF q = p THEN h[p] ELSE t[GoldRow(q)]
    <2>1. PICK r : r = GoldRow(q) OBVIOUS
    <2>2. r \in RowNames /\ u[r] = At(G, r, t[r]) BY <1>3, <2>1, RowKinds
    <2>3. \A e : At(G, r, e) = IF q = p THEN h[p] ELSE e BY <2>1, GoldAt
    <2> QED BY <2>1, <2>2, <2>3
<1>6. \A i \in Item : Stake(u, i) = Stake(t, i) BY <1>4 DEF Stake, SameStakes
<1>7. Counted(u) BY <1>1, <1>3, <1>4, <1>5, <1>6 DEF Counted, SameMails, SameStakes
<1>8. Postage(u) = Postage(t) /\ Stakes(u) = Stakes(t) BY <1>4, SameSums
<1>9. PICK x, y, d : x = Purses(t) /\ y = Purses(u) /\ d = h[p] - t[GoldRow(p)] OBVIOUS
<1>10. /\ \A q \in Player : x[q] \in Int
       /\ x[p] = t[GoldRow(p)] /\ y[p] = h[p]
       /\ \A q \in Player \ {p} : y[q] = x[q]
    BY <1>1, <1>5, <1>9 DEF Purses, Counted
<1>11. SumOn(Player, y) = SumOn(Player, x) - x[p] + y[p] /\ SumOn(Player, x) \in Int
    BY <1>10, StoreAssumption, SumChange
<1>12. d \in Int /\ SumOn(Player, y) = SumOn(Player, x) + d BY <1>9, <1>10, <1>11
<1>13. SumOn(MailId, Postage(t)) \in Int /\ SumOn(Item, Stakes(t)) \in Int /\ w \in Int /\ t[Fees] \in Int
    BY <1>1, CountedSums DEF Worth, Counted
<1>14. /\ SumOn(MailId, Postage(u)) = SumOn(MailId, Postage(t)) + 0
       /\ SumOn(Item, Stakes(u)) = SumOn(Item, Stakes(t)) + 0 /\ u[Fees] = t[Fees] + 0
    BY <1>4, <1>8, <1>13
<1>15. v = w + d + 0 + 0 + 0 BY <1>9, <1>12, <1>13
<1> QED BY <1>7, <1>9, <1>12, <1>14, <1>15, WorthShift

\* A sum is paid to the server.
LEMMA FeeLayer ==
    ASSUME NEW t, NEW w, Worth(t, w), t[Fees] = Latest(Fees), NEW c \in Int,
           NEW F, F = Fee(c), NEW u, u = F ++ t, NEW v, v = w + c
    PROVE  Worth(u, v) /\ LayerKeeps(t, u, {"fees"})
<1>1. Counted(t) BY DEF Worth
<1>2. PICK K : K = {"fees"} /\ Only(F, K) BY PartKinds
<1>3. /\ RowNames \subseteq DOMAIN u /\ LayerKeeps(t, u, K)
      /\ \A r \in RowNames : u[r] = At(F, r, t[r])
    <2>1. RowNames \subseteq DOMAIN t BY <1>1 DEF Counted
    <2>2. Layered(t, F, u, K) BY <1>2, <2>1, Layer
    <2> QED BY <2>2 DEF Layered
<1>4. SamePurses(t, u) /\ SameMails(t, u) /\ SameStakes(t, u) BY <1>2, <1>3 DEF LayerKeeps
<1>5. u[Fees] = t[Fees] + c
    <2>1. PICK e : e = Latest(Fees) + c OBVIOUS
    <2>2. F = Write(Fees, e) BY <2>1 DEF Fee
    <2>3. At(F, Fees, t[Fees]) = e BY <2>2, AtFacts
    <2> QED BY <1>3, <2>1, <2>3, RowKinds
<1>6. \A i \in Item : Stake(u, i) = Stake(t, i) BY <1>4 DEF Stake, SameStakes
<1>7. Counted(u) BY <1>1, <1>3, <1>4, <1>5, <1>6 DEF Counted, SamePurses, SameMails, SameStakes
<1>8. Purses(u) = Purses(t) /\ Postage(u) = Postage(t) /\ Stakes(u) = Stakes(t) BY <1>4, SameSums
<1>9. /\ SumOn(Player, Purses(t)) \in Int /\ SumOn(MailId, Postage(t)) \in Int
      /\ SumOn(Item, Stakes(t)) \in Int /\ w \in Int
    BY <1>1, CountedSums DEF Worth
<1>10. /\ SumOn(Player, Purses(u)) = SumOn(Player, Purses(t)) + 0
       /\ SumOn(MailId, Postage(u)) = SumOn(MailId, Postage(t)) + 0
       /\ SumOn(Item, Stakes(u)) = SumOn(Item, Stakes(t)) + 0
    BY <1>8, <1>9
<1>11. v = w + 0 + 0 + 0 + c BY <1>9
<1>12. Worth(u, v) BY <1>5, <1>7, <1>10, <1>11, WorthShift
<1> QED BY <1>2, <1>3, <1>12

\* The auction of item i, or its bid, is changed.
LEMMA StakeLayer ==
    ASSUME NEW t, NEW w, Worth(t, w), NEW i \in Item, NEW g,
           NEW r, r \in {AuctionRow(i), BidRow(i)}, NEW x, g = Write(r, x), NEW u, u = g ++ t,
           Stake(u, i) \in Int, u[BidRow(i)].bidder = Nobody => u[BidRow(i)].bid = 0,
           NEW v, v = w + (Stake(u, i) - Stake(t, i))
    PROVE  Worth(u, v) /\ LayerKeeps(t, u, {"auction", "auction_bid"})
<1>1. Counted(t) BY DEF Worth
<1>2. PICK K : K = {"auction", "auction_bid"} OBVIOUS
<1>3. r[1] \in K /\ r[2] = i /\ DOMAIN g = {r}
    <2>1. DOMAIN g = {r} BY Single
    <2>2. AuctionRow(i)[1] = "auction" /\ BidRow(i)[1] = "auction_bid" /\ AuctionRow(i)[2] = i /\ BidRow(i)[2] = i
        BY RowKeys
    <2> QED BY <1>2, <2>1, <2>2
<1>4. Only(g, K) BY <1>3 DEF Only
<1>5. RowNames \subseteq DOMAIN u /\ LayerKeeps(t, u, K) /\ \A s \in RowNames : u[s] = At(g, s, t[s])
    <2>1. RowNames \subseteq DOMAIN t BY <1>1 DEF Counted
    <2>2. Layered(t, g, u, K) BY <1>4, <2>1, Layer
    <2> QED BY <2>2 DEF Layered
<1>6. SamePurses(t, u) /\ SameMails(t, u) /\ u[Fees] = t[Fees] BY <1>2, <1>5 DEF LayerKeeps
<1>7. ASSUME NEW j \in Item, j # i PROVE u[AuctionRow(j)] = t[AuctionRow(j)] /\ u[BidRow(j)] = t[BidRow(j)]
    <2>1. AuctionRow(j) \notin DOMAIN g /\ BidRow(j) \notin DOMAIN g BY <1>3, <1>7, RowKeys
    <2> QED BY <1>5, <2>1, RowKinds DEF At
<1>8. \A j \in Item \ {i} : Stake(u, j) = Stake(t, j) BY <1>7 DEF Stake
<1>9. \A j \in Item : Stake(t, j) \in Int BY <1>1 DEF Counted
<1>10. Counted(u)
    <2>1. \A j \in Item : Stake(u, j) \in Int BY <1>8, <1>9
    <2>2. \A j \in Item : u[BidRow(j)].bidder = Nobody => u[BidRow(j)].bid = 0 BY <1>1, <1>7 DEF Counted
    <2> QED BY <1>1, <1>5, <1>6, <2>1, <2>2 DEF Counted, SamePurses, SameMails
<1>11. Purses(u) = Purses(t) /\ Postage(u) = Postage(t) BY <1>6, SameSums
<1>12. PICK a, b, d : a = Stakes(t) /\ b = Stakes(u) /\ d = Stake(u, i) - Stake(t, i) OBVIOUS
<1>13. /\ \A j \in Item : a[j] \in Int
       /\ a[i] = Stake(t, i) /\ b[i] = Stake(u, i)
       /\ \A j \in Item \ {i} : b[j] = a[j]
    BY <1>8, <1>9, <1>12 DEF Stakes
<1>14. SumOn(Item, b) = SumOn(Item, a) - a[i] + b[i] /\ SumOn(Item, a) \in Int
    BY <1>13, StoreAssumption, SumChange
<1>15. d \in Int /\ SumOn(Item, b) = SumOn(Item, a) + d BY <1>9, <1>12, <1>13, <1>14
<1>16. SumOn(Player, Purses(t)) \in Int /\ SumOn(MailId, Postage(t)) \in Int /\ w \in Int /\ t[Fees] \in Int
    BY <1>1, CountedSums DEF Worth, Counted
<1>17. /\ SumOn(Player, Purses(u)) = SumOn(Player, Purses(t)) + 0
       /\ SumOn(MailId, Postage(u)) = SumOn(MailId, Postage(t)) + 0 /\ u[Fees] = t[Fees] + 0
    BY <1>6, <1>11, <1>16
<1>18. v = w + 0 + 0 + d + 0 BY <1>12, <1>15, <1>16
<1>19. Worth(u, v) BY <1>10, <1>12, <1>15, <1>17, <1>18, WorthShift
<1> QED BY <1>2, <1>5, <1>19

\* A sum after some of its terms are set to zero.
LEMMA SumDrop ==
    ASSUME NEW S, IsFiniteSet(S), NEW f, \A x \in S : f[x] \in Int, NEW D \in SUBSET S,
           NEW h, \A x \in S : h[x] = IF x \in D THEN 0 ELSE f[x]
    PROVE  SumOn(S, h) = SumOn(S, f) - SumOn(D, f) /\ SumOn(D, f) \in Int
<1> DEFINE Left(T) == [x \in S |-> IF x \in T THEN 0 ELSE f[x]]
           P == {n \in Nat : \A T \in SUBSET S : Cardinality(T) = n =>
                    SumOn(S, Left(T)) = SumOn(S, f) - SumOn(T, f) /\ SumOn(T, f) \in Int}
<1>1. \A T \in SUBSET S : IsFiniteSet(T) /\ Cardinality(T) \in Nat /\ (Cardinality(T) = 0 <=> T = {})
    BY FS_Subset, FS_CardinalityType, FS_EmptySet
<1>2. SumOn(S, f) \in Int BY SumParts
<1>3. \A T \in SUBSET S : \A x \in S : Left(T)[x] = (IF x \in T THEN 0 ELSE f[x]) /\ Left(T)[x] \in Int
    OBVIOUS
<1> HIDE DEF Left
<1>4. 0 \in P
    <2> SUFFICES ASSUME NEW T \in SUBSET S, T = {}
                 PROVE  SumOn(S, Left(T)) = SumOn(S, f) - SumOn(T, f) /\ SumOn(T, f) \in Int
        BY <1>1
    <2>1. SumOn(T, f) = 0 BY <1>1, SumParts
    <2>2. \A x \in S : f[x] = Left(T)[x] BY <1>3
    <2>3. SumOn(S, f) = SumOn(S, Left(T)) BY <2>2, SumSame
    <2> QED BY <1>2, <2>1, <2>3
<1>5. ASSUME NEW n \in Nat, n \in P PROVE n + 1 \in P
    <2> SUFFICES ASSUME NEW T \in SUBSET S, Cardinality(T) = n + 1
                 PROVE  SumOn(S, Left(T)) = SumOn(S, f) - SumOn(T, f) /\ SumOn(T, f) \in Int
        OBVIOUS
    <2>1. PICK e \in T : TRUE BY <1>1
    <2>2. PICK R : R = T \ {e} OBVIOUS
    <2>3. R \in SUBSET S /\ Cardinality(R) = n
        <3>1. Cardinality(T \ {e}) = Cardinality(T) - 1 BY <1>1, <2>1, FS_RemoveElement
        <3> QED BY <2>2, <3>1
    <2>4. SumOn(S, Left(R)) = SumOn(S, f) - SumOn(R, f) /\ SumOn(R, f) \in Int BY <1>5, <2>3
    <2>5. PICK a, b : a = Left(R) /\ b = Left(T) OBVIOUS
    <2>6. (\A x \in S : a[x] \in Int) /\ a[e] = f[e] /\ b[e] = 0 /\ \A x \in S \ {e} : b[x] = a[x]
        BY <1>3, <2>1, <2>2, <2>3, <2>5
    <2>7. SumOn(S, b) = SumOn(S, a) - a[e] + b[e] BY <2>1, <2>6, SumChange
    <2>8. SumOn(T, f) = f[e] + SumOn(R, f)
        <3>1. \A x \in T : f[x] \in Int OBVIOUS
        <3> QED BY <1>1, <2>1, <2>2, <3>1, SumRemove
    <2>9. f[e] \in Int BY <2>1
    <2> QED BY <1>2, <2>4, <2>5, <2>6, <2>7, <2>8, <2>9
<1> HIDE DEF P
<1>6. \A n \in Nat : n \in P BY <1>4, <1>5, SetInduction
<1>7. SumOn(S, Left(D)) = SumOn(S, f) - SumOn(D, f) /\ SumOn(D, f) \in Int BY <1>1, <1>6 DEF P
<1>8. SumOn(S, Left(D)) = SumOn(S, h)
    <2>1. \A x \in S : Left(D)[x] \in Int /\ Left(D)[x] = h[x] BY <1>3
    <2> QED BY <2>1, SumSame
<1> QED BY <1>7, <1>8

\* The mails of u hold d more than those of t, and the rest is as it was.
LEMMA MailShift ==
    ASSUME NEW t, NEW w, Worth(t, w), NEW u, RowNames \subseteq DOMAIN u,
           SamePurses(t, u), SameStakes(t, u), u[Fees] = t[Fees],
           \A m \in MailId : u[MailMoney(m)] \in Int,
           NEW d \in Int, SumOn(MailId, Postage(u)) = SumOn(MailId, Postage(t)) + d,
           NEW v, v = w + d
    PROVE  Worth(u, v)
<1>1. Counted(t) BY DEF Worth
<1>2. \A i \in Item : Stake(u, i) = Stake(t, i) BY DEF Stake, SameStakes
<1>3. Counted(u) BY <1>1, <1>2 DEF Counted, SamePurses, SameStakes
<1>4. Purses(u) = Purses(t) /\ Stakes(u) = Stakes(t) BY SameSums
<1>5. SumOn(Player, Purses(t)) \in Int /\ SumOn(Item, Stakes(t)) \in Int /\ w \in Int /\ t[Fees] \in Int
    BY <1>1, CountedSums DEF Worth, Counted
<1>6. /\ SumOn(Player, Purses(u)) = SumOn(Player, Purses(t)) + 0
      /\ SumOn(Item, Stakes(u)) = SumOn(Item, Stakes(t)) + 0 /\ u[Fees] = t[Fees] + 0
    BY <1>4, <1>5
<1>7. v = w + 0 + d + 0 + 0 BY <1>5
<1> QED BY <1>3, <1>6, <1>7, WorthShift

\* The rows g delete the mails D, and what that leaves of the tables t.
EndsMails(g, D) ==
    /\ Only(g, {"mail", "mail_item", "given_up"})
    /\ \A m \in D : \A e : At(g, MailRow(m), e) = FALSE
    /\ \A m, e : m \notin D => At(g, MailRow(m), e) = e
DropsMails(t, u, D) ==
    /\ SamePurses(t, u) /\ SameStakes(t, u) /\ u[Fees] = t[Fees]
    /\ \A m \in MailId : Post(t, m) = 0 => Post(u, m) = 0
    /\ \A m \in MailId \ D : Post(u, m) = Post(t, m)

\* The mails D are deleted.
LEMMA DropLayer ==
    ASSUME NEW t, NEW w, Worth(t, w), NEW D \in SUBSET MailId, NEW g, EndsMails(g, D),
           NEW u, u = g ++ t, NEW v, v = w - SumOn(D, Postage(t))
    PROVE  Worth(u, v) /\ DropsMails(t, u, D) /\ SumOn(D, Postage(t)) \in Int
<1>1. Counted(t) BY DEF Worth
<1>2. PICK K : K = {"mail", "mail_item", "given_up"} /\ Only(g, K) BY DEF EndsMails
<1>3. /\ RowNames \subseteq DOMAIN u /\ LayerKeeps(t, u, K) /\ \A r \in RowNames : u[r] = At(g, r, t[r])
      /\ \A r \in RowNames : r[1] \notin K => u[r] = t[r]
    <2>1. RowNames \subseteq DOMAIN t BY <1>1 DEF Counted
    <2>2. Layered(t, g, u, K) BY <1>2, <2>1, Layer
    <2> QED BY <2>2 DEF Layered
<1>4. SamePurses(t, u) /\ SameStakes(t, u) /\ u[Fees] = t[Fees] BY <1>2, <1>3 DEF LayerKeeps
<1>5. \A m \in MailId : u[MailMoney(m)] = t[MailMoney(m)] /\ u[MailMoney(m)] \in Int
    BY <1>1, <1>2, <1>3, RowKinds DEF Counted
<1>6. ASSUME NEW m \in MailId PROVE Post(u, m) = IF m \in D THEN 0 ELSE Post(t, m)
    <2>1. PICK no, r, e : no = FALSE /\ r = MailRow(m) /\ e = t[r] OBVIOUS
    <2>2. u[r] = At(g, r, e) BY <1>3, <2>1, RowKinds
    <2>3. m \in D => At(g, r, e) = no BY <2>1, Zenon DEF EndsMails
    <2>4. m \notin D => At(g, r, e) = e BY <2>1, Zenon DEF EndsMails
    <2>5. m \in D => Post(u, m) = 0
        <3>1. ASSUME m \in D PROVE u[MailRow(m)] = FALSE BY <2>1, <2>2, <2>3, <3>1, Zenon
        <3> QED BY <3>1 DEF Post
    <2>6. m \notin D => Post(u, m) = Post(t, m)
        <3>1. m \notin D => u[MailRow(m)] = t[MailRow(m)] BY <2>1, <2>2, <2>4
        <3> QED BY <1>5, <3>1 DEF Post
    <2> QED BY <2>5, <2>6
<1>7. PICK x, y : x = Postage(t) /\ y = Postage(u) OBVIOUS
<1>8. \A m \in MailId : y[m] = (IF m \in D THEN 0 ELSE x[m]) /\ x[m] \in Int
    BY <1>1, <1>6, <1>7, CountedSums DEF Postage
<1>9. SumOn(MailId, y) = SumOn(MailId, x) - SumOn(D, x) /\ SumOn(D, x) \in Int
    <2>1. IsFiniteSet(MailId) BY MailAssumption
    <2> QED BY <1>8, <2>1, SumDrop
<1>10. PICK a, b, c, d : /\ a = SumOn(MailId, x) /\ b = SumOn(MailId, y) /\ c = SumOn(D, x)
                         /\ d = 0 - c
    OBVIOUS
<1>11. a \in Int /\ w \in Int BY <1>1, <1>7, <1>10, CountedSums DEF Worth
<1>12. d \in Int /\ SumOn(MailId, y) = SumOn(MailId, x) + d /\ v = w + d
    <2>1. b = a - c /\ c \in Int /\ v = w - c BY <1>7, <1>9, <1>10
    <2>2. d \in Int /\ b = a + d /\ v = w + d BY <1>10, <1>11, <2>1
    <2> QED BY <1>10, <2>2
<1>13. Worth(u, v) BY <1>3, <1>4, <1>5, <1>7, <1>12, MailShift
<1>14. \A m \in MailId : Post(t, m) = 0 => Post(u, m) = 0 BY <1>6
<1>15. \A m \in MailId \ D : Post(u, m) = Post(t, m) BY <1>6
<1> QED BY <1>4, <1>7, <1>9, <1>13, <1>14, <1>15 DEF DropsMails

\* The money of mail m is taken out of it.
LEMMA EmptyLayer ==
    ASSUME NEW t, NEW w, Worth(t, w), NEW m \in MailId, NEW g, g = Write(MailMoney(m), 0),
           NEW u, u = g ++ t, NEW v, v = w - Post(t, m)
    PROVE  Worth(u, v) /\ LayerKeeps(t, u, {"mail_money"})
<1>1. Counted(t) BY DEF Worth
<1>2. PICK K : K = {"mail_money"} /\ Only(g, K) BY PartKinds
<1>3. /\ RowNames \subseteq DOMAIN u /\ LayerKeeps(t, u, K) /\ \A r \in RowNames : u[r] = At(g, r, t[r])
      /\ \A r \in RowNames : r[1] \notin K => u[r] = t[r]
    <2>1. RowNames \subseteq DOMAIN t BY <1>1 DEF Counted
    <2>2. Layered(t, g, u, K) BY <1>2, <2>1, Layer
    <2> QED BY <2>2 DEF Layered
<1>4. SamePurses(t, u) /\ SameStakes(t, u) /\ u[Fees] = t[Fees] BY <1>2, <1>3 DEF LayerKeeps
<1>5. \A n \in MailId : u[MailRow(n)] = t[MailRow(n)] BY <1>2, <1>3, RowKinds
<1>6. ASSUME NEW n \in MailId PROVE u[MailMoney(n)] = IF n = m THEN 0 ELSE t[MailMoney(n)]
    <2>1. PICK r, e : r = MailMoney(n) /\ e = t[r] OBVIOUS
    <2>2. r = MailMoney(m) <=> n = m BY <2>1, RowKeys
    <2>3. At(g, r, e) = IF r = MailMoney(m) THEN 0 ELSE e BY AtFacts
    <2>4. u[r] = At(g, r, e) BY <1>3, <2>1, RowKinds
    <2> QED BY <2>1, <2>2, <2>3, <2>4
<1>7. \A n \in MailId : u[MailMoney(n)] \in Int BY <1>1, <1>6 DEF Counted
<1>8. \A n \in MailId : Post(u, n) = IF n = m THEN 0 ELSE Post(t, n) BY <1>5, <1>6 DEF Post
<1>9. PICK x, y : x = Postage(t) /\ y = Postage(u) OBVIOUS
<1>10. /\ \A n \in MailId : x[n] \in Int
       /\ x[m] = Post(t, m) /\ y[m] = 0 /\ \A n \in MailId \ {m} : y[n] = x[n]
    BY <1>1, <1>8, <1>9, CountedSums DEF Postage
<1>11. SumOn(MailId, y) = SumOn(MailId, x) - x[m] + y[m] /\ SumOn(MailId, x) \in Int
    <2>1. IsFiniteSet(MailId) /\ y[m] \in Int BY <1>10, MailAssumption
    <2> QED BY <1>10, <2>1, SumChange
<1>12. PICK a, b, d : a = SumOn(MailId, x) /\ b = SumOn(MailId, y) /\ d = 0 - x[m] OBVIOUS
<1>13. w \in Int BY <1>1, CountedSums DEF Worth
<1>14. d \in Int /\ SumOn(MailId, y) = SumOn(MailId, x) + d /\ v = w + d
    <2>1. x[m] \in Int /\ b = a - x[m] + 0 /\ a \in Int /\ v = w - x[m] BY <1>10, <1>11, <1>12
    <2>2. d \in Int /\ b = a + d /\ v = w + d BY <1>12, <1>13, <2>1
    <2> QED BY <1>12, <2>2
<1>15. Worth(u, v) BY <1>3, <1>4, <1>7, <1>9, <1>14, MailShift
<1> QED BY <1>2, <1>3, <1>15

\* The money in the first drafts of ds, of which there are three at most.
DueAt(ds, n) == IF n \in DOMAIN ds THEN ds[n].money ELSE 0
Dues(ds) == DueAt(ds, 1) + DueAt(ds, 2) + DueAt(ds, 3)

\* The money in drafts that are put together.
LEMMA DuesFacts ==
    /\ Dues(<<>>) = 0 /\ \A d \in DraftType : Dues(<<d>>) = d.money
    /\ \A ds \in Seq(DraftType) : Dues(ds) \in Int /\ \A n : DueAt(ds, n) \in Int
    /\ \A x, y \in Seq(DraftType) : Len(x) + Len(y) <= 3 =>
            Dues(x \o y) = Dues(x) + Dues(y) /\ Len(x \o y) = Len(x) + Len(y)
<1>1. ASSUME NEW ds \in Seq(DraftType) PROVE \A n : DueAt(ds, n) \in Int
    <2>1. \A n \in DOMAIN ds : ds[n] \in DraftType BY ElementOfSeq, LenProperties
    <2>2. \A n \in DOMAIN ds : ds[n].money \in Int BY <2>1 DEF DraftType
    <2> QED BY <2>2 DEF DueAt
<1>2. \A ds \in Seq(DraftType) : Dues(ds) \in Int BY <1>1 DEF Dues
<1>3. Dues(<<>>) = 0 BY DEF Dues, DueAt
<1>4. ASSUME NEW d \in DraftType PROVE Dues(<<d>>) = d.money
    <2>1. PICK ds : ds = <<d>> OBVIOUS
    <2>2. DOMAIN ds = {1} /\ ds[1] = d BY <2>1
    <2>3. d.money \in Int BY DEF DraftType
    <2>4. DueAt(ds, 1) = d.money /\ DueAt(ds, 2) = 0 /\ DueAt(ds, 3) = 0 BY <2>2 DEF DueAt
    <2> QED BY <2>1, <2>3, <2>4 DEF Dues
<1>5. ASSUME NEW x \in Seq(DraftType), NEW y \in Seq(DraftType), Len(x) + Len(y) <= 3
      PROVE  Dues(x \o y) = Dues(x) + Dues(y) /\ Len(x \o y) = Len(x) + Len(y)
    <2>1. PICK z, k, l : z = x \o y /\ k = Len(x) /\ l = Len(y) OBVIOUS
    <2>2. /\ k \in Nat /\ l \in Nat /\ DOMAIN x = 1 .. k /\ DOMAIN y = 1 .. l
          /\ z \in Seq(DraftType) /\ Len(z) = k + l
          /\ \A n \in 1 .. k + l : z[n] = IF n <= k THEN x[n] ELSE y[n - k]
        BY <2>1, ConcatProperties, LenProperties
    <2>3. DOMAIN z = 1 .. k + l BY <2>2, LenProperties
    <2>4. ASSUME NEW n \in Nat, n > 0 PROVE DueAt(z, n) = IF n <= k THEN DueAt(x, n) ELSE DueAt(y, n - k)
        <3>1. CASE n <= k BY <2>2, <2>3, <2>4, <3>1 DEF DueAt
        <3>2. CASE n > k /\ n <= k + l
            <4>1. n - k \in DOMAIN y /\ n \in DOMAIN z /\ z[n] = y[n - k] BY <2>2, <2>3, <2>4, <3>2
            <4> QED BY <2>2, <3>2, <4>1 DEF DueAt
        <3>3. CASE n > k + l
            <4>1. n - k \notin DOMAIN y /\ n \notin DOMAIN z /\ ~(n <= k) BY <2>2, <2>3, <3>3
            <4> QED BY <4>1 DEF DueAt
        <3> QED BY <2>2, <3>1, <3>2, <3>3
    <2>5. \A n \in Nat : (n > k => DueAt(x, n) = 0) /\ (n > l => DueAt(y, n) = 0) BY <2>2 DEF DueAt
    <2>6. k + l <= 3 BY <1>5, <2>1
    <2>7. (\A n : DueAt(x, n) \in Int) /\ (\A n : DueAt(y, n) \in Int) BY <1>1
    <2>8. Dues(z) = Dues(x) + Dues(y)
        <3>1. CASE k = 0
            <4>1. DueAt(z, 1) = DueAt(y, 1) /\ DueAt(z, 2) = DueAt(y, 2) /\ DueAt(z, 3) = DueAt(y, 3)
                BY <2>4, <3>1
            <4>2. DueAt(x, 1) = 0 /\ DueAt(x, 2) = 0 /\ DueAt(x, 3) = 0 BY <2>5, <3>1
            <4> QED BY <2>7, <4>1, <4>2 DEF Dues
        <3>2. CASE k = 1
            <4>1. DueAt(z, 1) = DueAt(x, 1) /\ DueAt(z, 2) = DueAt(y, 1) /\ DueAt(z, 3) = DueAt(y, 2)
                BY <2>4, <3>2
            <4>2. DueAt(x, 2) = 0 /\ DueAt(x, 3) = 0 /\ DueAt(y, 3) = 0 BY <2>2, <2>5, <2>6, <3>2
            <4> QED BY <2>7, <4>1, <4>2 DEF Dues
        <3>3. CASE k = 2
            <4>1. DueAt(z, 1) = DueAt(x, 1) /\ DueAt(z, 2) = DueAt(x, 2) /\ DueAt(z, 3) = DueAt(y, 1)
                BY <2>4, <3>3
            <4>2. DueAt(x, 3) = 0 /\ DueAt(y, 2) = 0 /\ DueAt(y, 3) = 0 BY <2>2, <2>5, <2>6, <3>3
            <4> QED BY <2>7, <4>1, <4>2 DEF Dues
        <3>4. CASE k = 3
            <4>1. DueAt(z, 1) = DueAt(x, 1) /\ DueAt(z, 2) = DueAt(x, 2) /\ DueAt(z, 3) = DueAt(x, 3)
                BY <2>4, <3>4
            <4>2. DueAt(y, 1) = 0 /\ DueAt(y, 2) = 0 /\ DueAt(y, 3) = 0 BY <2>2, <2>5, <2>6, <3>4
            <4> QED BY <2>7, <4>1, <4>2 DEF Dues
        <3> QED BY <2>2, <2>6, <3>1, <3>2, <3>3, <3>4
    <2> QED BY <2>1, <2>2, <2>8
<1> QED BY <1>1, <1>2, <1>3, <1>4, <1>5

\* The drafts ds are sent, under identifiers that no mail has.
LEMMA SendLayer ==
    ASSUME NEW t, NEW w, Worth(t, w), NEW ds \in Seq(DraftType), TypeInv, CanSend(ds), OneItem(ds),
           Len(ds) <= 3, \A n \in DOMAIN ds : Post(t, Ids(ds)[n]) = 0,
           NEW S, S = SendRows(ds), NEW u, u = S ++ t, NEW v, v = w + Dues(ds)
    PROVE  Worth(u, v) /\ LayerKeeps(t, u, MailKinds)
<1>1. Counted(t) BY DEF Worth
<1>2. Only(S, MailKinds) /\ SendsAll(S, ds) /\ SendsNoMore(S, ds) BY SendAt
<1>3. /\ RowNames \subseteq DOMAIN u /\ LayerKeeps(t, u, MailKinds)
      /\ \A r \in RowNames : u[r] = At(S, r, t[r])
    <2>1. RowNames \subseteq DOMAIN t BY <1>1 DEF Counted
    <2>2. Layered(t, S, u, MailKinds) BY <1>2, <2>1, Layer
    <2> QED BY <2>2 DEF Layered
<1>4. SamePurses(t, u) /\ SameStakes(t, u) /\ u[Fees] = t[Fees] BY <1>3 DEF LayerKeeps, MailKinds
<1>5. /\ \A n \in DOMAIN ds : Ids(ds)[n] \in MailId
      /\ \A k, n \in DOMAIN ds : Ids(ds)[k] = Ids(ds)[n] => k = n
    BY SentFresh
<1>6. \A n \in DOMAIN ds : ds[n].money \in Int
    <2>1. \A n \in DOMAIN ds : ds[n] \in DraftType BY ElementOfSeq, LenProperties
    <2> QED BY <2>1 DEF DraftType
<1>7. ASSUME NEW n \in DOMAIN ds
      PROVE  u[MailRow(Ids(ds)[n])] = TRUE /\ u[MailMoney(Ids(ds)[n])] = ds[n].money
    <2>1. PICK m, r, s : m = Ids(ds)[n] /\ r = MailRow(m) /\ s = MailMoney(m) OBVIOUS
    <2>2. m \in MailId /\ r \in RowNames /\ s \in RowNames BY <1>5, <2>1, RowKinds
    <2>3. At(S, r, t[r]) = TRUE /\ At(S, s, t[s]) = ds[n].money BY <1>2, <2>1, Zenon DEF SendsAll
    <2>4. u[r] = At(S, r, t[r]) /\ u[s] = At(S, s, t[s]) BY <1>3, <2>2
    <2>5. u[r] = TRUE BY <2>3, <2>4, Zenon
    <2> QED BY <2>1, <2>3, <2>4, <2>5
<1>8. ASSUME NEW m \in MailId, m \notin Sent(ds)
      PROVE  u[MailRow(m)] = t[MailRow(m)] /\ u[MailMoney(m)] = t[MailMoney(m)]
    <2>1. PICK r, s : r = MailRow(m) /\ s = MailMoney(m) OBVIOUS
    <2>2. r \in RowNames /\ s \in RowNames BY <2>1, RowKinds
    <2>3. At(S, r, t[r]) = t[r] /\ At(S, s, t[s]) = t[s] BY <1>2, <1>8, <2>1 DEF SendsNoMore
    <2> QED BY <1>3, <2>1, <2>2, <2>3
<1>9. \A m \in MailId : u[MailMoney(m)] \in Int
    <2>1. \A m \in MailId : m \in Sent(ds) => u[MailMoney(m)] \in Int BY <1>6, <1>7 DEF Sent
    <2>2. \A m \in MailId : m \notin Sent(ds) => u[MailMoney(m)] \in Int BY <1>1, <1>8 DEF Counted
    <2> QED BY <2>1, <2>2
<1>10. \A n \in DOMAIN ds : Post(u, Ids(ds)[n]) = ds[n].money BY <1>7 DEF Post
<1>11. \A m \in MailId : m \notin Sent(ds) => Post(u, m) = Post(t, m) BY <1>8 DEF Post
<1>12. \A m \in MailId : Post(t, m) \in Int /\ Post(u, m) \in Int BY <1>1, <1>9 DEF Counted, Post
<1> DEFINE First(k, m) == \E n \in DOMAIN ds : n <= k /\ m = Ids(ds)[n]
           H(k) == [m \in MailId |-> IF First(k, m) THEN Post(u, m) ELSE Post(t, m)]
<1>13. DOMAIN ds = 1 .. Len(ds) /\ Len(ds) \in Nat BY LenProperties
<1>14. \A k : \A m \in MailId :
        /\ H(k)[m] = (IF First(k, m) THEN Post(u, m) ELSE Post(t, m)) /\ H(k)[m] \in Int
    BY <1>12
<1> HIDE DEF H
<1>15. ASSUME NEW k \in Nat
       PROVE  /\ SumOn(MailId, H(k + 1)) = SumOn(MailId, H(k)) + DueAt(ds, k + 1)
              /\ SumOn(MailId, H(k)) \in Int
    <2>1. IsFiniteSet(MailId) BY MailAssumption
    <2>2. PICK a, b, j : a = H(k) /\ b = H(k + 1) /\ j = k + 1 OBVIOUS
    <2>3. \A m \in MailId : /\ a[m] = (IF First(k, m) THEN Post(u, m) ELSE Post(t, m)) /\ a[m] \in Int
                            /\ b[m] = (IF First(j, m) THEN Post(u, m) ELSE Post(t, m)) /\ b[m] \in Int
        BY <1>14, <2>2
    <2>4. \A m : First(j, m) <=> First(k, m) \/ (j \in DOMAIN ds /\ m = Ids(ds)[j])
        <3>1. \A n \in DOMAIN ds : n <= j <=> n <= k \/ n = j BY <1>13, <2>2
        <3> QED BY <3>1
    <2>5. CASE j \in DOMAIN ds
        <3>1. PICK e \in MailId : e = Ids(ds)[j] BY <1>5, <2>5
        <3>2. ~First(k, e)
            <4>1. ~(j <= k) BY <2>2
            <4> QED BY <1>5, <2>5, <3>1, <4>1
        <3>3. a[e] = 0 /\ b[e] = ds[j].money BY <1>10, <2>3, <2>4, <2>5, <3>1, <3>2
        <3>4. \A m \in MailId \ {e} : b[m] = a[m] BY <2>3, <2>4, <3>1
        <3>5. SumOn(MailId, b) = SumOn(MailId, a) - a[e] + b[e] /\ SumOn(MailId, a) \in Int
            BY <2>1, <2>3, <3>4, SumChange
        <3>6. DueAt(ds, j) = b[e] /\ b[e] \in Int BY <1>6, <2>5, <3>3 DEF DueAt
        <3>7. SumOn(MailId, b) = SumOn(MailId, a) + DueAt(ds, j) BY <3>3, <3>5, <3>6
        <3> QED BY <2>2, <3>5, <3>7
    <2>6. CASE j \notin DOMAIN ds
        <3> HIDE DEF First
        <3>0. \A m : First(j, m) <=> First(k, m) BY <2>4, <2>6
        <3>1. \A m \in MailId : a[m] \in Int /\ a[m] = b[m] BY <2>3, <3>0
        <3>2. SumOn(MailId, a) = SumOn(MailId, b) BY <2>1, <3>1, SumSame
        <3>3. SumOn(MailId, a) \in Int BY <2>1, <3>1, SumParts
        <3>4. DueAt(ds, j) = 0 BY <2>6 DEF DueAt
        <3> QED BY <2>2, <3>2, <3>3, <3>4
    <2> QED BY <2>5, <2>6
<1>16. H(0) = Postage(t)
    <2>1. \A m : ~First(0, m) BY <1>13
    <2> QED BY <2>1 DEF H, Postage
<1>17. H(3) = Postage(u)
    <2>1. ASSUME NEW m \in MailId PROVE (IF First(3, m) THEN Post(u, m) ELSE Post(t, m)) = Post(u, m)
        <3>1. First(3, m) <=> m \in Sent(ds) BY <1>13 DEF Sent
        <3> QED BY <1>11, <3>1
    <2> QED BY <2>1 DEF H, Postage
<1>18. PICK s0, s1, s2, s3 : /\ s0 = SumOn(MailId, H(0)) /\ s1 = SumOn(MailId, H(1))
                             /\ s2 = SumOn(MailId, H(2)) /\ s3 = SumOn(MailId, H(3))
    OBVIOUS
<1> HIDE DEF First
<1>19. \A n : DueAt(ds, n) \in Int BY DuesFacts
<1>20. s0 \in Int /\ s3 = s0 + Dues(ds) /\ Dues(ds) \in Int
    <2>1. s1 = s0 + DueAt(ds, 1) /\ s0 \in Int
        <3>1. 0 + 1 = 1 /\ 0 \in Nat OBVIOUS
        <3> QED BY <1>15, <1>18, <3>1, SMTT(30)
    <2>2. s2 = s1 + DueAt(ds, 2)
        <3>1. 1 + 1 = 2 /\ 1 \in Nat OBVIOUS
        <3> QED BY <1>15, <1>18, <3>1, SMTT(30)
    <2>3. s3 = s2 + DueAt(ds, 3)
        <3>1. 2 + 1 = 3 /\ 2 \in Nat OBVIOUS
        <3> QED BY <1>15, <1>18, <3>1, SMTT(30)
    <2>4. PICK x, y, z : x = DueAt(ds, 1) /\ y = DueAt(ds, 2) /\ z = DueAt(ds, 3) OBVIOUS
    <2>5. x \in Int /\ y \in Int /\ z \in Int BY <1>19, <2>4
    <2>6. s0 \in Int /\ s3 = s0 + (x + y + z) /\ x + y + z \in Int
        <3>1. s1 = s0 + x /\ s0 \in Int BY <2>1, <2>4
        <3>2. s2 = s1 + y BY <2>2, <2>4
        <3>3. s3 = s2 + z BY <2>3, <2>4
        <3> QED BY <2>5, <3>1, <3>2, <3>3
    <2>7. Dues(ds) = x + y + z BY <2>4 DEF Dues
    <2> QED BY <2>6, <2>7
<1>21. PICK d \in Int : d = Dues(ds) BY <1>20
<1>22. SumOn(MailId, Postage(u)) = SumOn(MailId, Postage(t)) + d /\ v = w + d
    BY <1>16, <1>17, <1>18, <1>20, <1>21
<1>23. Worth(u, v) BY <1>3, <1>4, <1>9, <1>22, MailShift
<1> QED BY <1>3, <1>23

-----------------------------------------------------------------------------
(***************************************************************************)
(* The tables hold all the money there is, now and after any number of the *)
(* transactions under way.                                                 *)
(***************************************************************************)

AllMoney == SumOn(Player, InitMoney)
WealthInv == \A n \in 0 .. Len(queue) : Worth(Tab(n), AllMoney)

\* The tables to come.
LEMMA EndWorth ==
    ASSUME TypeInv, WealthInv
    PROVE  /\ Worth(End, AllMoney) /\ Counted(End) /\ End[Fees] = Latest(Fees) /\ AllMoney \in Int
           /\ RowNames \subseteq DOMAIN End
<1>1. End = Tab(Len(queue)) /\ Len(queue) \in 0 .. Len(queue) BY TabFacts
<1>2. Worth(End, AllMoney) BY <1>1 DEF WealthInv
<1>3. Counted(End) /\ AllMoney \in Int BY <1>2, CountedSums DEF Worth
<1>4. End[Fees] = Latest(Fees) BY RowKinds DEF End
<1> QED BY <1>2, <1>3, <1>4 DEF Counted

\* A transaction after which the tables to come hold all the money.
LEMMA CommitWealth ==
    ASSUME TypeInv, TypeInv', WealthInv, NEW f, Commit(f), db' = db, NEW u, u = f ++ End,
           Worth(u, AllMoney)
    PROVE  WealthInv'
<1> DEFINE e == [load |-> Nobody, rows |-> f]
<1>1. e \in EntryType /\ queue' = Append(queue, e) /\ e.rows = f BY Committed
<1> HIDE DEF e
<1>2. queue \in Seq(EntryType) BY DEF TypeInv, TablesTyped
<1>3. PICK es : es = <<e>> OBVIOUS
<1>4. /\ queue' = queue \o es /\ es \in Seq(EntryType) /\ Len(queue) \in Nat /\ Len(es) = 1
      /\ es[1].rows = f
    BY <1>1, <1>2, <1>3, AppendIsConcat
<1>5. (\A n \in 0 .. Len(queue) : Tab(n)' = Tab(n)) /\ Len(queue') = Len(queue) + 1
    BY <1>4, TabConcat
<1>6. PICK l, k : l = Len(queue) /\ k = l + 1 OBVIOUS
<1>7. Tab(k)' = u
    <2>1. Tab(l)' = End BY <1>4, <1>6, TabEntries
    <2>2. \A j \in 1 .. Len(es) : \A m, n : m = Len(queue) + j /\ n + 1 = m /\ n \in Nat =>
                 Tab(m)' = es[j].rows ++ Tab(n)'
        BY <1>4, TabEntries
    <2>3. 1 \in 1 .. Len(es) /\ k = Len(queue) + 1 /\ l + 1 = k /\ l \in Nat BY <1>4, <1>6
    <2>4. Tab(k)' = es[1].rows ++ Tab(l)' BY <2>2, <2>3
    <2> QED BY <1>4, <2>1, <2>4
<1>8. ASSUME NEW n \in 0 .. Len(queue') PROVE Worth(Tab(n)', AllMoney)
    <2>1. n \in 0 .. Len(queue) \/ n = k BY <1>4, <1>5, <1>6, <1>8
    <2>2. CASE n \in 0 .. Len(queue)
        <3>1. Tab(n)' = Tab(n) BY <1>5, <2>2
        <3>2. Worth(Tab(n), AllMoney) BY <2>2 DEF WealthInv
        <3> QED BY <3>1, <3>2
    <2>3. CASE n = k BY <1>7, <2>3
    <2> QED BY <2>1, <2>2, <2>3
<1> QED BY <1>8 DEF WealthInv

\* The money that goes with the deleted mails of player p.
LEMMA LostMoney ==
    ASSUME TypeInv, LedgerInv, NEW p \in online, NEW ms \in SUBSET DOMAIN box[p],
           NEW t, SameMails(End, t)
    PROVE  /\ ms \subseteq MailId /\ MoneyIn(p, ms) \in Int
           /\ SumOn(ms, Postage(t)) = MoneyIn(p, ms)
<1>1. p \in Player /\ PlayersTyped BY DEF TypeInv, PlayersTyped
<1>2. ms \subseteq MailId /\ IsFiniteSet(ms)
    <2>1. ms \subseteq MailId BY <1>1, BoxFacts
    <2>2. IsFiniteSet(MailId) BY MailAssumption
    <2> QED BY <2>1, <2>2, FS_Subset
<1>3. MoneyIn(p, ms) \in Int BY <1>1, GoodDelete
<1>4. Backs(End, p, money[p], inv[p], box[p]) BY DEF LedgerInv, Memory
<1>5. PICK a, b : a = Postage(t) /\ b = [m \in ms |-> box[p][m].money] OBVIOUS
<1>6. ASSUME NEW m \in ms PROVE a[m] = b[m] /\ a[m] \in Int
    <2>1. m \in MailId /\ m \in DOMAIN box[p] BY <1>2
    <2>2. End[MailRow(m)] /\ End[MailMoney(m)] = box[p][m].money BY <1>4, <2>1 DEF Backs
    <2>3. Post(t, m) = box[p][m].money BY <2>1, <2>2 DEF SameMails, Post
    <2>4. a[m] = Post(t, m) BY <1>5, <2>1 DEF Postage
    <2>5. box[p][m].money \in Nat BY <1>1, <2>1, BoxFacts
    <2> QED BY <1>5, <2>3, <2>4, <2>5
<1>7. SumOn(ms, a) = SumOn(ms, b) BY <1>2, <1>6, SumSame
<1>8. SumOn(ms, b) = MoneyIn(p, ms) BY <1>5 DEF SumOn, MoneyIn
<1> QED BY <1>2, <1>3, <1>5, <1>7, <1>8

\* Player p is paid, or pays, over tables that hold w and did not touch purses.
LEMMA PaidWorth ==
    ASSUME TypeInv, LedgerInv, NEW p \in online, NEW t, NEW w, Worth(t, w), SamePurses(End, t),
           NEW h, h[p] \in Int, NEW G, G = GoldRows({p}, h), NEW u, u = G ++ t,
           NEW v, v = w + (h[p] - money[p])
    PROVE  Worth(u, v)
<1>1. p \in Player BY DEF TypeInv, PlayersTyped
<1>2. Backs(End, p, money[p], inv[p], box[p]) BY DEF LedgerInv, Memory
<1>3. t[GoldRow(p)] = money[p] BY <1>1, <1>2 DEF Backs, SamePurses
<1> QED BY <1>1, <1>3, GoldLayer

\* What the deletion of the mails ms leaves of the tables to come.
MailsGone(u, ms) ==
    /\ SamePurses(End, u) /\ SameStakes(End, u)
    /\ \A m \in MailId : Post(End, m) = 0 => Post(u, m) = 0
    /\ \A m \in MailId \ ms : Post(u, m) = Post(End, m)

\* The mails ms of player p are deleted and the sum c is lost.
LEMMA DeleteWorth ==
    ASSUME TypeInv, LedgerInv, WealthInv, NEW p \in online, NEW ms \in SUBSET DOMAIN box[p],
           NEW c \in Int, NEW F, F = Fee(c), NEW M, M = DeleteRows(p, ms),
           NEW s, s = F ++ End, NEW u, u = M ++ s, NEW v, v = AllMoney + c - MoneyIn(p, ms)
    PROVE  Worth(u, v) /\ v \in Int /\ MailsGone(u, ms)
<1>1. PICK w : w = AllMoney + c OBVIOUS
<1>2. Worth(End, AllMoney) /\ End[Fees] = Latest(Fees) /\ AllMoney \in Int BY EndWorth
<1>3. Worth(s, w) /\ LayerKeeps(End, s, {"fees"})
    <2>1. PICK t, a : t = End /\ a = AllMoney OBVIOUS
    <2>2. Worth(t, a) /\ t[Fees] = Latest(Fees) /\ s = F ++ t /\ w = a + c BY <1>1, <1>2, <2>1
    <2> QED BY <2>1, <2>2, FeeLayer
<1>4. SamePurses(End, s) /\ SameStakes(End, s) /\ SameMails(End, s) BY <1>3 DEF LayerKeeps
<1>5. ms \subseteq MailId /\ MoneyIn(p, ms) \in Int /\ SumOn(ms, Postage(s)) = MoneyIn(p, ms)
    BY <1>4, LostMoney
<1>6. EndsMails(M, ms)
    <2>1. Only(M, {"mail", "mail_item", "given_up"}) /\ DeletesAll(M, p, ms) /\ DeletesNoMore(M, p, ms)
        BY DeleteAt
    <2>2. \A m \in ms : \A e : At(M, MailRow(m), e) = FALSE BY <2>1, Zenon DEF DeletesAll
    <2>3. \A m, e : m \notin ms => At(M, MailRow(m), e) = e BY <2>1, Zenon DEF DeletesNoMore
    <2> QED BY <2>1, <2>2, <2>3, Zenon DEF EndsMails
<1>7. v = w - SumOn(ms, Postage(s)) /\ v \in Int BY <1>1, <1>2, <1>5
<1>8. Worth(u, v) /\ DropsMails(s, u, ms) BY <1>3, <1>5, <1>6, <1>7, DropLayer
<1>9. SamePurses(s, u) /\ SameStakes(s, u) BY <1>8 DEF DropsMails
<1>10. SamePurses(End, u) /\ SameStakes(End, u) BY <1>4, <1>9 DEF SamePurses, SameStakes
<1>11. \A m \in MailId : Post(s, m) = Post(End, m) BY <1>4 DEF SameMails, Post
<1>12. /\ \A m \in MailId : Post(End, m) = 0 => Post(u, m) = 0
       /\ \A m \in MailId \ ms : Post(u, m) = Post(End, m)
    BY <1>8, <1>11 DEF DropsMails
<1> QED BY <1>7, <1>8, <1>10, <1>12 DEF MailsGone

\* A save of a player.
LEMMA SaveWealth ==
    ASSUME TypeInv, TypeInv', LedgerInv, WealthInv, NEW p \in Player, SaveToDB(p) \/ Logout(p)
    PROVE  WealthInv'
<1>1. PICK c, ms : c = MoneyIn(p, Deleted(p)) /\ ms = Deleted(p) OBVIOUS
<1>2. PICK G, M, F : G = GoldRows({p}, money) /\ M = DeleteRows(p, ms) /\ F = Fee(c) OBVIOUS
<1>3. PICK f : Commit(f) /\ (f = (G ++ M) ++ F \/ f = G ++ (M ++ F))
    BY <1>1, <1>2 DEF SaveToDB, Logout, LogoutPlayer, SaveMail
<1>4. p \in online /\ db' = db BY DEF SaveToDB, Logout, LogoutPlayer
<1>5. PICK s, t, u : s = F ++ End /\ t = M ++ s /\ u = G ++ t OBVIOUS
<1>6. u = f ++ End
    <2>1. ((G ++ M) ++ F) ++ End = (G ++ M) ++ (F ++ End) BY LayerOn
    <2>2. (G ++ M) ++ s = G ++ (M ++ s) BY LayerOn
    <2>3. (G ++ (M ++ F)) ++ End = G ++ ((M ++ F) ++ End) BY LayerOn
    <2>4. (M ++ F) ++ End = M ++ (F ++ End) BY LayerOn
    <2> QED BY <1>3, <1>5, <2>1, <2>2, <2>3, <2>4
<1>7. ms \in SUBSET DOMAIN box[p] BY <1>1 DEF Deleted
<1>8. c \in Int /\ c = MoneyIn(p, ms) /\ money[p] \in Int
    BY <1>1, <1>4, GoodSaveMail DEF TypeInv, PlayersTyped
<1>9. AllMoney \in Int BY EndWorth
<1>10. PICK a : a = AllMoney + c - MoneyIn(p, ms) OBVIOUS
<1>11. a = AllMoney BY <1>8, <1>9, <1>10
<1>12. Worth(t, a) /\ MailsGone(t, ms) BY <1>2, <1>4, <1>5, <1>7, <1>8, <1>10, DeleteWorth
<1>13. Worth(u, AllMoney)
    <2>1. PICK h : h = money OBVIOUS
    <2>2. G = GoldRows({p}, h) /\ h[p] \in Int /\ SamePurses(End, t) BY <1>2, <1>8, <1>12, <2>1 DEF MailsGone
    <2>3. AllMoney = a + (h[p] - money[p]) BY <1>8, <1>9, <1>11, <2>1
    <2> QED BY <1>4, <1>5, <1>12, <2>2, <2>3, PaidWorth
<1> QED BY <1>3, <1>4, <1>6, <1>13, CommitWealth

\* A player takes the money of a mail.
LEMMA TakeMoneyWealth ==
    ASSUME TypeInv, TypeInv', LedgerInv, WealthInv, NEW p \in Player, NEW m \in MailId, NEW g \in Nat,
           HandleMailTakeMoney(p, m, g)
    PROVE  WealthInv'
<1>1. PICK x, c, ms, h : /\ x = box[p][m].money /\ ms = Deleted(p) /\ c = MoneyIn(p, Deleted(p)) + x - g
                         /\ h = [money EXCEPT ![p] = Received(@, g)]
    OBVIOUS
<1>2. PICK G, W, M, F : /\ G = GoldRows({p}, h) /\ W = Write(MailMoney(m), 0) /\ M = DeleteRows(p, ms)
                        /\ F = Fee(c)
    OBVIOUS
<1>3. PICK f : Commit(f) /\ f = ((G ++ W) ++ M) ++ F
    BY <1>1, <1>2 DEF HandleMailTakeMoney, SaveMail
<1>4. /\ p \in online /\ m \in DOMAIN box[p] /\ ~box[p][m].deleted /\ db' = db
      /\ money[p] + g <= MaxMoney
    BY DEF HandleMailTakeMoney, Open, InBox
<1>5. PICK s, t, y, u : s = F ++ End /\ t = M ++ s /\ y = W ++ t /\ u = G ++ y OBVIOUS
<1>6. u = f ++ End
    <2>1. (((G ++ W) ++ M) ++ F) ++ End = ((G ++ W) ++ M) ++ (F ++ End) BY LayerOn
    <2>2. ((G ++ W) ++ M) ++ s = (G ++ W) ++ (M ++ s) BY LayerOn
    <2>3. (G ++ W) ++ t = G ++ (W ++ t) BY LayerOn
    <2> QED BY <1>3, <1>5, <2>1, <2>2, <2>3
<1>7. ms \in SUBSET DOMAIN box[p] /\ m \notin ms BY <1>1, <1>4 DEF Deleted
<1>8. PICK d : d = MoneyIn(p, ms) OBVIOUS
<1>9. d \in Int /\ x \in Int /\ c \in Int /\ c = d + x - g /\ money[p] \in 0 .. MaxMoney
    <2>1. d \in Int BY <1>1, <1>8, GoodSaveMail DEF TypeInv
    <2>2. x \in Int BY <1>1, <1>4, BoxFacts DEF TypeInv
    <2>3. money[p] \in 0 .. MaxMoney BY DEF TypeInv, PlayersTyped
    <2> QED BY <1>1, <1>8, <2>1, <2>2, <2>3
<1>10. h[p] = money[p] + g
    <2>1. h[p] = Received(money[p], g) BY <1>1 DEF TypeInv, PlayersTyped
    <2>2. MaxMoney \in Nat BY StoreAssumption
    <2> QED BY <1>4, <1>9, <2>1, <2>2 DEF Received
<1>11. AllMoney \in Int BY EndWorth
<1>12. PICK a : a = AllMoney + c - MoneyIn(p, ms) OBVIOUS
<1>13. a = AllMoney + x - g BY <1>8, <1>9, <1>11, <1>12
<1>14. Worth(t, a) /\ MailsGone(t, ms) BY <1>2, <1>4, <1>5, <1>7, <1>9, <1>12, DeleteWorth
<1>15. Post(t, m) = x
    <2>1. Backs(End, p, money[p], inv[p], box[p]) BY <1>4 DEF LedgerInv, Memory
    <2>2. End[MailRow(m)] /\ End[MailMoney(m)] = x BY <1>1, <1>4, <2>1 DEF Backs
    <2>3. Post(End, m) = x BY <2>2 DEF Post
    <2> QED BY <1>7, <1>14, <2>3 DEF MailsGone
<1>16. PICK b : b = a - Post(t, m) OBVIOUS
<1>17. Worth(y, b) /\ LayerKeeps(t, y, {"mail_money"}) BY <1>2, <1>5, <1>14, <1>16, EmptyLayer
<1>18. SamePurses(End, y)
    <2>1. SamePurses(t, y) BY <1>17 DEF LayerKeeps
    <2> QED BY <1>14, <2>1 DEF SamePurses, MailsGone
<1>19. h[p] \in Int /\ AllMoney = b + (h[p] - money[p]) BY <1>9, <1>10, <1>11, <1>13, <1>15, <1>16
<1>20. Worth(u, AllMoney) BY <1>2, <1>4, <1>5, <1>17, <1>18, <1>19, PaidWorth
<1> QED BY <1>3, <1>4, <1>6, <1>20, CommitWealth

\* A player who has the money pays exactly what he owes.
LEMMA PaysAll == ASSUME NEW m \in Nat, NEW d \in Nat, m >= d PROVE Paid(m, d) = m - d BY DEF Paid

\* The money of one mail.
LEMMA OneMoney ==
    ASSUME TypeInv, NEW p \in Player, NEW m \in DOMAIN box[p]
    PROVE  MoneyIn(p, {m}) = box[p][m].money /\ box[p][m].money \in Nat
<1>1. box[p][m].money \in Nat BY BoxFacts DEF TypeInv
<1>2. PICK D, f : D = {m} /\ f = [x \in D |-> box[p][x].money] OBVIOUS
<1>3. f[m] = box[p][m].money /\ (\A x \in D : f[x] \in Int) BY <1>1, <1>2
<1>4. IsFiniteSet(D) /\ IsFiniteSet({}) /\ m \in D /\ D \ {m} = {} BY <1>2, FS_Singleton, FS_EmptySet
<1>5. SumOn(D, f) = f[m] + SumOn(D \ {m}, f) BY <1>3, <1>4, SumRemove
<1>6. SumOn({}, f) = 0 BY <1>4, SumParts
<1>7. SumOn(D, f) = f[m] BY <1>1, <1>3, <1>4, <1>5, <1>6
<1>8. MoneyIn(p, D) = SumOn(D, f) BY <1>2 DEF MoneyIn, SumOn
<1> QED BY <1>1, <1>2, <1>3, <1>7, <1>8

\* The tables t have no money in a mail where the tables to come have none.
NoNewPost(t) == \A m \in MailId : Post(End, m) = 0 => Post(t, m) = 0

\* The drafts ds are sent over tables that hold w.
LEMMA SentWorth ==
    ASSUME TypeInv, NEW t, NEW w, Worth(t, w), NoNewPost(t), NEW ds \in Seq(DraftType), CanSend(ds),
           OneItem(ds), Len(ds) <= 3, NEW S, S = SendRows(ds), NEW u, u = S ++ t,
           NEW v, v = w + Dues(ds)
    PROVE  Worth(u, v) /\ SamePurses(t, u) /\ SameStakes(t, u)
<1>1. \A n \in DOMAIN ds : Ids(ds)[n] \in MailId /\ ~End[MailRow(Ids(ds)[n])] BY SentFresh
<1>2. \A n \in DOMAIN ds : Post(End, Ids(ds)[n]) = 0 BY <1>1 DEF Post
<1>3. \A n \in DOMAIN ds : Post(t, Ids(ds)[n]) = 0 BY <1>1, <1>2 DEF NoNewPost
<1>4. Worth(u, v) /\ LayerKeeps(t, u, MailKinds) BY <1>3, SendLayer
<1> QED BY <1>4 DEF LayerKeeps, MailKinds

\* A player sends a mail.
LEMMA SendWealth ==
    ASSUME GameMaster = {}, TypeInv, TypeInv', LedgerInv, WealthInv, NEW p \in Player, NEW q \in Player,
           NEW i \in Item \cup {NoItem}, NEW g \in Amounts, NEW cod \in Amounts,
           HandleSendMail(p, q, i, g, cod)
    PROVE  WealthInv'
<1>1. PICK d, ds, h, last : /\ d = Draft(q, p, TRUE, FALSE, g, Uint32(cod), i) /\ ds = <<d>>
                            /\ h = [money EXCEPT ![p] = Paid(@, MailCost + g)]
                            /\ last = IF i = NoItem THEN NoRows ELSE Write(ItemRow(i), Nobody)
    OBVIOUS
<1>2. PICK G, S, F, f : /\ G = GoldRows({p}, h) /\ S = SendRows(ds) /\ F = Fee(MailCost)
                        /\ f = ((G ++ S) ++ F) ++ last
    OBVIOUS
<1>3. /\ p \in online /\ money[p] >= MailCost + g /\ CanSend(ds) /\ db' = db /\ Commit(f)
    BY <1>1, <1>2 DEF HandleSendMail
<1>4. g \in Nat /\ MailCost \in Nat BY MailAssumption
<1>5. d \in DraftType /\ d.money = g
    <2>1. PICK c \in Codes : c = Uint32(cod) BY DEF Codes
    <2>2. Draft(q, p, TRUE, FALSE, g, c, i) \in DraftType BY <1>4, DraftTyped
    <2> QED BY <1>1, <2>1, <2>2 DEF Draft
<1>6. ds \in Seq(DraftType) /\ OneItem(ds) /\ Len(ds) = 1 /\ Dues(ds) = g
    BY <1>1, <1>5, OneDraft, DuesFacts
<1>7. PICK s, t, y, u : s = last ++ End /\ t = F ++ s /\ y = S ++ t /\ u = G ++ y OBVIOUS
<1>8. u = f ++ End
    <2>1. (((G ++ S) ++ F) ++ last) ++ End = ((G ++ S) ++ F) ++ (last ++ End) BY LayerOn
    <2>2. ((G ++ S) ++ F) ++ s = (G ++ S) ++ (F ++ s) BY LayerOn
    <2>3. (G ++ S) ++ t = G ++ (S ++ t) BY LayerOn
    <2> QED BY <1>2, <1>7, <2>1, <2>2, <2>3
<1>9. Worth(End, AllMoney) /\ End[Fees] = Latest(Fees) /\ AllMoney \in Int BY EndWorth
<1>10. Worth(s, AllMoney) /\ LayerKeeps(End, s, {"item"})
    <2>1. Only(last, {"item"}) BY <1>1, NoParts, PartKinds
    <2>2. {"gold", "mail", "mail_money", "auction", "auction_bid", "fees"} \cap {"item"} = {} OBVIOUS
    <2>3. PICK e, K : e = End /\ K = {"item"} OBVIOUS
    <2> QED BY <1>7, <1>9, <2>1, <2>2, <2>3, IdleLayer
<1>11. SamePurses(End, s) /\ SameMails(End, s) /\ s[Fees] = Latest(Fees) BY <1>9, <1>10 DEF LayerKeeps
<1>12. PICK w : w = AllMoney + MailCost OBVIOUS
<1>13. Worth(t, w) /\ LayerKeeps(s, t, {"fees"})
    <2>1. MailCost \in Int BY <1>4
    <2> QED BY <1>2, <1>7, <1>10, <1>11, <1>12, <2>1, FeeLayer
<1>14. SamePurses(s, t) /\ SameMails(s, t) BY <1>13 DEF LayerKeeps
<1>15. NoNewPost(t) BY <1>11, <1>14 DEF NoNewPost, SameMails, Post
<1>16. PICK v : v = w + Dues(ds) OBVIOUS
<1>17. Worth(y, v) /\ SamePurses(t, y)
    <2>1. Len(ds) <= 3 BY <1>6
    <2> QED BY <1>2, <1>3, <1>6, <1>7, <1>13, <1>15, <1>16, <2>1, SentWorth
<1>18. SamePurses(End, y) BY <1>11, <1>14, <1>17 DEF SamePurses
<1>19. money[p] \in Nat /\ h[p] = Paid(money[p], MailCost + g)
    BY <1>1 DEF TypeInv, PlayersTyped
<1>20. h[p] = money[p] - (MailCost + g) BY <1>3, <1>4, <1>19, PaysAll
<1>21. h[p] \in Int /\ AllMoney = v + (h[p] - money[p]) BY <1>4, <1>6, <1>9, <1>12, <1>16, <1>19, <1>20
<1>22. Worth(u, AllMoney) BY <1>2, <1>3, <1>7, <1>17, <1>18, <1>21, PaidWorth
<1> QED BY <1>3, <1>8, <1>22, CommitWealth

\* One mail is deleted by its row alone.
LEMMA EndsOne ==
    ASSUME NEW m \in MailId, NEW no, NEW g, g = Write(MailRow(m), no)
    PROVE  no = FALSE => EndsMails(g, {m})
<1>1. PICK r : r = MailRow(m) OBVIOUS
<1>2. g = Write(r, no) BY <1>1
<1>3. \A k : MailRow(k) = r <=> k = m BY <1>1, RowKeys
<1>4. \A k, v : At(g, MailRow(k), v) = IF MailRow(k) = r THEN no ELSE v BY <1>2, AtFacts
<1>5. \A k, v : (k = m => At(g, MailRow(k), v) = no) /\ (k # m => At(g, MailRow(k), v) = v) BY <1>3, <1>4
<1>6. Only(g, {"mail", "mail_item", "given_up"})
    <2>1. Only(g, {"mail"}) BY <1>1, <1>2, PartKinds
    <2> QED BY <2>1 DEF Only
<1>7. \A k \in {m} : \A v : At(g, MailRow(k), v) = no BY <1>5
<1>8. \A k, v : k \notin {m} => At(g, MailRow(k), v) = v BY <1>5
<1> QED BY <1>6, <1>7, <1>8, Zenon DEF EndsMails

\* A player sends a mail back, or throws it away.
LEMMA ReturnWealth ==
    ASSUME TypeInv, TypeInv', LedgerInv, WealthInv, NEW p \in Player, NEW m \in MailId,
           HandleMailReturnToSender(p, m)
    PROVE  WealthInv'
<1> DEFINE mail == box[p][m]
           d == Draft(mail.address.from, p, TRUE, TRUE, mail.money, 0, mail.item)
<1>1. PICK ds, x : ds = (IF mail.address.normal THEN <<d>> ELSE <<>>) /\ x = mail.money OBVIOUS
<1>2. /\ p \in online /\ m \in DOMAIN box[p] /\ CanSend(ds) /\ db' = db
      /\ mail.address.normal => Commit(SendRows(ds) ++ Write(MailRow(m), FALSE))
      /\ ~mail.address.normal => Commit(DeleteRows(p, {m}) ++ Fee(mail.money))
    BY <1>1 DEF HandleMailReturnToSender, Open, InBox
<1>3. /\ x \in Nat /\ mail.item \in Item \cup {NoItem} /\ mail.address.normal \in BOOLEAN
      /\ mail.address.normal => mail.address.from \in Player
    BY <1>1, <1>2, BoxFacts DEF TypeInv, PlayersTyped, AddressType, AddressRecord
<1>4. PICK D : D = {m} OBVIOUS
<1>5. D \in SUBSET DOMAIN box[p] /\ MoneyIn(p, D) = x BY <1>1, <1>2, <1>4, OneMoney
<1>6. Worth(End, AllMoney) /\ AllMoney \in Int BY EndWorth
<1>7. CASE ~mail.address.normal
    <2>1. PICK C, F, f : C = DeleteRows(p, D) /\ F = Fee(x) /\ f = C ++ F OBVIOUS
    <2>2. Commit(f) BY <1>1, <1>2, <1>4, <1>7, <2>1
    <2>3. PICK s, u, v : s = F ++ End /\ u = C ++ s /\ v = AllMoney + x - MoneyIn(p, D) OBVIOUS
    <2>4. u = f ++ End
        <3>1. (C ++ F) ++ End = C ++ (F ++ End) BY LayerOn
        <3> QED BY <2>1, <2>3, <3>1
    <2>5. v = AllMoney /\ x \in Int BY <1>3, <1>5, <1>6, <2>3
    <2>6. Worth(u, v) BY <1>2, <1>5, <2>1, <2>3, <2>5, DeleteWorth
    <2> QED BY <1>2, <2>2, <2>4, <2>5, <2>6, CommitWealth
<1>8. CASE mail.address.normal
    <2>1. PICK S, W, f : S = SendRows(ds) /\ W = Write(MailRow(m), FALSE) /\ f = S ++ W OBVIOUS
    <2>2. Commit(f) BY <1>2, <1>8, <2>1
    <2>3. ds \in Seq(DraftType) /\ OneItem(ds) /\ Len(ds) = 1 /\ Dues(ds) = x
        <3>1. PICK a, i, e : a = mail.address.from /\ i = mail.item /\ e = d OBVIOUS
        <3>2. Draft(a, p, TRUE, TRUE, x, 0, i) \in DraftType BY <1>3, <1>8, <3>1, DraftTyped, CodesNat
        <3>3. e = Draft(a, p, TRUE, TRUE, x, 0, i) BY <1>1, <3>1
        <3>4. e \in DraftType /\ e.money = x BY <3>2, <3>3 DEF Draft
        <3>5. ds = <<e>> BY <1>1, <1>8, <3>1
        <3> QED BY <3>4, <3>5, OneDraft, DuesFacts
    <2>4. PICK e, t, u : e = End /\ t = W ++ e /\ u = S ++ t OBVIOUS
    <2>5. u = f ++ End
        <3>1. (S ++ W) ++ e = S ++ (W ++ e) BY LayerOn
        <3> QED BY <2>1, <2>4, <3>1
    <2>6. PICK w : w = AllMoney - SumOn(D, Postage(e)) OBVIOUS
    <2>7. Worth(t, w) /\ DropsMails(e, t, D)
        <3>1. EndsMails(W, D)
            <4>1. PICK no : no = FALSE OBVIOUS
            <4>2. W = Write(MailRow(m), no) BY <2>1, <4>1
            <4>3. no = FALSE => EndsMails(W, {m}) BY <4>2, EndsOne
            <4> QED BY <1>4, <4>1, <4>3, Zenon
        <3>2. D \in SUBSET MailId BY <1>4
        <3> QED BY <1>6, <2>4, <2>6, <3>1, <3>2, DropLayer
    <2>8. w = AllMoney - x
        <3>1. SameMails(End, e) BY <2>4 DEF SameMails
        <3>2. SumOn(D, Postage(e)) = MoneyIn(p, D) BY <1>2, <1>5, <3>1, LostMoney
        <3> QED BY <1>5, <2>6, <3>2
    <2>9. NoNewPost(t) BY <2>4, <2>7 DEF DropsMails, NoNewPost
    <2>10. PICK v : v = w + Dues(ds) OBVIOUS
    <2>11. Worth(u, v)
        <3>1. Len(ds) <= 3 BY <2>3
        <3> QED BY <1>2, <2>1, <2>3, <2>4, <2>7, <2>9, <2>10, <3>1, SentWorth
    <2>12. v = AllMoney BY <1>3, <1>6, <2>3, <2>8, <2>10
    <2> QED BY <1>2, <2>2, <2>5, <2>11, <2>12, CommitWealth
<1> QED BY <1>3, <1>7, <1>8

\* Every price that is asked is below 2^31 once AddCOD has cut it.
Small == \A c \in Codes : c < Half

\* Such a price keeps its sign.
LEMMA SmallPrice == ASSUME Small, NEW x \in Codes, NEW z \in MinusInt32(x) PROVE z = -x
<1>1. PICK w \in Nat : w = 2 * Half /\ w > Half BY MailAssumption
<1>2. Half \in Nat /\ Half > 0 BY MailAssumption
<1>3. x \in Nat /\ x < Half BY CodesNat DEF Small
<1>4. x % w = x BY <1>1, <1>2, <1>3
<1>5. Uint32(x) = x BY <1>1, <1>4 DEF Uint32
<1>6. Int32(x) = x BY <1>3, <1>5 DEF Int32
<1>7. Int32(x) # -Half BY <1>2, <1>3, <1>6
<1>8. z = -Int32(x) BY <1>7 DEF MinusInt32
<1> QED BY <1>6, <1>8

\* What a player has is paid, and what he can have he keeps.
LEMMA PaysPrice ==
    ASSUME NEW y \in 0 .. MaxMoney, NEW x \in Nat, y >= x, NEW z \in Int, z = -x
    PROVE  ModifyMoney(y, z) = y - x
<1>1. y \in Nat BY StoreAssumption
<1>2. CASE x > 0
    <2>1. z < 0 /\ -z = x BY <1>2
    <2>2. ModifyMoney(y, z) = Paid(y, x) BY <2>1 DEF ModifyMoney
    <2> QED BY <1>1, <2>2, PaysAll
<1>3. CASE x = 0
    <2>1. ModifyMoney(y, z) = Received(y, 0) BY <1>3 DEF ModifyMoney
    <2>2. Received(y, 0) = y BY <1>1, StoreAssumption DEF Received
    <2> QED BY <1>1, <1>3, <2>1, <2>2
<1> QED BY <1>2, <1>3

\* A player takes the item of a mail, and pays for it.
LEMMA TakeItemWealth ==
    ASSUME Small, TypeInv, TypeInv', LedgerInv, WealthInv, NEW p \in Player, NEW m \in MailId,
           HandleMailTakeItem(p, m)
    PROVE  WealthInv'
<1>0. PICK paid \in Int : paid \in MinusInt32(box[p][m].cod) /\ TakesItem(p, m, paid)
    BY TakeItemChange DEF TypeInv
<1> DEFINE mail == box[p][m]
           d == Draft(mail.address.from, p, TRUE, TRUE, mail.cod, 0, NoItem)
           gold == [money EXCEPT ![p] = ModifyMoney(@, paid)]
<1>1. PICK ds, i, h, x, a : /\ ds = (IF mail.cod > 0 THEN <<d>> ELSE <<>>) /\ i = mail.item
                            /\ h = gold /\ x = mail.cod /\ a = mail.address.from
    OBVIOUS
<1>2. PICK ms, c : ms = Deleted(p) /\ c = MoneyIn(p, ms) OBVIOUS
<1>3. PICK G, W, V, U, S, M, F :
        /\ G = GoldRows({p}, h) /\ W = Write(ItemRow(i), p) /\ V = Write(MailItem(i), NoMail)
        /\ U = Write(MailCod(m), 0) /\ S = SendRows(ds) /\ M = DeleteRows(p, ms) /\ F = Fee(c)
    OBVIOUS
<1>4. /\ p \in online /\ m \in DOMAIN box[p] /\ CanSend(ds) /\ db' = db /\ money[p] >= x
    BY <1>1 DEF HandleMailTakeItem, Open, InBox
<1>5. PICK f : Commit(f) /\ f = ((((G ++ W) ++ (V ++ U)) ++ S) ++ M) ++ F
    BY <1>0, <1>1, <1>2, <1>3 DEF TakesItem, TakenRows, SaveMail
<1>6. /\ x \in Nat /\ (x # 0 => a \in Player) /\ money[p] \in 0 .. MaxMoney /\ money[p] \in Nat
      /\ h[p] = money[p] - x
    <2>1. /\ x \in Nat \cap Codes /\ (x # 0 => a \in Player) /\ money \in [Player -> 0 .. MaxMoney]
        BY <1>1, <1>4, BoxFacts DEF TypeInv, PlayersTyped
    <2>2. paid = -x BY <1>0, <1>1, <2>1, SmallPrice
    <2>3. PICK y : y = money[p] OBVIOUS
    <2>4. y \in 0 .. MaxMoney /\ y >= x BY <1>4, <2>1, <2>3
    <2>5. ModifyMoney(y, paid) = y - x BY <2>1, <2>2, <2>4, PaysPrice
    <2>6. h[p] = ModifyMoney(y, paid) BY <1>1, <2>1, <2>3
    <2> QED BY <2>1, <2>3, <2>4, <2>5, <2>6, StoreAssumption
<1>7. ds \in Seq(DraftType) /\ OneItem(ds) /\ Len(ds) <= 3 /\ Dues(ds) = x
    <2>1. CASE x > 0
        <3>1. PICK e : e = Draft(a, p, TRUE, TRUE, x, 0, NoItem) OBVIOUS
        <3>2. e \in DraftType /\ e.money = x
            <4>1. a \in Player /\ x \in Nat /\ 0 \in Codes BY <1>6, <2>1, CodesNat
            <4>2. PICK no : no = NoItem OBVIOUS
            <4>3. Draft(a, p, TRUE, TRUE, x, 0, no) \in DraftType BY <4>1, <4>2, DraftTyped
            <4> QED BY <3>1, <4>2, <4>3 DEF Draft
        <3>3. ds = <<e>> BY <1>1, <2>1, <3>1
        <3>4. Len(ds) = 1 /\ OneItem(ds) /\ ds \in Seq(DraftType) /\ Dues(ds) = e.money
            BY <3>2, <3>3, OneDraft, DuesFacts
        <3> QED BY <3>2, <3>4
    <2>2. CASE x = 0
        <3>1. ds = <<>> BY <1>1, <2>2
        <3>2. Len(ds) = 0 /\ OneItem(ds) /\ ds \in Seq(DraftType) /\ Dues(ds) = 0
            BY <3>1, NoParts, DuesFacts DEF OneItem
        <3> QED BY <2>2, <3>2
    <2> QED BY <1>6, <2>1, <2>2
<1> HIDE DEF mail, d, gold
<1>8. PICK s, t, y, A, z, u : /\ s = F ++ End /\ t = M ++ s /\ y = S ++ t /\ A = W ++ (V ++ U)
                              /\ z = A ++ y /\ u = G ++ z
    OBVIOUS
<1>9. u = f ++ End
    <2>1. PICK B : B = V ++ U OBVIOUS
    <2>2. f = ((((G ++ W) ++ B) ++ S) ++ M) ++ F /\ A = W ++ B BY <1>5, <1>8, <2>1
    <2>3. (((((G ++ W) ++ B) ++ S) ++ M) ++ F) ++ End = ((((G ++ W) ++ B) ++ S) ++ M) ++ (F ++ End) BY LayerOn
    <2>4. ((((G ++ W) ++ B) ++ S) ++ M) ++ s = (((G ++ W) ++ B) ++ S) ++ (M ++ s) BY LayerOn
    <2>5. (((G ++ W) ++ B) ++ S) ++ t = ((G ++ W) ++ B) ++ (S ++ t) BY LayerOn
    <2>6. (G ++ W) ++ B = G ++ (W ++ B) BY LayerOn
    <2>7. (G ++ A) ++ y = G ++ (A ++ y) BY LayerOn
    <2> QED BY <1>8, <2>2, <2>3, <2>4, <2>5, <2>6, <2>7
<1>10. ms \in SUBSET DOMAIN box[p] BY <1>2 DEF Deleted
<1>11. c \in Int BY <1>2, GoodSaveMail DEF TypeInv
<1>12. AllMoney \in Int BY EndWorth
<1>13. PICK v : v = AllMoney + c - MoneyIn(p, ms) OBVIOUS
<1>14. v = AllMoney BY <1>2, <1>11, <1>12, <1>13
<1>15. Worth(t, v) /\ MailsGone(t, ms) BY <1>3, <1>4, <1>8, <1>10, <1>11, <1>13, DeleteWorth
<1>16. NoNewPost(t) BY <1>15 DEF MailsGone, NoNewPost
<1>17. PICK w : w = v + Dues(ds) OBVIOUS
<1>18. Worth(y, w) /\ SamePurses(t, y) BY <1>3, <1>4, <1>7, <1>8, <1>15, <1>16, <1>17, SentWorth
<1>19. Worth(z, w) /\ SamePurses(y, z)
    <2>1. Only(A, {"item", "mail_item", "mail_cod"})
        <3>1. PICK B : B = V ++ U OBVIOUS
        <3>2. DOMAIN B = DOMAIN V \cup DOMAIN U BY <3>1 DEF ++
        <3>3. A = W ++ B BY <1>8, <3>1
        <3>4. DOMAIN A = DOMAIN W \cup DOMAIN B BY <3>3 DEF ++
        <3>5. Only(W, {"item"}) /\ Only(V, {"mail_item"}) /\ Only(U, {"mail_cod"}) BY <1>3, PartKinds
        <3> QED BY <3>2, <3>4, <3>5 DEF Only
    <2>2. PICK K : K = {"item", "mail_item", "mail_cod"} OBVIOUS
    <2>3. {"gold", "mail", "mail_money", "auction", "auction_bid", "fees"} \cap K = {} BY <2>2
    <2>4. Worth(z, w) /\ LayerKeeps(y, z, K) BY <1>8, <1>18, <2>1, <2>2, <2>3, IdleLayer
    <2> QED BY <2>2, <2>4 DEF LayerKeeps
<1>20. SamePurses(End, z) BY <1>15, <1>18, <1>19 DEF SamePurses, MailsGone
<1>21. h[p] \in Int /\ AllMoney = w + (h[p] - money[p]) BY <1>6, <1>7, <1>12, <1>14, <1>17
<1>22. Worth(u, AllMoney) BY <1>3, <1>4, <1>8, <1>19, <1>20, <1>21, PaidWorth
<1> QED BY <1>4, <1>5, <1>9, <1>22, CommitWealth

\* One row of the tables is written.
LEMMA WroteRow ==
    ASSUME NEW t, RowNames \subseteq DOMAIN t, NEW r \in RowNames, NEW x, NEW g, g = Write(r, x),
           NEW u, u = g ++ t
    PROVE  u[r] = x /\ \A s \in RowNames : s # r => u[s] = t[s]
<1>1. DOMAIN g = {r} /\ g[r] = x BY Single
<1>2. /\ \A s \in DOMAIN g : u[s] = g[s]
      /\ \A s \in DOMAIN t : s \notin DOMAIN g => u[s] = t[s]
    BY DEF ++
<1> QED BY <1>1, <1>2

\* A player puts an item up for sale: his deposit is the stake.
LEMMA SellWealth ==
    ASSUME TypeInv, TypeInv', LedgerInv, WealthInv, NEW p \in Player, NEW i \in Item,
           NEW sb \in StartBids, NEW bo \in Buyouts, HandleAuctionSellItem(p, i, sb, bo)
    PROVE  WealthInv'
<1>1. PICK h, rec, bid : /\ h = [money EXCEPT ![p] = Paid(@, Deposit)]
                         /\ rec = [owner |-> p, startbid |-> sb, buyout |-> bo, deposit |-> Deposit]
                         /\ bid = [bidder |-> Nobody, bid |-> 0]
    OBVIOUS
<1>2. PICK G, W, A, B, f : /\ G = GoldRows({p}, h) /\ W = Write(ItemRow(i), Nobody)
                           /\ A = Write(AuctionRow(i), rec) /\ B = Write(BidRow(i), bid)
                           /\ f = ((G ++ W) ++ A) ++ B
    OBVIOUS
<1>3. p \in online /\ i \in inv[p] /\ money[p] >= Deposit /\ db' = db /\ Commit(f)
    BY <1>1, <1>2 DEF HandleAuctionSellItem
<1>4. rec # NoAuction /\ rec.deposit = Deposit /\ Deposit \in Nat /\ bid.bid = 0
    <2>1. rec \in ListingRecord BY <1>1 DEF ListingRecord
    <2> QED BY <1>1, <2>1, AuctionAssumption
<1>5. PICK s, t, y, u : s = B ++ End /\ t = A ++ s /\ y = W ++ t /\ u = G ++ y OBVIOUS
<1>6. u = f ++ End
    <2>1. (((G ++ W) ++ A) ++ B) ++ End = ((G ++ W) ++ A) ++ (B ++ End) BY LayerOn
    <2>2. ((G ++ W) ++ A) ++ s = (G ++ W) ++ (A ++ s) BY LayerOn
    <2>3. (G ++ W) ++ t = G ++ (W ++ t) BY LayerOn
    <2> QED BY <1>2, <1>5, <2>1, <2>2, <2>3
<1>7. Worth(End, AllMoney) /\ Counted(End) /\ AllMoney \in Int /\ RowNames \subseteq DOMAIN End BY EndWorth
<1>8. End[AuctionRow(i)] = NoAuction BY <1>3, CarriedOnce
<1>9. PICK a, b : a = AuctionRow(i) /\ b = BidRow(i) OBVIOUS
<1>10. a \in RowNames /\ b \in RowNames /\ a # b BY <1>9, RowKinds
<1>11. s[b] = bid /\ s[a] = NoAuction
    <2>1. B = Write(b, bid) BY <1>2, <1>9
    <2>2. s[b] = bid /\ \A r \in RowNames : r # b => s[r] = End[r] BY <1>5, <1>7, <1>10, <2>1, WroteRow
    <2> QED BY <1>8, <1>9, <1>10, <2>2
<1>12. Stake(End, i) = 0 /\ Stake(s, i) = 0 BY <1>8, <1>9, <1>11 DEF Stake
<1>13. Worth(s, AllMoney) /\ SamePurses(End, s)
    <2>1. PICK e, v : e = End /\ v = AllMoney OBVIOUS
    <2>2. /\ Worth(e, v) /\ s = B ++ e /\ B = Write(b, bid) /\ b \in {AuctionRow(i), BidRow(i)}
          /\ Stake(s, i) \in Int /\ (s[BidRow(i)].bidder = Nobody => s[BidRow(i)].bid = 0)
          /\ v = v + (Stake(s, i) - Stake(e, i))
        BY <1>2, <1>4, <1>5, <1>7, <1>9, <1>11, <1>12, <2>1
    <2>3. Worth(s, v) /\ LayerKeeps(e, s, {"auction", "auction_bid"}) BY <2>2, StakeLayer
    <2> QED BY <2>1, <2>3 DEF LayerKeeps
<1>14. t[b] = bid /\ t[a] = rec
    <2>1. A = Write(a, rec) /\ RowNames \subseteq DOMAIN s BY <1>2, <1>9, <1>13 DEF Worth, Counted
    <2>2. t[a] = rec /\ \A r \in RowNames : r # a => t[r] = s[r] BY <1>5, <1>10, <2>1, WroteRow
    <2> QED BY <1>10, <1>11, <2>2
<1>15. Stake(t, i) = Deposit BY <1>4, <1>9, <1>14 DEF Stake
<1>16. PICK w : w = AllMoney + Deposit OBVIOUS
<1>17. Worth(t, w) /\ SamePurses(s, t)
    <2>1. PICK v : v = AllMoney OBVIOUS
    <2>2. /\ Worth(s, v) /\ A = Write(a, rec) /\ a \in {AuctionRow(i), BidRow(i)}
          /\ Stake(t, i) \in Int /\ (t[BidRow(i)].bidder = Nobody => t[BidRow(i)].bid = 0)
          /\ w = v + (Stake(t, i) - Stake(s, i))
        BY <1>2, <1>4, <1>7, <1>9, <1>12, <1>13, <1>14, <1>15, <1>16, <2>1
    <2>3. Worth(t, w) /\ LayerKeeps(s, t, {"auction", "auction_bid"}) BY <1>5, <2>2, StakeLayer
    <2> QED BY <2>3 DEF LayerKeeps
<1>18. Worth(y, w) /\ SamePurses(t, y)
    <2>1. PICK K : K = {"item"} OBVIOUS
    <2>2. Only(W, K) /\ {"gold", "mail", "mail_money", "auction", "auction_bid", "fees"} \cap K = {}
        BY <1>2, <2>1, PartKinds
    <2>3. Worth(y, w) /\ LayerKeeps(t, y, K) BY <1>5, <1>17, <2>2, IdleLayer
    <2> QED BY <2>1, <2>3 DEF LayerKeeps
<1>19. SamePurses(End, y) BY <1>13, <1>17, <1>18 DEF SamePurses
<1>20. money[p] \in Nat /\ h[p] = Paid(money[p], Deposit) BY <1>1 DEF TypeInv, PlayersTyped
<1>21. h[p] = money[p] - Deposit BY <1>3, <1>4, <1>20, PaysAll
<1>22. h[p] \in Int /\ AllMoney = w + (h[p] - money[p]) BY <1>4, <1>7, <1>16, <1>20, <1>21
<1>23. Worth(u, AllMoney) BY <1>2, <1>3, <1>5, <1>18, <1>19, <1>22, PaidWorth
<1> QED BY <1>3, <1>6, <1>23, CommitWealth

\* What the tables to come hold for an auction in memory.
LEMMA SaleStake ==
    ASSUME TypeInv, HouseInv, WealthInv, ~ExpireWhileDown, NEW i \in Item, OnSale(i)
    PROVE  /\ auction[i] \in AuctionRecord /\ auction[i].deposit \in Nat /\ auction[i].bid \in Nat
           /\ auction[i].bidder = Nobody => auction[i].bid = 0
           /\ End[AuctionRow(i)] # NoAuction /\ End[AuctionRow(i)].deposit = auction[i].deposit
           /\ End[BidRow(i)] = [bidder |-> auction[i].bidder, bid |-> auction[i].bid]
           /\ Stake(End, i) = auction[i].deposit + auction[i].bid
<1>1. auction[i] \in AuctionRecord BY DEF OnSale, TypeInv, HouseTyped
<1>2. PICK a : a = auction[i] OBVIOUS
<1>3. a.deposit \in Nat /\ a.bid \in Nat BY <1>1, <1>2, AuctionAssumption DEF AuctionRecord
<1>4. Latest(AuctionRow(i)) = Listing(i) /\ Latest(BidRow(i)) = BidOf(i) BY DEF HouseInv, AuctionsBacked
<1>5. Listing(i) \in ListingRecord /\ Listing(i).deposit = a.deposit
    BY <1>1, <1>2 DEF Listing, ListingRecord, AuctionRecord
<1>6. BidOf(i) = [bidder |-> a.bidder, bid |-> a.bid] BY <1>2 DEF BidOf
<1>7. PICK b : b = End[BidRow(i)] OBVIOUS
<1>8. End[AuctionRow(i)] = Listing(i) /\ b = BidOf(i) BY <1>4, <1>7, RowKinds DEF End
<1>9. End[AuctionRow(i)] # NoAuction /\ End[AuctionRow(i)].deposit = a.deposit
    BY <1>5, <1>8, AuctionAssumption
<1>10. b.bidder = a.bidder /\ b.bid = a.bid BY <1>6, <1>8
<1>11. a.bidder = Nobody => a.bid = 0
    <2>1. Counted(End) BY EndWorth
    <2>2. b.bidder = Nobody => b.bid = 0 BY <1>7, <2>1 DEF Counted
    <2> QED BY <1>10, <2>2
<1>12. Stake(End, i) = a.deposit + a.bid BY <1>7, <1>9, <1>10 DEF Stake
<1> QED BY <1>1, <1>2, <1>3, <1>6, <1>7, <1>8, <1>9, <1>11, <1>12

\* The money of one mail of the auction house.
LEMMA HouseDues ==
    ASSUME NEW to \in Player, NEW g \in Nat, NEW j \in Item \cup {NoItem}, NEW ds, ds = <<AuctionDraft(to, g, j)>>
    PROVE  ds \in Seq(DraftType) /\ Len(ds) = 1 /\ Dues(ds) = g
<1>1. PICK d : d = AuctionDraft(to, g, j) OBVIOUS
<1>2. d \in DraftType /\ d.money = g
    <2>1. AuctionDraft(to, g, j) \in DraftType BY DraftTyped
    <2> QED BY <1>1, <2>1 DEF AuctionDraft, Draft
<1>3. ds = <<d>> BY <1>1
<1> QED BY <1>2, <1>3, OneDraft, DuesFacts

\* The bidder before p gets his bid back.
LEMMA OutbidDues ==
    ASSUME TypeInv, NEW p \in Player, NEW i \in Item, OnSale(i), NEW ds, ds = Outbid(p, i)
    PROVE  /\ ds \in Seq(DraftType) /\ OneItem(ds) /\ Len(ds) \in 0 .. 1
           /\ Dues(ds) = IF auction[i].bidder \in {Nobody, p} THEN 0 ELSE auction[i].bid
<1>1. ds \in Seq(DraftType) /\ OneItem(ds) /\ auction[i] \in AuctionRecord BY OutbidDrafts
<1>2. PICK b, g : b = auction[i].bidder /\ g = auction[i].bid OBVIOUS
<1>3. b \in Player \cup {Nobody} /\ g \in Nat BY <1>1, <1>2 DEF AuctionRecord
<1>4. CASE b \in {Nobody, p}
    <2>1. ds = <<>> BY <1>2, <1>4 DEF Outbid
    <2>2. Len(ds) = 0 /\ Dues(ds) = 0 BY <2>1, DuesFacts
    <2> QED BY <1>1, <1>2, <1>4, <2>2
<1>5. CASE b \notin {Nobody, p}
    <2>1. ds = <<AuctionDraft(b, g, NoItem)>> BY <1>2, <1>5 DEF Outbid, SendAuctionOutbiddedMail
    <2>2. PICK no : no = NoItem OBVIOUS
    <2>3. Len(ds) = 1 /\ Dues(ds) = g
        <3>1. ds = <<AuctionDraft(b, g, no)>> /\ no \in Item \cup {NoItem} /\ b \in Player
            BY <1>3, <1>5, <2>1, <2>2
        <3> QED BY <1>3, <3>1, HouseDues
    <2> QED BY <1>1, <1>2, <1>5, <2>3
<1> QED BY <1>4, <1>5

\* A bid: the bidder pays the stake, and the one before him is paid back.
LEMMA BidWealth ==
    ASSUME TypeInv, TypeInv', LedgerInv, HouseInv, WealthInv, ~ExpireWhileDown,
           NEW p \in Player, NEW i \in Item, NEW price \in Prices, PlaceBid(p, i, price)
    PROVE  WealthInv'
<1>1. PICK h, ds, bid, paid : /\ h = [money EXCEPT ![p] = Paid(@, BidPaid(p, i, price))]
                              /\ ds = Outbid(p, i) /\ bid = [bidder |-> p, bid |-> price]
                              /\ paid = BidPaid(p, i, price)
    OBVIOUS
<1>2. PICK G, S, B, f : /\ G = GoldRows({p}, h) /\ S = SendRows(ds) /\ B = Write(BidRow(i), bid)
                        /\ f = (G ++ S) ++ B
    OBVIOUS
<1>3. ValidBid(p, i, price) /\ CanSend(ds) /\ db' = db /\ Commit(f) BY <1>1, <1>2 DEF PlaceBid
<1>4. p \in online /\ OnSale(i) /\ money[p] >= price BY <1>3 DEF ValidBid
<1>5. PICK x, b, d : x = auction[i].bid /\ b = auction[i].bidder /\ d = auction[i].deposit OBVIOUS
<1>6. /\ x \in Nat /\ d \in Nat /\ (b = Nobody => x = 0)
      /\ End[AuctionRow(i)] # NoAuction /\ End[AuctionRow(i)].deposit = d /\ Stake(End, i) = d + x
    BY <1>4, <1>5, SaleStake
<1>7. price \in Nat /\ price > x BY <1>3, <1>5, BidFacts
<1>8. /\ ds \in Seq(DraftType) /\ OneItem(ds) /\ Len(ds) <= 3
      /\ Dues(ds) = IF b \in {Nobody, p} THEN 0 ELSE x
    <2>1. /\ ds \in Seq(DraftType) /\ OneItem(ds) /\ Len(ds) \in 0 .. 1
          /\ Dues(ds) = IF auction[i].bidder \in {Nobody, p} THEN 0 ELSE auction[i].bid
        BY <1>1, <1>4, OutbidDues
    <2>2. Len(ds) <= 3
        <3>1. PICK n : n = Len(ds) OBVIOUS
        <3>2. n \in 0 .. 1 BY <2>1, <3>1
        <3> QED BY <3>1, <3>2
    <2>3. Dues(ds) = IF b \in {Nobody, p} THEN 0 ELSE x BY <1>5, <2>1
    <2> QED BY <2>1, <2>2, <2>3
<1>9. paid = (IF b = p THEN price - x ELSE price) BY <1>1, <1>5 DEF BidPaid
<1>10. paid \in Nat /\ money[p] >= paid /\ p # Nobody /\ money[p] \in Nat
    <2>1. money[p] \in Nat /\ p # Nobody BY StoreAssumption DEF TypeInv, PlayersTyped
    <2> QED BY <1>4, <1>6, <1>7, <1>9, <2>1
<1>11. paid = price - x + Dues(ds) BY <1>6, <1>7, <1>8, <1>9, <1>10
<1>12. PICK t, y, u : t = B ++ End /\ y = S ++ t /\ u = G ++ y OBVIOUS
<1>13. u = f ++ End
    <2>1. ((G ++ S) ++ B) ++ End = (G ++ S) ++ (B ++ End) BY LayerOn
    <2>2. (G ++ S) ++ t = G ++ (S ++ t) BY LayerOn
    <2> QED BY <1>2, <1>12, <2>1, <2>2
<1>14. Worth(End, AllMoney) /\ AllMoney \in Int /\ RowNames \subseteq DOMAIN End BY EndWorth
<1>15. PICK r : r = BidRow(i) OBVIOUS
<1>16. t[r] = bid /\ t[AuctionRow(i)] = End[AuctionRow(i)]
    <2>1. r \in RowNames /\ AuctionRow(i) \in RowNames /\ AuctionRow(i) # r BY <1>15, RowKinds
    <2>2. B = Write(r, bid) BY <1>2, <1>15
    <2>3. t[r] = bid /\ \A s \in RowNames : s # r => t[s] = End[s] BY <1>12, <1>14, <2>1, <2>2, WroteRow
    <2> QED BY <2>1, <2>3
<1>17. Stake(t, i) = d + price
    <2>1. bid.bid = price BY <1>1
    <2> QED BY <1>6, <1>15, <1>16, <2>1 DEF Stake
<1>18. PICK w : w = AllMoney + (price - x) OBVIOUS
<1>19. Worth(t, w) /\ SamePurses(End, t) /\ SameMails(End, t)
    <2>1. PICK e, v : e = End /\ v = AllMoney OBVIOUS
    <2>2. t[BidRow(i)].bidder # Nobody BY <1>1, <1>10, <1>15, <1>16
    <2>3. Stake(t, i) \in Int /\ w = v + (Stake(t, i) - Stake(e, i))
        BY <1>6, <1>7, <1>14, <1>17, <1>18, <2>1
    <2>4. /\ Worth(e, v) /\ t = B ++ e /\ B = Write(r, bid) /\ r \in {AuctionRow(i), BidRow(i)}
        BY <1>2, <1>12, <1>14, <1>15, <2>1
    <2>5. Worth(t, w) /\ LayerKeeps(e, t, {"auction", "auction_bid"}) BY <2>2, <2>3, <2>4, StakeLayer
    <2> QED BY <2>1, <2>5 DEF LayerKeeps
<1>20. NoNewPost(t) BY <1>19 DEF NoNewPost, SameMails, Post
<1>21. PICK v : v = w + Dues(ds) OBVIOUS
<1>22. Worth(y, v) /\ SamePurses(t, y) BY <1>2, <1>3, <1>8, <1>12, <1>19, <1>20, <1>21, SentWorth
<1>23. SamePurses(End, y) BY <1>19, <1>22 DEF SamePurses
<1>24. h[p] = money[p] - paid
    <2>1. h[p] = Paid(money[p], paid) BY <1>1 DEF TypeInv, PlayersTyped
    <2> QED BY <1>10, <2>1, PaysAll
<1>25. h[p] \in Int /\ AllMoney = v + (h[p] - money[p])
    <2>1. Dues(ds) \in Int BY <1>8, DuesFacts
    <2> QED BY <1>6, <1>7, <1>10, <1>11, <1>14, <1>18, <1>21, <1>24, <2>1
<1>26. Worth(u, AllMoney) BY <1>2, <1>4, <1>12, <1>22, <1>23, <1>25, PaidWorth
<1> QED BY <1>3, <1>13, <1>26, CommitWealth

\* An auction ends: its stake is sent with the drafts ds or paid to the server.
LEMMA CloseWorth ==
    ASSUME TypeInv, HouseInv, WealthInv, ~ExpireWhileDown, NEW i \in Item, OnSale(i),
           NEW ds \in Seq(DraftType), CanSend(ds), OneItem(ds), Len(ds) <= 3, NEW c \in Int,
           NEW F, F = Fee(c), NEW A, A = AuctionGone(i), NEW S, S = SendRows(ds),
           NEW s, s = F ++ End, NEW t, t = A ++ s, NEW u, u = S ++ t,
           NEW v, v = AllMoney + (c - (auction[i].deposit + auction[i].bid)) + Dues(ds)
    PROVE  Worth(u, v) /\ SamePurses(End, u)
<1>1. Worth(End, AllMoney) /\ End[Fees] = Latest(Fees) /\ AllMoney \in Int BY EndWorth
<1>2. PICK d : d = auction[i].deposit + auction[i].bid OBVIOUS
<1>3. Stake(End, i) = d /\ d \in Int
    <2>1. /\ auction[i].deposit \in Nat /\ auction[i].bid \in Nat
          /\ Stake(End, i) = auction[i].deposit + auction[i].bid
        BY SaleStake
    <2> QED BY <1>2, <2>1
<1>4. PICK w : w = AllMoney + c OBVIOUS
<1>5. Worth(s, w) /\ LayerKeeps(End, s, {"fees"})
    <2>1. PICK e, a : e = End /\ a = AllMoney OBVIOUS
    <2>2. Worth(e, a) /\ e[Fees] = Latest(Fees) /\ s = F ++ e /\ w = a + c BY <1>1, <1>4, <2>1
    <2> QED BY <2>1, <2>2, FeeLayer
<1>6. SamePurses(End, s) /\ SameStakes(End, s) /\ SameMails(End, s) BY <1>5 DEF LayerKeeps
<1>7. Stake(s, i) = d BY <1>3, <1>6 DEF SameStakes, Stake
<1>8. PICK r, b, no : r = AuctionRow(i) /\ b = BidRow(i) /\ no = NoAuction OBVIOUS
<1>9. r \in RowNames /\ b \in RowNames /\ b # r BY <1>8, RowKinds
<1>10. A = Write(r, no) /\ Counted(s) /\ RowNames \subseteq DOMAIN s
    BY <1>5, <1>8 DEF AuctionGone, Worth, Counted
<1>11. t[r] = no /\ t[b] = s[b]
    <2>1. t[r] = no /\ \A x \in RowNames : x # r => t[x] = s[x] BY <1>9, <1>10, WroteRow
    <2> QED BY <1>9, <2>1
<1>12. Stake(t, i) = 0 BY <1>8, <1>11 DEF Stake
<1>13. t[BidRow(i)].bidder = Nobody => t[BidRow(i)].bid = 0 BY <1>8, <1>10, <1>11 DEF Counted
<1>14. PICK x : x = w - d OBVIOUS
<1>15. Worth(t, x) /\ LayerKeeps(s, t, {"auction", "auction_bid"})
    <2>1. Stake(t, i) \in Int /\ x = w + (Stake(t, i) - Stake(s, i))
        BY <1>1, <1>3, <1>4, <1>7, <1>12, <1>14
    <2>2. r \in {AuctionRow(i), BidRow(i)} BY <1>8
    <2> QED BY <1>5, <1>10, <1>13, <2>1, <2>2, StakeLayer
<1>16. SamePurses(s, t) /\ SameMails(s, t) BY <1>15 DEF LayerKeeps
<1>17. NoNewPost(t) BY <1>6, <1>16 DEF NoNewPost, SameMails, Post
<1>18. v = x + Dues(ds)
    <2>1. PICK e : e = Dues(ds) /\ e \in Int BY DuesFacts
    <2> QED BY <1>1, <1>2, <1>3, <1>4, <1>14, <2>1
<1>19. Worth(u, v) /\ SamePurses(t, u) BY <1>15, <1>17, <1>18, SentWorth
<1> QED BY <1>6, <1>16, <1>19 DEF SamePurses

\* A player p ends an auction and pays the sum k.
LEMMA CloseWealth ==
    ASSUME TypeInv, TypeInv', LedgerInv, HouseInv, WealthInv, ~ExpireWhileDown, NEW i \in Item, OnSale(i),
           NEW p \in online, NEW ds \in Seq(DraftType), CanSend(ds), OneItem(ds), Len(ds) <= 3,
           NEW c \in Int, NEW k \in Nat, k <= money[p], NEW h, h = [money EXCEPT ![p] = Paid(@, k)],
           NEW G, G = GoldRows({p}, h), NEW S, S = SendRows(ds), NEW A, A = AuctionGone(i),
           NEW F, F = Fee(c), NEW f, f = ((G ++ S) ++ A) ++ F, Commit(f), db' = db,
           c + Dues(ds) = k + auction[i].deposit + auction[i].bid
    PROVE  WealthInv'
<1>1. PICK s, t, y, u : s = F ++ End /\ t = A ++ s /\ y = S ++ t /\ u = G ++ y OBVIOUS
<1>2. u = f ++ End
    <2>1. (((G ++ S) ++ A) ++ F) ++ End = ((G ++ S) ++ A) ++ (F ++ End) BY LayerOn
    <2>2. ((G ++ S) ++ A) ++ s = (G ++ S) ++ (A ++ s) BY LayerOn
    <2>3. (G ++ S) ++ t = G ++ (S ++ t) BY LayerOn
    <2> QED BY <1>1, <2>1, <2>2, <2>3
<1>3. PICK v : v = AllMoney + (c - (auction[i].deposit + auction[i].bid)) + Dues(ds) OBVIOUS
<1>4. Worth(y, v) /\ SamePurses(End, y) BY <1>1, <1>3, CloseWorth
<1>5. AllMoney \in Int /\ Dues(ds) \in Int /\ auction[i].deposit \in Nat /\ auction[i].bid \in Nat
    BY EndWorth, DuesFacts, SaleStake
<1>6. p \in Player /\ money[p] \in Nat /\ h[p] = Paid(money[p], k) BY DEF TypeInv, PlayersTyped
<1>7. h[p] = money[p] - k BY <1>6, PaysAll
<1>8. h[p] \in Int /\ AllMoney = v + (h[p] - money[p])
    <2>1. PICK d, b, e, g, m : /\ d = auction[i].deposit /\ b = auction[i].bid /\ e = Dues(ds)
                               /\ g = h[p] /\ m = money[p]
        OBVIOUS
    <2>2. d \in Int /\ b \in Int /\ e \in Int /\ m \in Int /\ g = m - k BY <1>5, <1>6, <1>7, <2>1
    <2>3. c + e = k + d + b /\ v = AllMoney + (c - (d + b)) + e BY <1>3, <2>1
    <2>4. g \in Int /\ AllMoney = v + (g - m) BY <1>5, <2>2, <2>3
    <2> QED BY <2>1, <2>4
<1>9. Worth(u, AllMoney) BY <1>1, <1>4, <1>8, PaidWorth
<1> QED BY <1>2, <1>9, CommitWealth

\* The price goes to the owner with his deposit and without the cut, the item to
\* the winner.
LEMMA WonDues ==
    ASSUME LogTrade, NEW i \in Item, NEW a \in AuctionRecord, i \in aitems, a.bidder # Nobody,
           NEW y, y = SendAuctionSuccessfulMail(a), NEW z, z = SendAuctionWonMail(i, a)
    PROVE  /\ y \in Seq(DraftType) /\ z \in Seq(DraftType) /\ Len(y) = 1 /\ Len(z) = 1
           /\ Dues(y) = a.bid + a.deposit - GetAuctionCut(a.bid) /\ Dues(z) = 0
<1>1. PICK o, b, g, d, no, w : /\ o = a.owner /\ b = a.bid /\ d = a.deposit /\ g = b + d - GetAuctionCut(b)
                               /\ no = NoItem /\ w = a.bidder
    OBVIOUS
<1>2. o \in Player /\ b \in Nat /\ d \in Nat /\ no \in Item \cup {NoItem} /\ w \in Player
    BY <1>1, AuctionAssumption DEF AuctionRecord
<1>3. g \in Nat
    <2>1. GetAuctionCut(b) \in Nat /\ GetAuctionCut(b) <= b BY <1>2, CutBound
    <2> QED BY <1>1, <1>2, <2>1
<1>4. y = <<AuctionDraft(o, g, no)>> BY <1>1 DEF SendAuctionSuccessfulMail
<1>5. z = <<AuctionDraft(w, 0, i)>> BY <1>1 DEF SendAuctionWonMail
<1>6. y \in Seq(DraftType) /\ Len(y) = 1 /\ Dues(y) = g BY <1>2, <1>3, <1>4, HouseDues
<1>7. z \in Seq(DraftType) /\ Len(z) = 1 /\ Dues(z) = 0
    <2>1. PICK n : n = 0 OBVIOUS
    <2>2. n \in Nat /\ i \in Item \cup {NoItem} /\ z = <<AuctionDraft(w, n, i)>> BY <1>5, <2>1
    <2>3. z \in Seq(DraftType) /\ Len(z) = 1 /\ Dues(z) = n BY <1>2, <2>2, HouseDues
    <2> QED BY <2>1, <2>3
<1> QED BY <1>1, <1>6, <1>7

\* A player buys an auction out.
LEMMA BuyoutWealth ==
    ASSUME TypeInv, TypeInv', LedgerInv, HouseInv, WealthInv, ~ExpireWhileDown, LogTrade,
           NEW p \in Player, NEW i \in Item, NEW price \in Prices, Buyout(p, i, price)
    PROVE  WealthInv'
<1>1. PICK sold, ds, k, fee : /\ sold = Sold(p, i) /\ ds = BuyoutMails(p, i)
                              /\ k = BidPaid(p, i, auction[i].buyout) /\ fee = GetAuctionCut(sold.bid)
    OBVIOUS
<1>2. PICK h : h = [money EXCEPT ![p] = Paid(@, k)] OBVIOUS
<1>3. PICK G, S, A, F, f : /\ G = GoldRows({p}, h) /\ S = SendRows(ds) /\ A = AuctionGone(i)
                           /\ F = Fee(fee) /\ f = ((G ++ S) ++ A) ++ F
    OBVIOUS
<1>4. /\ ValidBid(p, i, price) /\ CanSend(ds) /\ db' = db /\ Commit(f)
      /\ price >= auction[i].buyout /\ auction[i].buyout # 0
    BY <1>1, <1>2, <1>3 DEF Buyout, Sold, BuyoutMails
<1>5. p \in online /\ OnSale(i) /\ money[p] >= price BY <1>4 DEF ValidBid
<1>6. /\ ds \in Seq(DraftType) /\ OneItem(ds) /\ i \in aitems /\ sold \in AuctionRecord
      /\ sold.bidder = p /\ sold.bid = auction[i].buyout /\ sold.deposit = auction[i].deposit
    BY <1>1, BuyoutDrafts
<1>7. PICK x, y, z : /\ x = Outbid(p, i) /\ y = SendAuctionSuccessfulMail(sold)
                     /\ z = SendAuctionWonMail(i, sold)
    OBVIOUS
<1>8. PICK g, b, d, o : /\ g = auction[i].bid /\ b = auction[i].bidder /\ d = auction[i].deposit
                        /\ o = auction[i].buyout
    OBVIOUS
<1>9. g \in Nat /\ d \in Nat /\ o \in Nat /\ (b = Nobody => g = 0) /\ g < o /\ p # Nobody
    <2>1. g \in Nat /\ d \in Nat /\ (b = Nobody => g = 0) BY <1>5, <1>8, SaleStake
    <2>2. o \in Nat BY <1>4, <1>8, BidFacts
    <2>3. g < o BY <1>4, <1>5, <1>8 DEF HouseInv, BidsBelow
    <2> QED BY <2>1, <2>2, <2>3, StoreAssumption
<1>10. /\ x \in Seq(DraftType) /\ Len(x) \in 0 .. 1
       /\ Dues(x) = IF b \in {Nobody, p} THEN 0 ELSE g
    <2>1. /\ x \in Seq(DraftType) /\ Len(x) \in 0 .. 1
          /\ Dues(x) = IF auction[i].bidder \in {Nobody, p} THEN 0 ELSE auction[i].bid
        BY <1>5, <1>7, OutbidDues
    <2> QED BY <1>8, <2>1
<1>11. /\ y \in Seq(DraftType) /\ z \in Seq(DraftType) /\ Len(y) = 1 /\ Len(z) = 1
       /\ Dues(y) = o + d - fee /\ Dues(z) = 0
    <2>1. sold.bidder # Nobody BY <1>6, <1>9
    <2>2. /\ y \in Seq(DraftType) /\ z \in Seq(DraftType) /\ Len(y) = 1 /\ Len(z) = 1
          /\ Dues(y) = sold.bid + sold.deposit - GetAuctionCut(sold.bid) /\ Dues(z) = 0
        BY <1>6, <1>7, <2>1, WonDues
    <2> QED BY <1>1, <1>6, <1>8, <2>2
<1>12. fee \in Nat BY <1>1, <1>6, <1>8, <1>9, CutBound
<1>13. Len(ds) <= 3 /\ Dues(ds) = Dues(x) + (o + d - fee)
    <2>1. PICK q, l : q = x \o y /\ l = Len(x) OBVIOUS
    <2>2. l \in 0 .. 1 BY <1>10, <2>1
    <2>3. Len(x) + Len(y) <= 3 BY <1>11, <2>1, <2>2
    <2>4. q \in Seq(DraftType) /\ Dues(q) = Dues(x) + Dues(y) /\ Len(q) = l + 1
        <3>1. x \in Seq(DraftType) /\ y \in Seq(DraftType) BY <1>10, <1>11
        <3>2. Dues(x \o y) = Dues(x) + Dues(y) /\ Len(x \o y) = Len(x) + Len(y) BY <2>3, <3>1, DuesFacts
        <3>3. x \o y \in Seq(DraftType) BY <3>1, DraftSeqs
        <3> QED BY <1>11, <2>1, <3>2, <3>3
    <2>5. Len(q) + Len(z) <= 3 BY <1>11, <2>2, <2>4
    <2>6. ds = q \o z BY <1>1, <1>7, <2>1 DEF BuyoutMails
    <2>7. Dues(ds) = Dues(q) + Dues(z) /\ Len(ds) = l + 1 + 1 BY <1>11, <2>4, <2>5, <2>6, DuesFacts
    <2>8. Dues(x) \in Int BY <1>10, DuesFacts
    <2>9. Dues(ds) = Dues(x) + (o + d - fee)
        <3>1. PICK e : e = Dues(x) /\ e \in Int BY <2>8
        <3>2. Dues(ds) = (e + (o + d - fee)) + 0 BY <1>11, <2>4, <2>7, <3>1
        <3> QED BY <1>9, <1>12, <3>1, <3>2
    <2>10. Len(ds) <= 3 BY <2>2, <2>7
    <2> QED BY <2>9, <2>10
<1>14. k = (IF b = p THEN o - g ELSE o) BY <1>1, <1>8 DEF BidPaid
<1>15. k \in Nat /\ k <= money[p]
    <2>1. money[p] \in Nat /\ price \in Nat /\ price >= o
        BY <1>4, <1>8, AuctionAssumption DEF TypeInv, PlayersTyped
    <2>2. PICK m : m = money[p] OBVIOUS
    <2>3. m \in Nat /\ m >= price BY <1>5, <2>1, <2>2
    <2>4. k \in Nat /\ k <= m BY <1>9, <1>14, <2>1, <2>3
    <2> QED BY <2>2, <2>4
<1>16. fee + Dues(ds) = k + d + g
    <2>1. PICK e : e = Dues(x) OBVIOUS
    <2>2. e = (IF b \in {Nobody, p} THEN 0 ELSE g) BY <1>10, <2>1
    <2>3. k + g = o + e BY <1>9, <1>14, <2>2
    <2>4. e \in Int BY <1>9, <2>2
    <2>5. Dues(ds) = e + (o + d - fee) BY <1>13, <2>1
    <2> QED BY <1>9, <1>12, <1>15, <2>3, <2>4, <2>5
<1>17. fee + Dues(ds) = k + auction[i].deposit + auction[i].bid BY <1>8, <1>16
<1>18. fee \in Int BY <1>12
<1> QED BY <1>2, <1>3, <1>4, <1>5, <1>6, <1>13, <1>15, <1>17, <1>18, CloseWealth

\* A player cancels his auction: he pays the cut, and his deposit is lost.
LEMMA CancelWealth ==
    ASSUME TypeInv, TypeInv', LedgerInv, HouseInv, WealthInv, ~ExpireWhileDown,
           NEW p \in Player, NEW i \in Item, HandleAuctionRemoveItem(p, i)
    PROVE  WealthInv'
<1>1. PICK ds, k, fee : /\ ds = CancelMails(p, i) /\ k = CancelCost(i)
                        /\ fee = CancelCost(i) + auction[i].deposit
    OBVIOUS
<1>2. PICK h : h = [money EXCEPT ![p] = Paid(@, k)] OBVIOUS
<1>3. PICK G, S, A, F, f : /\ G = GoldRows({p}, h) /\ S = SendRows(ds) /\ A = AuctionGone(i)
                           /\ F = Fee(fee) /\ f = ((G ++ S) ++ A) ++ F
    OBVIOUS
<1>4. p \in online /\ OnSale(i) /\ CanSend(ds) /\ db' = db /\ Commit(f) /\ money[p] >= k
    BY <1>1, <1>2, <1>3 DEF HandleAuctionRemoveItem, CancelMails, CancelBack
<1>5. ds \in Seq(DraftType) /\ OneItem(ds) BY <1>1, <1>4, CancelDrafts
<1>6. PICK g, b, d : g = auction[i].bid /\ b = auction[i].bidder /\ d = auction[i].deposit OBVIOUS
<1>7. g \in Nat /\ d \in Nat /\ (b = Nobody => g = 0) /\ b \in Player \cup {Nobody}
    <2>1. g \in Nat /\ d \in Nat /\ (b = Nobody => g = 0) /\ auction[i] \in AuctionRecord
        BY <1>4, <1>6, SaleStake
    <2> QED BY <1>6, <2>1 DEF AuctionRecord
<1>8. k \in Nat /\ fee \in Int /\ fee = k + d
    <2>1. GetAuctionCut(g) \in Nat BY <1>7, CutBound
    <2>2. k \in Nat BY <1>1, <1>6, <2>1 DEF CancelCost
    <2> QED BY <1>1, <1>6, <1>7, <2>2
<1>9. PICK x, y : x = CancelBack(auction[i]) /\ y = <<AuctionDraft(p, 0, i)>> OBVIOUS
<1>10. x \in Seq(DraftType) /\ Len(x) \in 0 .. 1 /\ Dues(x) = g
    <2>1. CASE b = Nobody
        <3>1. x = <<>> BY <1>6, <1>9, <2>1 DEF CancelBack
        <3> QED BY <1>7, <2>1, <3>1, DuesFacts, DraftSeqs
    <2>2. CASE b # Nobody
        <3>1. PICK no : no = NoItem OBVIOUS
        <3>2. x = <<AuctionDraft(b, g, no)>>
            BY <1>6, <1>9, <2>2, <3>1 DEF CancelBack, SendAuctionCancelledToBidderMail
        <3>3. no \in Item \cup {NoItem} /\ b \in Player BY <1>7, <2>2, <3>1
        <3>4. x \in Seq(DraftType) /\ Len(x) = 1 /\ Dues(x) = g BY <1>7, <3>2, <3>3, HouseDues
        <3> QED BY <3>4
    <2> QED BY <2>1, <2>2
<1>11. y \in Seq(DraftType) /\ Len(y) = 1 /\ Dues(y) = 0
    <2>1. PICK n : n = 0 OBVIOUS
    <2>2. n \in Nat /\ i \in Item \cup {NoItem} /\ y = <<AuctionDraft(p, n, i)>> BY <1>9, <2>1
    <2>3. y \in Seq(DraftType) /\ Len(y) = 1 /\ Dues(y) = n BY <2>2, HouseDues
    <2> QED BY <2>1, <2>3
<1>12. Len(ds) <= 3 /\ Dues(ds) = g
    <2>1. PICK l : l = Len(x) OBVIOUS
    <2>2. l \in 0 .. 1 BY <1>10, <2>1
    <2>3. Len(x) + Len(y) <= 3 BY <1>11, <2>1, <2>2
    <2>4. ds = x \o y BY <1>1, <1>9 DEF CancelMails
    <2>5. Dues(ds) = Dues(x) + Dues(y) /\ Len(ds) = l + 1 BY <1>10, <1>11, <2>1, <2>3, <2>4, DuesFacts
    <2> QED BY <1>7, <1>10, <1>11, <2>2, <2>5
<1>13. k <= money[p]
    <2>1. money[p] \in Nat BY DEF TypeInv, PlayersTyped
    <2> QED BY <1>4, <1>8, <2>1
<1>14. fee + Dues(ds) = k + auction[i].deposit + auction[i].bid BY <1>6, <1>7, <1>8, <1>12
<1> QED BY <1>2, <1>3, <1>4, <1>5, <1>8, <1>12, <1>13, <1>14, CloseWealth

\* An auction expires.
LEMMA UpdateWealth ==
    ASSUME TypeInv, TypeInv', LedgerInv, HouseInv, WealthInv, ~ExpireWhileDown, LogTrade,
           NEW i \in Item, Update(i)
    PROVE  WealthInv'
<1>1. PICK a, ds, fee : a = auction[i] /\ ds = ExpiryDrafts(i, a) /\ fee = ExpiryFee(auction[i]) OBVIOUS
<1>2. PICK S, A, F, f : /\ S = SendRows(ds) /\ A = AuctionGone(i) /\ F = Fee(fee) /\ f = (S ++ A) ++ F
    OBVIOUS
<1>3. OnSale(i) /\ CanSend(ds) /\ Commit(f) /\ db' = db BY <1>1, <1>2 DEF Update, StillOnSale
<1>4. a \in AuctionRecord /\ i \in aitems BY <1>1, <1>3 DEF OnSale, TypeInv, HouseTyped, HouseInv
<1>5. ds \in Seq(DraftType) /\ OneItem(ds) BY <1>1, <1>4, ExpiryMails
<1>6. PICK g, b, d, o : g = a.bid /\ b = a.bidder /\ d = a.deposit /\ o = a.owner OBVIOUS
<1>7. g \in Nat /\ d \in Nat /\ (b = Nobody => g = 0) BY <1>1, <1>3, <1>6, SaleStake
<1>8. Len(ds) <= 3 /\ fee \in Int /\ Dues(ds) \in Int /\ fee + Dues(ds) = d + g
    <2>1. CASE b = Nobody
        <3>1. PICK n : n = 0 OBVIOUS
        <3>2. ds = <<AuctionDraft(o, n, i)>>
            BY <1>1, <1>4, <1>6, <2>1, <3>1 DEF ExpiryDrafts, SendAuctionExpiredMail
        <3>3. n \in Nat /\ i \in Item \cup {NoItem} /\ o \in Player
            BY <1>4, <1>6, <3>1 DEF AuctionRecord
        <3>4. Len(ds) = 1 /\ Dues(ds) = n BY <3>2, <3>3, HouseDues
        <3>5. fee = d BY <1>1, <1>6, <2>1 DEF ExpiryFee
        <3> QED BY <1>7, <2>1, <3>1, <3>4, <3>5
    <2>2. CASE b # Nobody
        <3>1. PICK y, z : y = SendAuctionSuccessfulMail(a) /\ z = SendAuctionWonMail(i, a) OBVIOUS
        <3>2. ds = y \o z BY <1>1, <1>6, <2>2, <3>1 DEF ExpiryDrafts
        <3>3. fee = GetAuctionCut(g) BY <1>1, <1>6, <2>2 DEF ExpiryFee
        <3>4. /\ y \in Seq(DraftType) /\ z \in Seq(DraftType) /\ Len(y) = 1 /\ Len(z) = 1
              /\ Dues(y) = a.bid + a.deposit - GetAuctionCut(a.bid) /\ Dues(z) = 0
            BY <1>4, <1>6, <2>2, <3>1, WonDues
        <3>5. Dues(y) = g + d - fee BY <1>6, <3>3, <3>4
        <3>6. Len(y) + Len(z) <= 3 BY <3>4
        <3>7. Dues(ds) = Dues(y) + Dues(z) /\ Len(ds) = Len(y) + Len(z) BY <3>2, <3>4, <3>6, DuesFacts
        <3>8. fee \in Nat BY <1>7, <3>3, CutBound
        <3> QED BY <1>7, <3>4, <3>5, <3>7, <3>8
    <2> QED BY <2>1, <2>2
<1>9. PICK s, t, u : s = F ++ End /\ t = A ++ s /\ u = S ++ t OBVIOUS
<1>10. u = f ++ End
    <2>1. ((S ++ A) ++ F) ++ End = (S ++ A) ++ (F ++ End) BY LayerOn
    <2>2. (S ++ A) ++ s = S ++ (A ++ s) BY LayerOn
    <2> QED BY <1>2, <1>9, <2>1, <2>2
<1>11. PICK v : v = AllMoney + (fee - (auction[i].deposit + auction[i].bid)) + Dues(ds) OBVIOUS
<1>12. Worth(u, v) BY <1>2, <1>3, <1>5, <1>8, <1>9, <1>11, CloseWorth
<1>13. v = AllMoney
    <2>1. PICK e : e = Dues(ds) OBVIOUS
    <2>2. v = AllMoney + (fee - (d + g)) + e /\ e \in Int /\ fee + e = d + g BY <1>1, <1>6, <1>8, <1>11, <2>1
    <2>3. AllMoney \in Int BY EndWorth
    <2> QED BY <1>7, <1>8, <2>2, <2>3
<1> QED BY <1>3, <1>10, <1>12, <1>13, CommitWealth

\* A step that leaves the queue and the tables alone.
LEMMA StillWealth == ASSUME WealthInv, db' = db, queue' = queue PROVE WealthInv'
<1>1. \A n : Tab(n)' = Tab(n) BY SameTables
<1> SUFFICES ASSUME NEW n \in 0 .. Len(queue') PROVE Worth(Tab(n)', AllMoney) BY Zenon DEF WealthInv
<1> QED BY <1>1 DEF WealthInv

\* The query of a login enters the queue.
LEMMA LoginWealth ==
    ASSUME TypeInv, TypeInv', WealthInv, NEW p \in Player, Login(p) PROVE WealthInv'
<1>1. PICK e : e = Query(p) OBVIOUS
<1>2. queue' = Append(queue, e) /\ db' = db BY <1>1 DEF Login, LoginPlayer, mailVars
<1>3. e.load = p /\ DOMAIN e.rows = {} BY <1>1 DEF Query
<1>4. queue \in Seq(EntryType) /\ queue' \in Seq(EntryType) BY DEF TypeInv, TablesTyped
<1>5. e \in EntryType
    <2>1. Query(p) = [load |-> p, rows |-> NoRows] BY DEF Query, NoRows
    <2>2. DOMAIN NoRows = {} BY DEF NoRows
    <2> QED BY <1>1, <2>1, <2>2, GoodDeletes, GoodEntry
<1>6. /\ \A r : \A n \in 0 .. Len(queue) : Value(n, r)' = Value(n, r)
      /\ \A r : Latest(r)' = IF r \in DOMAIN e.rows THEN e.rows[r] ELSE Latest(r)
      /\ \A r : \A n : n = Len(queue) + 1 => Value(n, r)' = Latest(r)'
      /\ Len(queue') = Len(queue) + 1
    BY <1>2, <1>4, <1>5, AppendValues
<1>7. /\ \A n \in 0 .. Len(queue) : Tab(n)' = Tab(n)
      /\ \A n : n = Len(queue) + 1 => Tab(n)' = End
    <2>1. \A r : Latest(r)' = Latest(r) BY <1>3, <1>6
    <2>2. \A n \in 0 .. Len(queue) : Tab(n)' = Tab(n) BY <1>6 DEF Tab
    <2>3. \A n : n = Len(queue) + 1 => Tab(n)' = End BY <1>6, <2>1 DEF Tab, End
    <2> QED BY <2>2, <2>3
<1>8. Len(queue) \in Nat BY <1>4, LenProperties
<1>9. Worth(End, AllMoney) BY EndWorth
<1> SUFFICES ASSUME NEW n \in 0 .. Len(queue') PROVE Worth(Tab(n)', AllMoney) BY Zenon DEF WealthInv
<1>10. n \in 0 .. Len(queue) \/ n = Len(queue) + 1 BY <1>6, <1>8
<1> QED BY <1>7, <1>9, <1>10 DEF WealthInv

\* The first entry leaves the queue.
LEMMA FinishWealth ==
    ASSUME TypeInv, TypeInv', WealthInv, Finish(1),
           \/ db' = queue[1].rows ++ db
           \/ db' = db /\ DOMAIN queue[1].rows = {}
    PROVE  WealthInv'
<1>1. queue \in Seq(EntryType) /\ DOMAIN db = RowNames /\ queue' \in Seq(EntryType)
    BY DEF TypeInv, TablesTyped, GoodTable
<1>2. /\ \A r \in DOMAIN db : \A n \in 0 .. Len(queue) - 1 : Value(n, r)' = Value(n + 1, r)
      /\ queue # <<>> /\ queue' = Tail(queue)
    BY <1>1, TakeValues
<1>3. Len(queue) \in Nat /\ Len(queue') = Len(queue) - 1
    BY <1>1, <1>2, LenProperties, HeadTailProperties
<1> SUFFICES ASSUME NEW n \in 0 .. Len(queue') PROVE Worth(Tab(n)', AllMoney) BY Zenon DEF WealthInv
<1>4. n \in 0 .. Len(queue) - 1 /\ n + 1 \in 0 .. Len(queue) BY <1>3
<1>5. Tab(n)' = Tab(n + 1) BY <1>1, <1>2, <1>4 DEF Tab
<1> QED BY <1>4, <1>5 DEF WealthInv

\* A transaction is executed, or a query answered: it is the first of the queue.
LEMMA TakenWealth ==
    ASSUME TypeInv, TypeInv', WealthInv, Workers = 1, NEW k,
           Execute(k) \/ \E p \in Player : Load(p, k)
    PROVE  WealthInv'
<1>1. queue \in Seq(EntryType) BY DEF TypeInv, TablesTyped
<1>2. DOMAIN queue = 1 .. Len(queue) /\ Len(queue) \in Nat BY <1>1, LenProperties
<1>3. CASE Execute(k)
    <2>1. Finish(k) /\ db' = queue[k].rows ++ db BY <1>3 DEF Execute
    <2>2. k = 1 BY <1>2, <2>1 DEF Finish
    <2> QED BY <2>1, <2>2, FinishWealth
<1>4. CASE \E p \in Player : Load(p, k)
    <2>1. PICK p \in Player : Load(p, k) BY <1>4
    <2>2. Finish(k) /\ queue[k].load = p /\ db' = db BY <2>1 DEF Load, LoadFromDB
    <2>3. k = 1 /\ 1 \in DOMAIN queue BY <1>2, <2>2 DEF Finish
    <2>4. queue[1] \in EntryType /\ p # Nobody BY <1>1, <2>3, StoreAssumption
    <2>5. DOMAIN queue[1].rows = {} BY <2>2, <2>3, <2>4 DEF EntryType
    <2> QED BY <2>2, <2>3, <2>5, FinishWealth
<1> QED BY <1>3, <1>4

\* No auction expires while the server is down, so the start finds none.
LEMMA StartupWealth ==
    ASSUME TypeInv, WealthInv, ~ExpireWhileDown, NEW S \in SUBSET Item, DeleteExpiredAuctionsAtStartup(S)
    PROVE  WealthInv'
<1>1. db' = db BY DEF DeleteExpiredAuctionsAtStartup
<1>2. PICK es \in Seq(EntryType) :
            /\ \A k \in DOMAIN es : GoneEntry(es[k]) /\ ExpireWhileDown
            /\ Len(queue) + Len(es) <= MaxQueue /\ queue' = queue \o es
    BY StartupEntries
<1>3. queue \in Seq(EntryType) BY DEF TypeInv, TablesTyped
<1>4. DOMAIN es = {} BY <1>2
<1>5. es = <<>> BY <1>4, LenProperties, EmptySeq
<1>6. queue' = queue BY <1>2, <1>3, <1>5, ConcatEmptySeq
<1> QED BY <1>1, <1>6, StillWealth

\* A crash leaves the tables as they are now.
LEMMA CrashWealth == ASSUME TypeInv, WealthInv, ServerCrash PROVE WealthInv'
<1>1. queue' = <<>> /\ db' = db BY DEF ServerCrash, Crash
<1>2. Tab(0)' = Tab(0)
    <2>1. \A r : Value(0, r)' = db'[r] BY ValuePrimed, ValueNow
    <2>2. \A r : Value(0, r) = db[r] BY ValueNow DEF Value
    <2> QED BY <1>1, <2>1, <2>2 DEF Tab
<1>3. 0 \in 0 .. Len(queue) BY TabFacts
<1>4. \A n \in 0 .. Len(queue') : n = 0 BY <1>1
<1> SUFFICES ASSUME NEW n \in 0 .. Len(queue') PROVE Worth(Tab(n)', AllMoney) BY Zenon DEF WealthInv
<1> QED BY <1>2, <1>3, <1>4 DEF WealthInv

\* The sum over one element.
LEMMA SumOne ==
    ASSUME NEW m, NEW f, f[m] \in Int, NEW D, D = {m} PROVE SumOn(D, f) = f[m]
<1>1. \A x \in D : f[x] \in Int OBVIOUS
<1>2. IsFiniteSet(D) /\ IsFiniteSet({}) /\ m \in D /\ D \ {m} = {} BY FS_Singleton, FS_EmptySet
<1>3. SumOn(D, f) = f[m] + SumOn(D \ {m}, f) BY <1>1, <1>2, SumRemove
<1>4. SumOn({}, f) = 0 BY <1>2, SumParts
<1>5. SumOn(D \ {m}, f) = 0 BY <1>2, <1>4
<1> QED BY <1>3, <1>5

\* An old mail is deleted: its money goes to the server.
LEMMA DropWorth ==
    ASSUME TypeInv, WealthInv, NEW t, NEW w, Worth(t, w), SameMails(End, t), t[Fees] = End[Fees],
           NEW m \in MailId, NEW f, Dropped(f, m), NEW u, u = f ++ t
    PROVE  Worth(u, w)
<1>1. \A r \in RowNames : End[r] = Latest(r) BY DEF End
<1>2. /\ t[MailRow(m)] = Latest(MailRow(m)) /\ t[MailMoney(m)] = Latest(MailMoney(m))
      /\ t[Fees] = Latest(Fees)
    BY <1>1, RowKinds, EndWorth DEF SameMails
<1>3. PICK c : c = IF Latest(MailRow(m)) THEN Latest(MailMoney(m)) ELSE 0 OBVIOUS
<1>4. c = Post(t, m) BY <1>2, <1>3, Zenon DEF Post
<1>5. Counted(t) /\ w \in Int BY CountedSums DEF Worth
<1>6. c \in Int BY <1>4, <1>5 DEF Counted, Post
<1>7. PICK no, g, F : no = FALSE /\ g = Write(MailRow(m), no) /\ F = Fee(c) OBVIOUS
<1>8. f = g ++ F BY <1>3, <1>7, Zenon DEF Dropped
<1>9. EndsMails(g, {m}) BY <1>7, EndsOne
<1>10. PICK s : s = F ++ t OBVIOUS
<1>11. PICK v : v = w + c OBVIOUS
<1>12. Worth(s, v) /\ LayerKeeps(t, s, {"fees"}) BY <1>2, <1>6, <1>7, <1>10, <1>11, FeeLayer
<1>13. u = g ++ s BY <1>8, <1>10, LayerOn
<1>14. SameMails(t, s) BY <1>12 DEF LayerKeeps
<1>15. Post(s, m) = c BY <1>4, <1>14 DEF SameMails, Post
<1>16. PICK D, h : D = {m} /\ h = Postage(s) OBVIOUS
<1>17. D \in SUBSET MailId /\ EndsMails(g, D) BY <1>9, <1>16
<1>18. SumOn(D, h) = c
    <2>1. h[m] = c BY <1>15, <1>16 DEF Postage
    <2> QED BY <1>6, <1>16, <2>1, SumOne
<1>19. PICK x : x = v - SumOn(D, h) OBVIOUS
<1>20. Worth(u, x) BY <1>12, <1>13, <1>16, <1>17, <1>19, DropLayer
<1>21. x = w BY <1>5, <1>6, <1>11, <1>18, <1>19
<1> QED BY <1>20, <1>21

\* An old mail goes with its money: to the server, or back to the sender.
LEMMA OldMailWealth ==
    ASSUME TypeInv, TypeInv', LedgerInv, WealthInv, NEW m \in MailId, AtRest(m),
           ReturnOrDeleteOldMails(m)
    PROVE  WealthInv'
<1>1. db' = db /\ db[MailRow(m)] BY DEF ReturnOrDeleteOldMails
<1>2. \A i, j \in StoredIn(m) : i = j BY <1>1, RestRows
<1>3. PICK es \in Seq(EntryType) :
            /\ \A k \in DOMAIN es : es[k].load = Nobody
            /\ queue' = queue \o es
            /\ OldAlone(m, es) \/ \E i \in Item : OldDeleted(m, i, es) \/ OldReturned(m, i, es)
    BY <1>2, OldEntries
<1>4. /\ Len(queue) \in Nat /\ Len(es) \in Nat /\ Len(queue') = Len(queue) + Len(es)
      /\ \A n \in 0 .. Len(queue) : Tab(n)' = Tab(n)
    BY <1>1, <1>3, TabConcat, TabFacts, LenProperties
<1>5. PICK L, N, Q : L = Len(queue) /\ N = Len(es) /\ Q = Len(queue') OBVIOUS
<1>6. /\ Tab(L)' = End
      /\ \A k \in 1 .. N : \A j, n : j = L + k /\ n + 1 = j /\ n \in Nat =>
                Tab(j)' = es[k].rows ++ Tab(n)'
    <2>1. queue' = queue \o es BY <1>3
    <2>2. /\ \A n : n = Len(queue) => Tab(n)' = End
          /\ \A k \in 1 .. Len(es) : \A j, n : j = Len(queue) + k /\ n + 1 = j /\ n \in Nat =>
                Tab(j)' = es[k].rows ++ Tab(n)'
        BY <1>1, <2>1, TabEntries
    <2> QED BY <1>5, <2>2
<1>7. PICK w : w = AllMoney OBVIOUS
<1>8. PICK e : e = End OBVIOUS
<1>9. Worth(e, w) /\ SameMails(e, e) BY <1>7, <1>8, EndWorth DEF SameMails
<1>10. ASSUME NEW s, NEW u, s = es[1].rows ++ e, u = es[2].rows ++ s, N \in 1 .. 2,
              Worth(s, w), N = 2 => Worth(u, w)
       PROVE  WealthInv'
    <2> SUFFICES ASSUME NEW n \in 0 .. Len(queue') PROVE Worth(Tab(n)', AllMoney) BY Zenon DEF WealthInv
    <2>1. L \in Nat /\ N \in Nat /\ L + 1 \in Nat /\ (L + 1) + 1 = L + 2 BY <1>4, <1>5
    <2>2. n \in 0 .. Len(queue) \/ n = L + 1 \/ (n = L + 2 /\ N = 2)
        <3>1. Q = L + N /\ n \in 0 .. Q /\ N \in 1 .. 2 BY <1>4, <1>5, <1>10
        <3>2. n \in 0 .. L \/ n = L + 1 \/ (n = L + 2 /\ N = 2) BY <2>1, <3>1
        <3> QED BY <1>5, <3>2
    <2>3. \A j : j = L + 1 => Tab(j)' = s BY <1>6, <1>8, <1>10, <2>1
    <2>4. ASSUME N = 2 PROVE \A j : j = L + 2 => Tab(j)' = u
        <3>1. PICK j, k : j = L + 2 /\ k = L + 1 OBVIOUS
        <3>2. 2 \in 1 .. N /\ k + 1 = j /\ k \in Nat BY <2>1, <2>4, <3>1
        <3>3. Tab(j)' = es[2].rows ++ Tab(k)' BY <1>6, <3>1, <3>2
        <3>4. Tab(k)' = s BY <2>3, <3>1
        <3> QED BY <1>10, <3>1, <3>3, <3>4
    <2>5. CASE n \in 0 .. Len(queue)
        <3>1. Tab(n)' = Tab(n) BY <1>4, <2>5
        <3> QED BY <2>5, <3>1 DEF WealthInv
    <2>6. CASE n = L + 1 BY <1>7, <1>10, <2>3, <2>6
    <2>7. CASE n = L + 2 /\ N = 2 BY <1>7, <1>10, <2>4, <2>7
    <2> QED BY <2>2, <2>5, <2>6, <2>7
<1>11. PICK f, g, s, u : f = es[1].rows /\ g = es[2].rows /\ s = f ++ e /\ u = g ++ s OBVIOUS
<1>12. CASE OldAlone(m, es)
    <2>1. N = 1 /\ Dropped(f, m) BY <1>5, <1>11, <1>12 DEF OldAlone, DropRows
    <2>2. Worth(s, w) BY <1>8, <1>9, <1>11, <2>1, DropWorth
    <2> QED BY <1>10, <1>11, <2>1, <2>2
<1>13. ASSUME NEW i \in Item, OldDeleted(m, i, es) PROVE WealthInv'
    <2>1. N = 2 /\ DOMAIN f = {GivenUp(i)} /\ Dropped(g, m)
        BY <1>5, <1>11, <1>13 DEF OldDeleted, DropRows, OneRow
    <2>2. Only(f, {"given_up"}) BY <2>1, RowKinds DEF Only
    <2>3. Worth(s, w) /\ LayerKeeps(e, s, {"given_up"}) BY <1>9, <1>11, <2>2, IdleLayer
    <2>4. SameMails(e, s) /\ s[Fees] = e[Fees] BY <2>3 DEF LayerKeeps
    <2>5. Worth(u, w) BY <1>8, <1>11, <2>1, <2>3, <2>4, DropWorth
    <2> QED BY <1>10, <1>11, <2>1, <2>3, <2>5
<1>14. ASSUME NEW i \in Item, OldReturned(m, i, es) PROVE WealthInv'
    <2>1. N = 2 /\ DOMAIN f = {MailTo(m), MailCod(m)} /\ DOMAIN g = {MailItemTo(i)}
        BY <1>5, <1>11, <1>14 DEF OldReturned, TurnRows, OneRow
    <2>2. Only(f, {"mail_to", "mail_cod"}) /\ Only(g, {"mail_item_to"}) BY <2>1, RowKinds DEF Only
    <2>3. Worth(s, w) BY <1>9, <1>11, <2>2, IdleLayer
    <2>4. Worth(u, w) BY <1>11, <2>2, <2>3, IdleLayer
    <2> QED BY <1>10, <1>11, <2>1, <2>3, <2>4
<1> QED BY <1>3, <1>12, <1>13, <1>14

\* At the start no mail holds money, nobody has bid and the server has got nothing.
LEMMA StartMoney ==
    ASSUME NEW f, f = InitRows ++ MailInitRows ++ AuctionInitRows
    PROVE  /\ \A m \in MailId : f[MailMoney(m)] = 0
           /\ \A i \in Item : f[BidRow(i)].bid = 0
           /\ f[Fees] = 0
<1> DEFINE c == [r \in {MailRow(m) : m \in MailId} |-> FALSE]
           d == [r \in {MailTo(m) : m \in MailId} |-> NoMail]
           e == [r \in {MailMoney(m) : m \in MailId} |-> 0]
           g == [r \in {MailCod(m) : m \in MailId} |-> 0]
           h == [r \in {MailItem(i) : i \in Item} |-> NoMail]
           j == [r \in {MailItemTo(i) : i \in Item} |-> Nobody]
           k == [r \in {GivenUp(i) : i \in Item} |-> FALSE]
           l == Write(Fees, 0)
           v == [r \in {AuctionRow(i) : i \in Item} |-> NoAuction]
           z == [r \in {BidRow(i) : i \in Item} |-> [bidder |-> Nobody, bid |-> 0]]
<1>1. PICK x, s, y : /\ x = InitRows /\ s = ((((((c ++ d) ++ e) ++ g) ++ h) ++ j) ++ k) ++ l
                     /\ y = v ++ z /\ f = (x ++ s) ++ y
    BY Zenon DEF MailInitRows, AuctionInitRows
<1>2. /\ DOMAIN c = {MailRow(m) : m \in MailId} /\ DOMAIN d = {MailTo(m) : m \in MailId}
      /\ DOMAIN e = {MailMoney(m) : m \in MailId} /\ DOMAIN g = {MailCod(m) : m \in MailId}
      /\ DOMAIN h = {MailItem(i) : i \in Item} /\ DOMAIN j = {MailItemTo(i) : i \in Item}
      /\ DOMAIN k = {GivenUp(i) : i \in Item} /\ DOMAIN v = {AuctionRow(i) : i \in Item}
      /\ DOMAIN z = {BidRow(i) : i \in Item} /\ DOMAIN l = {Fees} /\ l[Fees] = 0
      /\ \A m \in MailId : MailMoney(m) \in DOMAIN e /\ e[MailMoney(m)] = 0
      /\ \A i \in Item : BidRow(i) \in DOMAIN z /\ z[BidRow(i)].bid = 0
    BY DEF Write
<1> HIDE DEF c, d, e, g, h, j, k, l, v, z
<1>3. /\ \A r \in DOMAIN c : r[1] = "mail"
      /\ \A r \in DOMAIN d : r[1] = "mail_to"
      /\ \A r \in DOMAIN e : r[1] = "mail_money"
      /\ \A r \in DOMAIN g : r[1] = "mail_cod"
      /\ \A r \in DOMAIN h : r[1] = "mail_item"
      /\ \A r \in DOMAIN j : r[1] = "mail_item_to"
      /\ \A r \in DOMAIN k : r[1] = "given_up"
      /\ \A r \in DOMAIN l : r[1] = "fees"
      /\ \A r \in DOMAIN v : r[1] = "auction"
      /\ \A r \in DOMAIN z : r[1] = "auction_bid"
    BY <1>2, Kinds, RowKeys, RowKinds
<1>4. \A r \in DOMAIN x : r[1] \in {"gold", "item"}
    <2>1. DOMAIN x = {GoldRow(p) : p \in Player} \cup {ItemRow(i) : i \in Item}
        BY <1>1 DEF InitRows, ++
    <2> QED BY <2>1, Kinds
<1>5. /\ \A r \in DOMAIN e : r \notin DOMAIN c /\ r \notin DOMAIN d => r \in DOMAIN s /\ s[r] = e[r]
      /\ \A r \in DOMAIN l :
            /\ r \notin DOMAIN c /\ r \notin DOMAIN d /\ r \notin DOMAIN e /\ r \notin DOMAIN g
            /\ r \notin DOMAIN h /\ r \notin DOMAIN j /\ r \notin DOMAIN k
            => r \in DOMAIN s /\ s[r] = l[r]
      /\ DOMAIN s = DOMAIN c \cup DOMAIN d \cup DOMAIN e \cup DOMAIN g \cup DOMAIN h \cup DOMAIN j
                    \cup DOMAIN k \cup DOMAIN l
    BY <1>1 DEF ++
<1>6. /\ \A r \in DOMAIN s : r \notin DOMAIN x => f[r] = s[r]
      /\ \A r \in DOMAIN y : r \notin DOMAIN x /\ r \notin DOMAIN s => f[r] = y[r]
      /\ \A r \in DOMAIN z : r \notin DOMAIN v => r \in DOMAIN y /\ y[r] = z[r]
    <2>1. PICK q : q = x ++ s OBVIOUS
    <2>2. f = q ++ y BY <1>1, <2>1
    <2>3. DOMAIN q = DOMAIN x \cup DOMAIN s /\ \A r \in DOMAIN s : r \notin DOMAIN x => q[r] = s[r]
        BY <2>1 DEF ++
    <2>4. /\ \A r \in DOMAIN q : f[r] = q[r]
          /\ \A r \in DOMAIN y : r \notin DOMAIN q => f[r] = y[r]
        BY <2>2 DEF ++
    <2>5. \A r \in DOMAIN z : r \notin DOMAIN v => r \in DOMAIN y /\ y[r] = z[r] BY <1>1 DEF ++
    <2> QED BY <2>3, <2>4, <2>5
<1>7. \A r \in DOMAIN e : f[r] = e[r] BY <1>3, <1>4, <1>5, <1>6
<1>8. \A r \in DOMAIN l : f[r] = l[r] BY <1>3, <1>4, <1>5, <1>6
<1>9. \A r \in DOMAIN z : r \notin DOMAIN s /\ r \notin DOMAIN x /\ r \notin DOMAIN v
    BY <1>3, <1>4, <1>5
<1>10. \A r \in DOMAIN z : f[r] = z[r] BY <1>6, <1>9
<1> QED BY <1>2, <1>7, <1>8, <1>10

\* A sum of nothing.
LEMMA SumZero ==
    ASSUME NEW S, IsFiniteSet(S), NEW f, \A x \in S : f[x] = 0
    PROVE  SumOn(S, f) = 0
<1>1. \A x \in S : f[x] \in Int /\ f[x] = IF x \in S THEN 0 ELSE f[x] OBVIOUS
<1>2. PICK D : D = S OBVIOUS
<1>3. SumOn(S, f) = SumOn(S, f) - SumOn(D, f) BY <1>1, <1>2, SumDrop
<1>4. SumOn(S, f) \in Int BY <1>1, SumParts
<1>5. PICK a : a = SumOn(S, f) OBVIOUS
<1>6. a = a - a /\ a \in Int BY <1>2, <1>3, <1>4, <1>5
<1>7. a = 0 BY <1>6
<1> QED BY <1>5, <1>7

\* At the start the tables hold the purses and nothing else.
LEMMA InitWealth ==
    ASSUME \A p \in Player : InitMoney[p] <= MaxMoney, Init PROVE WealthInv
<1>1. queue = <<>> /\ db = InitRows ++ MailInitRows ++ AuctionInitRows
    BY DEF Init, StoreInit
<1>2. TypeInv /\ \A i \in Item : db[AuctionRow(i)] = NoAuction BY InitTypes, StartTable, <1>1
<1>3. \A p \in Player : db[GoldRow(p)] = InitMoney[p] BY <1>1, StartPlaces
<1>4. /\ \A m \in MailId : db[MailMoney(m)] = 0
      /\ \A i \in Item : db[BidRow(i)].bid = 0
      /\ db[Fees] = 0
    BY <1>1, StartMoney
<1>5. PICK t : t = Tab(0) OBVIOUS
<1>6. (\A r \in RowNames : t[r] = db[r]) /\ DOMAIN t = RowNames BY <1>2, <1>5, TabFacts DEF Tab
<1>7. /\ \A p \in Player : t[GoldRow(p)] = InitMoney[p] /\ InitMoney[p] \in Int
      /\ \A m \in MailId : t[MailMoney(m)] = 0
      /\ \A i \in Item : t[BidRow(i)].bid = 0 /\ t[AuctionRow(i)] = NoAuction
      /\ t[Fees] = 0
    BY <1>2, <1>3, <1>4, <1>6, RowKinds, StoreAssumption
<1>8. \A m \in MailId : Post(t, m) = 0 BY <1>7 DEF Post
<1>9. \A i \in Item : Stake(t, i) = 0 BY <1>7 DEF Stake
<1>10. Counted(t) BY <1>6, <1>7, <1>9 DEF Counted
<1>11. IsFiniteSet(Player) /\ IsFiniteSet(MailId) /\ IsFiniteSet(Item) BY <1>10, CountedSums
<1>12. PICK a, b, c : a = Purses(t) /\ b = Postage(t) /\ c = Stakes(t) OBVIOUS
<1>13. SumOn(MailId, b) = 0
    <2>1. \A m \in MailId : b[m] = 0 BY <1>8, <1>12 DEF Postage
    <2> QED BY <1>11, <2>1, SumZero
<1>14. SumOn(Item, c) = 0
    <2>1. \A i \in Item : c[i] = 0 BY <1>9, <1>12 DEF Stakes
    <2> QED BY <1>11, <2>1, SumZero
<1>15. SumOn(Player, a) = AllMoney
    <2>1. \A p \in Player : a[p] \in Int /\ a[p] = InitMoney[p] BY <1>7, <1>12 DEF Purses
    <2>2. SumOn(Player, a) = SumOn(Player, InitMoney) BY <1>11, <2>1, SumSame
    <2> QED BY <2>2 DEF AllMoney
<1>16. SumOn(Player, a) \in Int BY <1>10, <1>12, CountedSums
<1>17. Wealth(t) = AllMoney BY <1>7, <1>12, <1>13, <1>14, <1>15, <1>16 DEF Wealth
<1>18. \A n \in 0 .. Len(queue) : n = 0 BY <1>1
<1> QED BY <1>5, <1>10, <1>17, <1>18 DEF WealthInv, Worth

\* A sum over the elements that have a share in it.
LEMMA SumSupport ==
    ASSUME NEW S, IsFiniteSet(S), NEW f, \A x \in S : f[x] \in Int, NEW D \in SUBSET S,
           \A x \in S : x \notin D => f[x] = 0, NEW h, \A x \in D : h[x] = f[x]
    PROVE  SumOn(D, h) = SumOn(S, f)
<1>1. PICK z : z = [x \in S |-> 0] OBVIOUS
<1>2. \A x \in S : z[x] = 0 /\ z[x] = IF x \in D THEN 0 ELSE f[x] BY <1>1
<1>3. SumOn(S, z) = SumOn(S, f) - SumOn(D, f) /\ SumOn(D, f) \in Int BY <1>2, SumDrop
<1>4. SumOn(S, z) = 0 BY <1>2, SumZero
<1>5. SumOn(S, f) \in Int BY SumParts
<1>6. PICK a, b : a = SumOn(S, f) /\ b = SumOn(D, f) OBVIOUS
<1>7. a = b
    <2>1. 0 = a - b /\ a \in Int /\ b \in Int BY <1>3, <1>4, <1>5, <1>6
    <2> QED BY <2>1
<1>8. IsFiniteSet(D) /\ \A x \in D : f[x] \in Int /\ f[x] = h[x] BY FS_Subset
<1>9. SumOn(D, f) = SumOn(D, h) BY <1>8, SumSame
<1> QED BY <1>6, <1>7, <1>9

\* Sums over the domain of a function.
LEMMA TotalOn == ASSUME NEW f, NEW S, DOMAIN f = S PROVE Total(f) = SumOn(S, f)
    BY DEF Total, SumOn

\* What the tables are worth now is the money in them.
LEMMA WealthStored == ASSUME TypeInv, WealthInv PROVE MoneyConserved
<1>1. PICK t : t = Tab(0) OBVIOUS
<1>2. \A r \in RowNames : t[r] = db[r] BY <1>1, TabFacts
<1>3. Worth(t, AllMoney)
    <2>1. 0 \in 0 .. Len(queue) BY TabFacts
    <2> QED BY <1>1, <2>1 DEF WealthInv
<1>4. Counted(t) /\ Wealth(t) = AllMoney BY <1>3 DEF Worth
<1>5. PICK a, b, c : a = Purses(t) /\ b = Postage(t) /\ c = Stakes(t) OBVIOUS
<1>6. /\ IsFiniteSet(Player) /\ IsFiniteSet(MailId) /\ IsFiniteSet(Item)
      /\ \A m \in MailId : b[m] \in Int
      /\ \A i \in Item : c[i] \in Int
    BY <1>4, <1>5, CountedSums
<1>7. AllMoney = Total(InitMoney)
    <2>1. DOMAIN InitMoney = Player BY StoreAssumption
    <2> QED BY <2>1, TotalOn DEF AllMoney
<1>8. Total([p \in Player |-> db[GoldRow(p)]]) = SumOn(Player, a)
    <2>1. PICK h : h = [p \in Player |-> db[GoldRow(p)]] OBVIOUS
    <2>2. h = a BY <1>2, <1>5, <2>1, RowKinds DEF Purses
    <2>3. DOMAIN h = Player BY <2>1
    <2>4. Total(h) = SumOn(Player, h) BY <2>3, TotalOn
    <2> QED BY <2>1, <2>2, <2>4
<1>9. Total([m \in {n \in MailId : db[MailRow(n)]} |-> db[MailMoney(m)]]) = SumOn(MailId, b)
    <2>1. PICK D : D = {n \in MailId : db[MailRow(n)]} OBVIOUS
    <2>2. PICK h : h = [m \in D |-> db[MailMoney(m)]] OBVIOUS
    <2>3. \A m \in MailId : t[MailRow(m)] = db[MailRow(m)] /\ t[MailMoney(m)] = db[MailMoney(m)]
        BY <1>2, RowKinds
    <2>4. D \in SUBSET MailId /\ \A m \in D : t[MailRow(m)] BY <2>1, <2>3, Zenon
    <2>5. \A m \in MailId : m \notin D => ~t[MailRow(m)] BY <2>1, <2>3, Zenon
    <2>6. \A m \in D : b[m] = t[MailMoney(m)] BY <1>5, <2>4 DEF Postage, Post
    <2>7. \A m \in MailId : m \notin D => b[m] = 0 BY <1>5, <2>5 DEF Postage, Post
    <2>8. \A m \in D : h[m] = b[m] BY <2>2, <2>3, <2>4, <2>6
    <2>9. SumOn(D, h) = SumOn(MailId, b) BY <1>6, <2>4, <2>7, <2>8, SumSupport
    <2>10. DOMAIN h = D BY <2>2
    <2>11. Total(h) = SumOn(D, h) BY <2>10, TotalOn
    <2>12. Total(h) = SumOn(MailId, b) BY <2>9, <2>11
    <2> QED BY <2>1, <2>2, <2>12, Zenon
<1>10. Total([i \in {j \in Item : db[AuctionRow(j)] # NoAuction} |->
                db[AuctionRow(i)].deposit + db[BidRow(i)].bid]) = SumOn(Item, c)
    <2>1. PICK D : D = {j \in Item : db[AuctionRow(j)] # NoAuction} OBVIOUS
    <2>2. PICK h : h = [i \in D |-> db[AuctionRow(i)].deposit + db[BidRow(i)].bid] OBVIOUS
    <2>3. \A i \in Item : t[AuctionRow(i)] = db[AuctionRow(i)] /\ t[BidRow(i)] = db[BidRow(i)]
        BY <1>2, RowKinds
    <2>4. D \in SUBSET Item BY <2>1
    <2>5. \A i \in Item : i \notin D => c[i] = 0 BY <1>5, <2>1, <2>3 DEF Stakes, Stake
    <2>6. \A i \in D : h[i] = c[i] BY <1>5, <2>1, <2>2, <2>3 DEF Stakes, Stake
    <2>7. SumOn(D, h) = SumOn(Item, c) BY <1>6, <2>4, <2>5, <2>6, SumSupport
    <2>8. DOMAIN h = D BY <2>2
    <2>9. Total(h) = SumOn(D, h) BY <2>8, TotalOn
    <2>10. Total(h) = SumOn(Item, c) BY <2>7, <2>9
    <2> QED BY <2>1, <2>2, <2>10, Zenon
<1>11. t[Fees] = db[Fees] BY <1>2, RowKinds
<1>12. Stored = SumOn(Player, a) + SumOn(MailId, b) + SumOn(Item, c) + t[Fees]
    BY <1>8, <1>9, <1>10, <1>11, Zenon DEF Stored
<1>13. Stored = Wealth(t) BY <1>5, <1>12, Zenon DEF Wealth
<1> QED BY <1>4, <1>7, <1>13, Zenon DEF MoneyConserved

\* Every step moves money from one place of the tables to another.
LEMMA StepWealth ==
    ASSUME Workers = 1, OldMailsAtRest, ~ExpireWhileDown, LogTrade, GameMaster = {}, Small,
           TypeInv, TypeInv', HouseInv, LedgerInv, WealthInv, [Next]_vars
    PROVE  WealthInv'
<1>1. ASSUME NEW p \in Player, AuctionStep(p) PROVE WealthInv'
    BY <1>1, SellWealth, BidWealth, BuyoutWealth, CancelWealth DEF AuctionStep
<1>2. ASSUME NEW p \in Player, MailStep(p) PROVE WealthInv'
    <2>1. ASSUME NEW q \in Player, NEW i \in Item \cup {NoItem}, NEW g \in Amounts, NEW cod \in Amounts,
                 HandleSendMail(p, q, i, g, cod)
          PROVE  WealthInv'
        BY <2>1, SendWealth
    <2>2. ASSUME NEW m \in MailId, HandleMailDelete(p, m) \/ HandleMailMarkAsRead(p, m) PROVE WealthInv'
        <3>1. db' = db /\ queue' = queue BY <2>2 DEF HandleMailDelete, HandleMailMarkAsRead, storeVars
        <3> QED BY <3>1, StillWealth
    <2>3. ASSUME NEW m \in MailId, HandleMailReturnToSender(p, m) PROVE WealthInv' BY <2>3, ReturnWealth
    <2>4. ASSUME NEW m \in MailId, HandleMailTakeItem(p, m) PROVE WealthInv' BY <2>4, TakeItemWealth
    <2>5. ASSUME NEW m \in MailId, NEW g \in 0 .. MaxMoney, HandleMailTakeMoney(p, m, g) PROVE WealthInv'
        <3>1. g \in Nat BY StoreAssumption
        <3> QED BY <2>5, <3>1, TakeMoneyWealth
    <2>6. CASE SaveToDB(p) \/ Logout(p) BY <2>6, SaveWealth
    <2>7. CASE Login(p) BY <2>7, LoginWealth
    <2>8. ASSUME NEW k, Load(p, k) PROVE WealthInv' BY <2>8, TakenWealth
    <2> QED BY <1>2, <2>1, <2>2, <2>3, <2>4, <2>5, <2>6, <2>7, <2>8 DEF MailStep
<1>3. CASE MailStoreStep
    <2>1. ASSUME NEW m \in MailId, ReturnOrDeleteOldMails(m) PROVE WealthInv'
        <3>1. AtRest(m) BY <2>1 DEF ReturnOrDeleteOldMails
        <3> QED BY <2>1, <3>1, OldMailWealth
    <2>2. ASSUME NEW k, Execute(k) PROVE WealthInv' BY <2>2, TakenWealth
    <2> QED BY <1>3, <2>1, <2>2 DEF MailStoreStep
<1>4. ASSUME NEW i \in Item, Update(i) PROVE WealthInv' BY <1>4, UpdateWealth
<1>5. ASSUME NEW S \in SUBSET Item, DeleteExpiredAuctionsAtStartup(S) PROVE WealthInv'
    BY <1>5, StartupWealth
<1>6. CASE LoadAuctions BY <1>6, StillWealth DEF LoadAuctions
<1>7. CASE ServerCrash BY <1>7, CrashWealth
<1>8. CASE UNCHANGED vars BY <1>8, StillWealth DEF vars
<1> QED BY <1>1, <1>2, <1>3, <1>4, <1>5, <1>6, <1>7, <1>8 DEF Next

\* At any moment, so also after a crash, the tables hold all the money there is:
\* a bid is in its auction until it is returned or paid out, a deposit until the
\* sale ends, a cash on delivery until it is sent; what is not paid to somebody
\* is paid to the server.  Under the conditions of ItemsAlwaysStored, and if no
\* price is asked that the conversion of HandleMailTakeItem changes, and nobody
\* sends money that he does not have, as game masters may.
THEOREM MoneyAlwaysConserved ==
    ASSUME Workers = 1, OldMailsAtRest, ~ExpireWhileDown, LogTrade, GameMaster = {}, Small,
           MaxCrashes = 0 \/ NobodyMails, \A p \in Player : InitMoney[p] <= MaxMoney
    PROVE  Spec => []MoneyConserved
<1> DEFINE I == TypeInv /\ HouseInv /\ LedgerInv
<1>1. Spec => []I BY LedgerAlways
<1>2. Init => WealthInv BY InitWealth
<1>3. I /\ I' /\ WealthInv /\ [Next]_vars => WealthInv' BY StepWealth
<1>4. I /\ WealthInv => MoneyConserved BY WealthStored
<1> QED BY <1>1, <1>2, <1>3, <1>4, PTL DEF Spec

=============================================================================
