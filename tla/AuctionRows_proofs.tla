-------------------------- MODULE AuctionRows_proofs --------------------------
(***************************************************************************)
(* The rows that mails and auctions write, and type correctness of         *)
(* AuctionHouse, for any number of players, items, mails and crashes, with *)
(* old mails at rest or not and auctions that expire while the server is   *)
(* down or not, and one worker thread.                                     *)
(*                                                                         *)
(* What is read from the tables has its type because every transaction     *)
(* writes rows of the right type, and because a transaction that creates a *)
(* mail, or changes its sender, writes the columns that depend on each     *)
(* other together: this holds in whatever order transactions take effect.  *)
(* The order matters for the sums alone: a bid is below the buyout of its  *)
(* auction (BidsBelow) because the tables pass through the states that the *)
(* memory went through (BidHistory).                                       *)
(***************************************************************************)
EXTENDS AuctionHouse, CharacterStore_proofs

\* A mail that one can return has a sender among the players.
AddressType == {a \in AddressRecord : a.normal => a.from \in Player}

\* The prices that a mail can ask, and none.
Codes == {0} \cup {Uint32(c) : c \in Amounts}

RowNames ==
    ({"gold"} \X Player)
    \cup ({"item", "mail_item", "mail_item_to", "given_up", "auction", "auction_bid"} \X Item)
    \cup ({"mail", "mail_to", "mail_money", "mail_cod"} \X MailId)
    \cup {Fees}

RowType ==
    [gold |-> 0 .. MaxMoney, item |-> Player \cup {Nobody},
     mail |-> BOOLEAN, mail_to |-> AddressType \cup {NoMail},
     mail_money |-> Nat, mail_cod |-> Codes,
     mail_item |-> MailId \cup {NoMail}, mail_item_to |-> Player \cup {Nobody},
     given_up |-> BOOLEAN, fees |-> Int,
     auction |-> ListingRecord \cup {NoAuction},
     auction_bid |-> [bidder : Player \cup {Nobody}, bid : Nat]]

\* Every row has its type.
Typed(f) == \A r \in DOMAIN f : r \in RowNames /\ f[r] \in RowType[r[1]]

\* A transaction that creates a mail or asks a price for its item writes the
\* sender too, and one that writes a sender who is no player asks no price.
Mated(f) ==
    \A m \in MailId :
        /\ MailRow(m) \in DOMAIN f /\ f[MailRow(m)] => MailTo(m) \in DOMAIN f
        /\ MailCod(m) \in DOMAIN f /\ f[MailCod(m)] # 0 =>
                MailTo(m) \in DOMAIN f /\ f[MailTo(m)].normal
        /\ MailTo(m) \in DOMAIN f =>
                /\ f[MailTo(m)] \in AddressType
                /\ f[MailTo(m)].normal \/ (MailCod(m) \in DOMAIN f /\ f[MailCod(m)] = 0)

Good(f) == f = [r \in DOMAIN f |-> f[r]] /\ Typed(f) /\ Mated(f)

\* The same for the tables.
GoodTable(d) ==
    /\ DOMAIN d = RowNames /\ Typed(d)
    /\ \A m \in MailId :
        /\ d[MailRow(m)] => d[MailTo(m)] \in AddressType
        /\ d[MailCod(m)] # 0 => d[MailTo(m)] \in AddressType /\ d[MailTo(m)].normal

-----------------------------------------------------------------------------
\* The value of a row of f ++ g.
LEMMA Over ==
    ASSUME NEW f, NEW g
    PROVE  /\ DOMAIN (f ++ g) = DOMAIN f \cup DOMAIN g
           /\ \A r \in DOMAIN f : (f ++ g)[r] = f[r]
           /\ \A r \in DOMAIN g : r \notin DOMAIN f => (f ++ g)[r] = g[r]
  BY DEF ++

\* The value of the one row of a statement.
LEMMA Single ==
    ASSUME NEW r, NEW v PROVE DOMAIN Write(r, v) = {r} /\ Write(r, v)[r] = v
  BY DEF Write

\* The rows of the players, the items, the mails and the fees.
LEMMA RowKinds ==
    /\ \A p \in Player : GoldRow(p) \in RowNames /\ GoldRow(p)[1] = "gold"
    /\ \A i \in Item : /\ ItemRow(i) \in RowNames /\ ItemRow(i)[1] = "item"
                       /\ MailItem(i) \in RowNames /\ MailItem(i)[1] = "mail_item"
                       /\ MailItemTo(i) \in RowNames /\ MailItemTo(i)[1] = "mail_item_to"
                       /\ GivenUp(i) \in RowNames /\ GivenUp(i)[1] = "given_up"
                       /\ AuctionRow(i) \in RowNames /\ AuctionRow(i)[1] = "auction"
                       /\ BidRow(i) \in RowNames /\ BidRow(i)[1] = "auction_bid"
    /\ \A m \in MailId : /\ MailRow(m) \in RowNames /\ MailRow(m)[1] = "mail"
                         /\ MailTo(m) \in RowNames /\ MailTo(m)[1] = "mail_to"
                         /\ MailMoney(m) \in RowNames /\ MailMoney(m)[1] = "mail_money"
                         /\ MailCod(m) \in RowNames /\ MailCod(m)[1] = "mail_cod"
    /\ Fees \in RowNames /\ Fees[1] = "fees"
  BY DEF RowNames, GoldRow, ItemRow, MailItem, MailItemTo, GivenUp, AuctionRow, BidRow,
         MailRow, MailTo, MailMoney, MailCod, Fees

\* The keys of the rows.
LEMMA RowKeys ==
    ASSUME NEW x
    PROVE  /\ GoldRow(x)[2] = x /\ ItemRow(x)[2] = x /\ MailItem(x)[2] = x
           /\ MailItemTo(x)[2] = x /\ GivenUp(x)[2] = x /\ AuctionRow(x)[2] = x
           /\ BidRow(x)[2] = x /\ MailRow(x)[2] = x /\ MailTo(x)[2] = x
           /\ MailMoney(x)[2] = x /\ MailCod(x)[2] = x
           /\ GoldRow(x)[1] = "gold" /\ ItemRow(x)[1] = "item" /\ MailItem(x)[1] = "mail_item"
           /\ MailItemTo(x)[1] = "mail_item_to" /\ GivenUp(x)[1] = "given_up"
           /\ AuctionRow(x)[1] = "auction" /\ BidRow(x)[1] = "auction_bid"
           /\ MailRow(x)[1] = "mail" /\ MailTo(x)[1] = "mail_to"
           /\ MailMoney(x)[1] = "mail_money" /\ MailCod(x)[1] = "mail_cod"
           /\ Fees[1] = "fees"
<1>1. GoldRow(x)[1] = "gold" /\ GoldRow(x)[2] = x BY DEF GoldRow
<1>2. ItemRow(x)[1] = "item" /\ ItemRow(x)[2] = x BY DEF ItemRow
<1>3. MailItem(x)[1] = "mail_item" /\ MailItem(x)[2] = x BY DEF MailItem
<1>4. MailItemTo(x)[1] = "mail_item_to" /\ MailItemTo(x)[2] = x BY DEF MailItemTo
<1>5. GivenUp(x)[1] = "given_up" /\ GivenUp(x)[2] = x BY DEF GivenUp
<1>6. AuctionRow(x)[1] = "auction" /\ AuctionRow(x)[2] = x BY DEF AuctionRow
<1>7. BidRow(x)[1] = "auction_bid" /\ BidRow(x)[2] = x BY DEF BidRow
<1>8. MailRow(x)[1] = "mail" /\ MailRow(x)[2] = x BY DEF MailRow
<1>9. MailTo(x)[1] = "mail_to" /\ MailTo(x)[2] = x BY DEF MailTo
<1>10. MailMoney(x)[1] = "mail_money" /\ MailMoney(x)[2] = x BY DEF MailMoney
<1>11. MailCod(x)[1] = "mail_cod" /\ MailCod(x)[2] = x BY DEF MailCod
<1>12. Fees[1] = "fees" BY DEF Fees
<1> QED BY <1>1, <1>2, <1>3, <1>4, <1>5, <1>6, <1>7, <1>8, <1>9, <1>10, <1>11, <1>12

\* Rows of the right type, put together, are of the right type.
LEMMA OverTyped == ASSUME NEW f, NEW g, Typed(f), Typed(g) PROVE Typed(f ++ g)
<1> DEFINE h == f ++ g
<1>1. /\ DOMAIN h = DOMAIN f \cup DOMAIN g
      /\ \A r \in DOMAIN f : h[r] = f[r]
      /\ \A r \in DOMAIN g : r \notin DOMAIN f => h[r] = g[r]
    BY Over
<1> HIDE DEF h
<1>2. Typed(h) BY <1>1, Zenon DEF Typed
<1> QED BY <1>2 DEF h

\* Two parts of a transaction that keep the columns of a mail together do so
\* when they are put together.
LEMMA OverGood == ASSUME NEW f, NEW g, Good(f), Good(g) PROVE Good(f ++ g)
<1> DEFINE h == f ++ g
<1>0. h = [r \in DOMAIN h |-> h[r]] BY DEF ++
<1>1. Typed(h) BY OverTyped DEF Good
<1>2. /\ DOMAIN h = DOMAIN f \cup DOMAIN g
      /\ \A r \in DOMAIN f : h[r] = f[r]
      /\ \A r \in DOMAIN g : r \notin DOMAIN f => h[r] = g[r]
    BY Over
<1> HIDE DEF h
<1>3. ASSUME NEW m \in MailId, MailRow(m) \in DOMAIN h, h[MailRow(m)] PROVE MailTo(m) \in DOMAIN h
    BY <1>2, <1>3 DEF Good, Mated
<1>4. ASSUME NEW m \in MailId, MailCod(m) \in DOMAIN h, h[MailCod(m)] # 0
      PROVE  MailTo(m) \in DOMAIN h /\ h[MailTo(m)].normal
    BY <1>2, <1>4 DEF Good, Mated
<1>5. ASSUME NEW m \in MailId, MailTo(m) \in DOMAIN h
      PROVE  /\ h[MailTo(m)] \in AddressType
             /\ h[MailTo(m)].normal \/ (MailCod(m) \in DOMAIN h /\ h[MailCod(m)] = 0)
    BY <1>2, <1>5 DEF Good, Mated
<1>6. Mated(h) BY <1>3, <1>4, <1>5 DEF Mated
<1> QED BY <1>0, <1>1, <1>6 DEF Good, h

\* A transaction leaves tables of the right type.
LEMMA OverTable == ASSUME NEW f, NEW d, Good(f), GoodTable(d) PROVE GoodTable(f ++ d)
<1> DEFINE h == f ++ d
<1>1. Typed(h) BY OverTyped DEF Good, GoodTable
<1>2. /\ DOMAIN h = DOMAIN f \cup RowNames
      /\ \A r \in DOMAIN f : h[r] = f[r]
      /\ \A r \in RowNames : r \notin DOMAIN f => h[r] = d[r]
    BY Over DEF GoodTable
<1>3. DOMAIN h = RowNames BY <1>2 DEF Good, Typed
<1> HIDE DEF h
<1>4. ASSUME NEW m \in MailId, h[MailRow(m)] PROVE h[MailTo(m)] \in AddressType
    BY <1>2, <1>4, RowKinds DEF Good, Mated, GoodTable
<1>5. ASSUME NEW m \in MailId, h[MailCod(m)] # 0
      PROVE  h[MailTo(m)] \in AddressType /\ h[MailTo(m)].normal
    BY <1>2, <1>5, RowKinds DEF Good, Mated, GoodTable
<1> QED BY <1>1, <1>3, <1>4, <1>5 DEF GoodTable, h

\* What is left of a sum in 32 bits.
LEMMA Uint32Nat == ASSUME NEW c \in Nat PROVE Uint32(c) \in Nat
<1>1. PICK w \in Nat : w = 2 * Half /\ w > 0 BY MailAssumption
<1>2. c % w \in 0 .. w - 1 BY <1>1
<1> QED BY <1>1, <1>2 DEF Uint32

\* Prices are sums, and 0 is one of them.
LEMMA CodesNat == Codes \subseteq Nat /\ 0 \in Codes
<1>1. \A c \in Amounts : c \in Nat BY MailAssumption
<1>2. \A c \in Amounts : Uint32(c) \in Nat BY <1>1, Uint32Nat
<1> QED BY <1>2 DEF Codes

\* The type of the rows of each kind.
LEMMA RowTypeOf ==
    /\ RowType["gold"] = 0 .. MaxMoney /\ RowType["item"] = Player \cup {Nobody}
    /\ RowType["mail"] = BOOLEAN /\ RowType["mail_to"] = AddressType \cup {NoMail}
    /\ RowType["mail_money"] = Nat /\ RowType["mail_cod"] = Codes
    /\ RowType["mail_item"] = MailId \cup {NoMail}
    /\ RowType["mail_item_to"] = Player \cup {Nobody}
    /\ RowType["given_up"] = BOOLEAN /\ RowType["fees"] = Int
    /\ RowType["auction"] = ListingRecord \cup {NoAuction}
    /\ RowType["auction_bid"] = [bidder : Player \cup {Nobody}, bid : Nat]
  BY DEF RowType

\* What the tables say of a mail and of an item.
LEMMA TableTypes ==
    ASSUME NEW d, DOMAIN d = RowNames, Typed(d)
    PROVE  /\ \A p \in Player : d[GoldRow(p)] \in 0 .. MaxMoney
           /\ \A i \in Item : /\ d[ItemRow(i)] \in Player \cup {Nobody}
                              /\ d[MailItem(i)] \in MailId \cup {NoMail}
                              /\ d[MailItemTo(i)] \in Player \cup {Nobody}
                              /\ d[GivenUp(i)] \in BOOLEAN
                              /\ d[AuctionRow(i)] \in ListingRecord \cup {NoAuction}
                              /\ d[BidRow(i)] \in [bidder : Player \cup {Nobody}, bid : Nat]
           /\ \A m \in MailId : /\ d[MailRow(m)] \in BOOLEAN
                                /\ d[MailTo(m)] \in AddressType \cup {NoMail}
                                /\ d[MailMoney(m)] \in Nat /\ d[MailCod(m)] \in Codes
           /\ d[Fees] \in Int
<1>1. \A r \in RowNames : d[r] \in RowType[r[1]] BY DEF Typed
<1>3. \A p \in Player : d[GoldRow(p)] \in 0 .. MaxMoney BY <1>1, RowTypeOf, RowKinds
<1>4. \A i \in Item : /\ d[ItemRow(i)] \in Player \cup {Nobody}
                      /\ d[MailItem(i)] \in MailId \cup {NoMail}
                      /\ d[MailItemTo(i)] \in Player \cup {Nobody}
    BY <1>1, RowTypeOf, RowKinds
<1>5. \A i \in Item : d[GivenUp(i)] \in BOOLEAN
    BY <1>1, RowTypeOf, RowKinds
<1>6. \A i \in Item : /\ d[AuctionRow(i)] \in ListingRecord \cup {NoAuction}
                      /\ d[BidRow(i)] \in [bidder : Player \cup {Nobody}, bid : Nat]
    BY <1>1, RowTypeOf, RowKinds
<1>7. \A m \in MailId : /\ d[MailRow(m)] \in BOOLEAN
                        /\ d[MailTo(m)] \in AddressType \cup {NoMail}
                        /\ d[MailMoney(m)] \in Nat /\ d[MailCod(m)] \in Codes
    BY <1>1, RowTypeOf, RowKinds
<1>8. d[Fees] \in Int BY <1>1, RowTypeOf, RowKinds
<1> QED BY <1>3, <1>4, <1>5, <1>6, <1>7, <1>8
-----------------------------------------------------------------------------
(***************************************************************************)
(* The transactions as members of a set.                                   *)
(***************************************************************************)

RowValues == UNION {RowType[k] : k \in DOMAIN RowType}
RowSets == UNION {[D -> RowValues] : D \in SUBSET RowNames}
EntryType ==
    {e \in [load : Player \cup {Nobody}, rows : RowSets] :
        Good(e.rows) /\ (e.load # Nobody => DOMAIN e.rows = {})}

\* A good transaction or query is one of them.
LEMMA GoodEntry ==
    ASSUME NEW f, Good(f), NEW p \in Player \cup {Nobody}, p # Nobody => DOMAIN f = {}
    PROVE  [load |-> p, rows |-> f] \in EntryType
<1>1. DOMAIN f \in SUBSET RowNames BY DEF Good, Typed
<1>2. \A r \in RowNames : r[1] \in DOMAIN RowType
    BY DEF RowNames, RowType, Fees
<1>3. \A r \in DOMAIN f : f[r] \in RowValues
    BY <1>1, <1>2 DEF Good, Typed, RowValues
<1>4. f \in [DOMAIN f -> RowValues] BY <1>3 DEF Good
<1>5. f \in RowSets BY <1>1, <1>4 DEF RowSets
<1> QED BY <1>5 DEF EntryType

\* A statement that writes one row.
LEMMA GoodWrite ==
    ASSUME NEW r \in RowNames, NEW v \in RowType[r[1]],
           r[1] \notin {"mail", "mail_to", "mail_cod"}
    PROVE  Good(Write(r, v))
<1> DEFINE f == Write(r, v)
<1>1. f = [x \in DOMAIN f |-> f[x]] BY DEF Write
<1>2. DOMAIN f = {r} /\ f[r] = v BY Single
<1> HIDE DEF f
<1>3. Typed(f) BY <1>2 DEF Typed
<1>4. \A m \in MailId : {MailRow(m), MailTo(m), MailCod(m)} \cap DOMAIN f = {}
    BY <1>2, RowKinds
<1>5. Mated(f) BY <1>4 DEF Mated
<1> QED BY <1>1, <1>3, <1>5 DEF Good, f
\* The statements about players, items and auctions.
LEMMA GoodItems ==
    ASSUME NEW i \in Item
    PROVE  /\ \A v \in Player \cup {Nobody} : Good(Write(ItemRow(i), v))
           /\ \A v \in MailId \cup {NoMail} : Good(Write(MailItem(i), v))
           /\ \A v \in Player \cup {Nobody} : Good(Write(MailItemTo(i), v))
           /\ \A v \in BOOLEAN : Good(Write(GivenUp(i), v))
           /\ \A v \in ListingRecord \cup {NoAuction} : Good(Write(AuctionRow(i), v))
           /\ \A v \in [bidder : Player \cup {Nobody}, bid : Nat] : Good(Write(BidRow(i), v))
<1>1. \A v \in Player \cup {Nobody} : Good(Write(ItemRow(i), v))
    BY GoodWrite, RowKinds, RowTypeOf
<1>2. \A v \in MailId \cup {NoMail} : Good(Write(MailItem(i), v))
    BY GoodWrite, RowKinds, RowTypeOf
<1>3. \A v \in Player \cup {Nobody} : Good(Write(MailItemTo(i), v))
    BY GoodWrite, RowKinds, RowTypeOf
<1>4. \A v \in BOOLEAN : Good(Write(GivenUp(i), v))
    BY GoodWrite, RowKinds, RowTypeOf
<1>5. \A v \in ListingRecord \cup {NoAuction} : Good(Write(AuctionRow(i), v))
    BY GoodWrite, RowKinds, RowTypeOf
<1>6. \A v \in [bidder : Player \cup {Nobody}, bid : Nat] : Good(Write(BidRow(i), v))
    BY GoodWrite, RowKinds, RowTypeOf
<1> QED BY <1>1, <1>2, <1>3, <1>4, <1>5, <1>6

\* The money of a player, of a mail and of the server.
LEMMA GoodMoney ==
    /\ \A p \in Player : \A m : m[p] \in 0 .. MaxMoney => Good(GoldRows({p}, m))
    /\ \A m \in MailId, v \in Nat : Good(Write(MailMoney(m), v))
    /\ \A v \in Int : Good(Write(Fees, v))
<1>1. ASSUME NEW p \in Player, NEW m, m[p] \in 0 .. MaxMoney PROVE Good(GoldRows({p}, m))
    <2>1. GoldRow(p)[2] = p BY DEF GoldRow
    <2>2. GoldRows({p}, m) = Write(GoldRow(p), m[p]) BY <2>1 DEF GoldRows, Write
    <2>3. Good(Write(GoldRow(p), m[p])) BY <1>1, GoodWrite, RowKinds, RowTypeOf
    <2> QED BY <2>2, <2>3
<1>2. \A m \in MailId, v \in Nat : Good(Write(MailMoney(m), v))
    BY GoodWrite, RowKinds, RowTypeOf
<1>3. \A v \in Int : Good(Write(Fees, v)) BY GoodWrite, RowKinds, RowTypeOf
<1> QED BY <1>1, <1>2, <1>3

\* A mail is deleted; its item costs nothing more; nothing is written.
LEMMA GoodDeletes ==
    /\ \A m \in MailId : Good(Write(MailRow(m), FALSE)) /\ Good(Write(MailCod(m), 0))
    /\ Good(NoRows)
<1>1. ASSUME NEW m \in MailId, NEW r \in {MailRow(m), MailCod(m)}, NEW v,
             r = MailRow(m) => v = FALSE, r = MailCod(m) => v = 0
      PROVE  Good(Write(r, v))
    <2> DEFINE f == Write(r, v)
    <2>1. f = [x \in DOMAIN f |-> f[x]] BY DEF Write
    <2>2. DOMAIN f = {r} /\ f[r] = v BY Single
    <2> HIDE DEF f
    <2>3. r \in RowNames /\ v \in RowType[r[1]]
        <3>1. CASE r = MailRow(m)
            <4>1. v = FALSE /\ r \in RowNames /\ r[1] = "mail" BY <1>1, <3>1, RowKinds
            <4> QED BY <4>1, RowTypeOf
        <3>2. CASE r = MailCod(m)
            <4>1. v = 0 /\ r \in RowNames /\ r[1] = "mail_cod" BY <1>1, <3>2, RowKinds
            <4> QED BY <4>1, RowTypeOf, CodesNat
        <3> QED BY <1>1, <3>1, <3>2
    <2>8. Typed(f) BY <2>2, <2>3 DEF Typed
    <2>4. MailRow(m) # MailCod(m) /\ \A n \in MailId : MailTo(n) \notin DOMAIN f
        BY <1>1, <2>2, RowKinds
    <2>5. \A n \in MailId : MailRow(n) \in DOMAIN f => f[MailRow(n)] = FALSE
        BY <1>1, <2>2, RowKinds
    <2>6. \A n \in MailId : MailCod(n) \in DOMAIN f => f[MailCod(n)] = 0
        BY <1>1, <2>2, RowKinds
    <2>7. Mated(f) BY <2>4, <2>5, <2>6 DEF Mated
    <2> QED BY <2>1, <2>7, <2>8 DEF Good, f
<1>2. \A m \in MailId : MailRow(m) # MailCod(m) BY RowKinds
<1>3. Good(NoRows) BY DEF NoRows, Good, Typed, Mated
<1> QED BY <1>1, <1>2, <1>3
-----------------------------------------------------------------------------
(***************************************************************************)
(* Drafts and the mails they become.                                       *)
(***************************************************************************)

\* What SetToSeq makes of a finite set.
LEMMA SetToSeqFacts ==
    ASSUME NEW S, IsFiniteSet(S)
    PROVE  /\ SetToSeq(S) \in Seq(S) /\ Len(SetToSeq(S)) = Cardinality(S)
           /\ Cardinality(S) \in Nat
           /\ \A k, l \in 1 .. Cardinality(S) : SetToSeq(S)[k] = SetToSeq(S)[l] => k = l
           /\ \A e \in S : \E k \in 1 .. Cardinality(S) : SetToSeq(S)[k] = e
<1> DEFINE n == Cardinality(S)
           c == SetToSeq(S)
<1>1. n \in Nat /\ ExistsBijection(1 .. n, S) BY FS_CardinalityType
<1>2. \E f \in [1 .. n -> S] : IsInjective(f) BY <1>1 DEF ExistsBijection, Bijection, Injection
<1>3. c \in [1 .. n -> S] /\ IsInjective(c) BY <1>2, Zenon DEF SetToSeq
<1>4. c \in Injection(1 .. n, S) BY <1>3 DEF Injection
<1>5. IsFiniteSet(1 .. n) /\ Cardinality(1 .. n) = n
    <2>1. IsFiniteSet(1 .. n) /\ Cardinality(1 .. n) = IF 1 > n THEN 0 ELSE n - 1 + 1
        BY <1>1, FS_Interval
    <2> QED BY <1>1, <2>1
<1>6. c \in Surjection(1 .. n, S) BY <1>4, <1>5, FS_Injection
<1> HIDE DEF n, c
<1>7. c \in Seq(S) /\ Len(c) = n BY <1>1, <1>3
<1>8. \A e \in S : \E k \in 1 .. n : c[k] = e BY <1>6 DEF Surjection
<1>9. \A k, l \in 1 .. n : c[k] = c[l] => k = l BY <1>3 DEF IsInjective
<1> QED BY <1>1, <1>7, <1>8, <1>9 DEF n, c

\* The drafts get different identifiers that were free.
LEMMA IdsFacts ==
    ASSUME NEW D, NEW ds \in Seq(D), CanSend(ds)
    PROVE  /\ \A n \in DOMAIN ds : Ids(ds)[n] \in FreeIds
           /\ \A k, n \in DOMAIN ds : Ids(ds)[k] = Ids(ds)[n] => k = n
<1> DEFINE q == SetToSeq(FreeIds)
<1>1. IsFiniteSet(FreeIds) BY MailAssumption, FS_Subset DEF FreeIds
<1>2. /\ q \in Seq(FreeIds) /\ Len(q) = Cardinality(FreeIds) /\ Cardinality(FreeIds) \in Nat
      /\ \A k, l \in 1 .. Cardinality(FreeIds) : q[k] = q[l] => k = l
    BY <1>1, SetToSeqFacts
<1>3. Len(ds) \in Nat /\ DOMAIN ds = 1 .. Len(ds) /\ Len(ds) <= Cardinality(FreeIds)
    BY <1>2, LenProperties DEF CanSend
<1> HIDE DEF q
<1>4. \A k \in 1 .. Len(ds) : q[k] \in FreeIds BY <1>2, <1>3
<1>5. \A k \in 1 .. Len(ds) : SubSeq(q, 1, Len(ds))[k] = q[k]
    <2>1. \A k \in 1 .. Len(ds) - 1 + 1 : SubSeq(q, 1, Len(ds))[k] = q[1 + k - 1]
        BY <1>3, <1>4, SubSeqProperties
    <2> QED BY <1>3, <2>1
<1>6. \A k \in 1 .. Len(ds) : Ids(ds)[k] = q[k] BY <1>5 DEF Ids, q
<1> QED BY <1>2, <1>3, <1>4, <1>6
\* The rows of one mail.
ItemKeys(d) == IF d.item = NoItem THEN {} ELSE {MailItem(d.item), MailItemTo(d.item)}

\* What SendMailTo writes for one mail.
LEMMA DraftRowsFacts ==
    ASSUME NEW d, NEW m
    PROVE  /\ DOMAIN DraftRows(d, m) =
                {MailRow(m), MailTo(m), MailMoney(m), MailCod(m)} \cup ItemKeys(d)
           /\ DraftRows(d, m)[MailRow(m)] = TRUE
           /\ DraftRows(d, m)[MailTo(m)] = Address(d)
           /\ DraftRows(d, m)[MailMoney(m)] = d.money
           /\ DraftRows(d, m)[MailCod(m)] = d.cod
           /\ d.item # NoItem => /\ DraftRows(d, m)[MailItem(d.item)] = m
                                 /\ DraftRows(d, m)[MailItemTo(d.item)] = d.to
<1> DEFINE i == d.item
           e == IF i = NoItem THEN NoRows ELSE Write(MailItem(i), m) ++ Write(MailItemTo(i), d.to)
           f == Write(MailRow(m), TRUE) ++ Write(MailTo(m), Address(d))
                    ++ Write(MailMoney(m), d.money) ++ Write(MailCod(m), d.cod) ++ e
<1>1. DraftRows(d, m) = f BY DEF DraftRows
<1>2. DOMAIN e = ItemKeys(d) BY DEF ItemKeys, NoRows, ++, Write
<1>3. i # NoItem => e[MailItem(i)] = m /\ e[MailItemTo(i)] = d.to
    <2>1. MailItem(i) # MailItemTo(i) BY RowKeys
    <2> QED BY <2>1 DEF ++, Write
<1>4. \A r \in ItemKeys(d) : r \notin {MailRow(m), MailTo(m), MailMoney(m), MailCod(m)}
    BY RowKeys DEF ItemKeys
<1>5. /\ MailRow(m) # MailTo(m) /\ MailRow(m) # MailMoney(m) /\ MailRow(m) # MailCod(m)
      /\ MailTo(m) # MailMoney(m) /\ MailTo(m) # MailCod(m) /\ MailMoney(m) # MailCod(m)
    BY RowKeys
<1> HIDE DEF e, i
<1> DEFINE f1 == Write(MailRow(m), TRUE) ++ Write(MailTo(m), Address(d))
           f2 == f1 ++ Write(MailMoney(m), d.money)
           f3 == f2 ++ Write(MailCod(m), d.cod)
<1>6. /\ DOMAIN f1 = {MailRow(m), MailTo(m)} /\ f1[MailRow(m)] = TRUE
      /\ f1[MailTo(m)] = Address(d)
    BY <1>5 DEF ++, Write
<1> HIDE DEF f1
<1>7. /\ DOMAIN f2 = DOMAIN f1 \cup {MailMoney(m)} /\ \A r \in DOMAIN f1 : f2[r] = f1[r]
      /\ f2[MailMoney(m)] = d.money
    BY <1>5, <1>6 DEF ++, Write
<1> HIDE DEF f2
<1>8. /\ DOMAIN f3 = DOMAIN f2 \cup {MailCod(m)} /\ \A r \in DOMAIN f2 : f3[r] = f2[r]
      /\ f3[MailCod(m)] = d.cod
    BY <1>5, <1>6, <1>7 DEF ++, Write
<1>9. f = f3 ++ e BY DEF f1, f2
<1> HIDE DEF f3, f
<1>10. /\ DOMAIN f = DOMAIN f3 \cup DOMAIN e /\ \A r \in DOMAIN f3 : f[r] = f3[r]
       /\ \A r \in DOMAIN e : r \notin DOMAIN f3 => f[r] = e[r]
    BY <1>9 DEF ++
<1>11. DOMAIN f3 = {MailRow(m), MailTo(m), MailMoney(m), MailCod(m)} BY <1>6, <1>7, <1>8
<1>12. DOMAIN f = {MailRow(m), MailTo(m), MailMoney(m), MailCod(m)} \cup ItemKeys(d)
    BY <1>2, <1>10, <1>11
<1>13. f[MailRow(m)] = TRUE /\ f[MailTo(m)] = Address(d) /\ f[MailMoney(m)] = d.money
    BY <1>6, <1>7, <1>8, <1>10
<1>14. f[MailCod(m)] = d.cod BY <1>8, <1>10
<1>15. ASSUME i # NoItem PROVE f[MailItem(i)] = m /\ f[MailItemTo(i)] = d.to
    <2>1. MailItem(i) \in ItemKeys(d) /\ MailItemTo(i) \in ItemKeys(d)
        BY <1>15 DEF ItemKeys, i
    <2> QED BY <1>2, <1>3, <1>4, <1>10, <1>11, <1>15, <2>1
<1> QED BY <1>1, <1>12, <1>13, <1>14, <1>15 DEF i
\* The rows of the n-th of the drafts ds.
NthRows(ds, n) == DraftRows(ds[n], Ids(ds)[n])

\* The transaction writes what the drafts say; a row that only one of them
\* writes has the value that it says.
LEMMA SendRowsFacts ==
    ASSUME NEW ds
    PROVE  /\ SendRows(ds) = [r \in DOMAIN SendRows(ds) |-> SendRows(ds)[r]]
           /\ DOMAIN SendRows(ds) = UNION {DOMAIN NthRows(ds, n) : n \in DOMAIN ds}
           /\ \A r \in DOMAIN SendRows(ds) :
                \E n \in DOMAIN ds : r \in DOMAIN NthRows(ds, n) /\ SendRows(ds)[r] = NthRows(ds, n)[r]
<1> DEFINE K == UNION {DOMAIN NthRows(ds, n) : n \in DOMAIN ds}
           nth(r) == CHOOSE n \in DOMAIN ds : r \in DOMAIN NthRows(ds, n)
<1>1. SendRows(ds) = [r \in K |-> NthRows(ds, nth(r))[r]] BY Zenon DEF SendRows, NthRows
<1>2. \A r \in K : nth(r) \in DOMAIN ds /\ r \in DOMAIN NthRows(ds, nth(r)) OBVIOUS
<1> HIDE DEF nth
<1>3. DOMAIN SendRows(ds) = K /\ \A r \in K : SendRows(ds)[r] = NthRows(ds, nth(r))[r]
    BY <1>1
<1> QED BY <1>1, <1>2, <1>3

\* The columns of mail m, and that f writes them as draft d says.
MailKeys(m) == {MailRow(m), MailTo(m), MailMoney(m), MailCod(m)}
WritesMail(f, m, d) ==
    /\ MailKeys(m) \subseteq DOMAIN f
    /\ f[MailRow(m)] = TRUE /\ f[MailTo(m)] = Address(d)
    /\ f[MailMoney(m)] = d.money /\ f[MailCod(m)] = d.cod

\* The rows of the mails are the rows of the drafts; the mails are all new.
LEMMA SentMails ==
    ASSUME NEW D, NEW ds \in Seq(D), CanSend(ds)
    PROVE  /\ \A n \in DOMAIN ds : WritesMail(SendRows(ds), Ids(ds)[n], ds[n])
           /\ \A m : MailKeys(m) \cap DOMAIN SendRows(ds) # {}
                    => \E n \in DOMAIN ds : m = Ids(ds)[n]
<1> DEFINE S == SendRows(ds)
<1> USE DEF MailKeys
<1>1. /\ DOMAIN S = UNION {DOMAIN NthRows(ds, n) : n \in DOMAIN ds}
      /\ \A r \in DOMAIN S :
            \E n \in DOMAIN ds : r \in DOMAIN NthRows(ds, n) /\ S[r] = NthRows(ds, n)[r]
    BY SendRowsFacts
<1> HIDE DEF S
<1>2. \A k, n \in DOMAIN ds : Ids(ds)[k] = Ids(ds)[n] => k = n BY IdsFacts
<1>3. ASSUME NEW n \in DOMAIN ds, NEW m, MailKeys(m) \cap DOMAIN NthRows(ds, n) # {}
      PROVE  m = Ids(ds)[n]
    <2>1. PICK r \in MailKeys(m) : r \in DOMAIN NthRows(ds, n) BY <1>3
    <2>2. r \in MailKeys(Ids(ds)[n]) \cup ItemKeys(ds[n])
        BY <2>1, DraftRowsFacts DEF NthRows
    <2>3. r[1] \in {"mail", "mail_to", "mail_money", "mail_cod"} /\ r[2] = m BY RowKeys
    <2>4. r \notin ItemKeys(ds[n]) BY <2>3, RowKeys DEF ItemKeys
    <2>5. r \in MailKeys(Ids(ds)[n]) BY <2>2, <2>4
    <2>6. r[2] = Ids(ds)[n] BY <2>5, RowKeys
    <2> QED BY <2>3, <2>6
<1>4. ASSUME NEW n \in DOMAIN ds, NEW r \in MailKeys(Ids(ds)[n])
      PROVE  r \in DOMAIN S /\ S[r] = NthRows(ds, n)[r]
    <2>1. r \in DOMAIN NthRows(ds, n) BY DraftRowsFacts DEF NthRows
    <2>2. r \in DOMAIN S BY <1>1, <2>1
    <2>3. PICK k \in DOMAIN ds : r \in DOMAIN NthRows(ds, k) /\ S[r] = NthRows(ds, k)[r]
        BY <1>1, <2>2
    <2>4. Ids(ds)[n] = Ids(ds)[k] BY <1>3, <2>3
    <2> QED BY <1>2, <2>2, <2>3, <2>4
<1>5. ASSUME NEW m, MailKeys(m) \cap DOMAIN S # {} PROVE \E n \in DOMAIN ds : m = Ids(ds)[n]
    <2>1. PICK r \in MailKeys(m) : r \in DOMAIN S BY <1>5
    <2>2. PICK n \in DOMAIN ds : r \in DOMAIN NthRows(ds, n) BY <1>1, <2>1
    <2> QED BY <1>3, <2>1, <2>2
<1>6. ASSUME NEW n \in DOMAIN ds
      PROVE  WritesMail(S, Ids(ds)[n], ds[n])
    <2> DEFINE m == Ids(ds)[n]
    <2>1. /\ NthRows(ds, n)[MailRow(m)] = TRUE /\ NthRows(ds, n)[MailTo(m)] = Address(ds[n])
          /\ NthRows(ds, n)[MailMoney(m)] = ds[n].money /\ NthRows(ds, n)[MailCod(m)] = ds[n].cod
        BY DraftRowsFacts DEF NthRows
    <2>2. \A r \in MailKeys(m) : r \in DOMAIN S /\ S[r] = NthRows(ds, n)[r] BY <1>4
    <2> QED BY <2>1, <2>2 DEF WritesMail
<1> QED BY <1>5, <1>6 DEF S

\* A mail that one can return has a sender; only such a mail has a price.
DraftType ==
    {d \in [to : Player, from : Player \cup {Nobody}, normal : BOOLEAN, returned : BOOLEAN,
            money : Nat, cod : Codes, item : Item \cup {NoItem}] :
        /\ d.normal => d.from \in Player
        /\ d.cod # 0 => d.normal}

\* Sending drafts of the right type is a good transaction.
LEMMA GoodSend ==
    ASSUME NEW ds \in Seq(DraftType), CanSend(ds) PROVE Good(SendRows(ds))
<1> DEFINE S == SendRows(ds)
<1>0. /\ \A n \in DOMAIN ds : WritesMail(S, Ids(ds)[n], ds[n])
      /\ \A m : MailKeys(m) \cap DOMAIN S # {} => \E n \in DOMAIN ds : m = Ids(ds)[n]
    BY SentMails
<1>1. S = [r \in DOMAIN S |-> S[r]] BY SendRowsFacts
<1>2. \A n \in DOMAIN ds : ds[n] \in DraftType /\ Ids(ds)[n] \in MailId
    BY IdsFacts DEF FreeIds
<1>3. \A n \in DOMAIN ds : Address(ds[n]) \in AddressType
    BY <1>2 DEF Address, DraftType, AddressType, AddressRecord
<1>4. ASSUME NEW r \in DOMAIN S PROVE r \in RowNames /\ S[r] \in RowType[r[1]]
    <2>1. PICK n \in DOMAIN ds : r \in DOMAIN NthRows(ds, n) /\ S[r] = NthRows(ds, n)[r]
        BY SendRowsFacts
    <2> DEFINE d == ds[n]
               m == Ids(ds)[n]
               f == DraftRows(d, m)
    <2>2. r \in DOMAIN f /\ S[r] = f[r] BY <2>1 DEF NthRows
    <2>3. d \in DraftType /\ m \in MailId /\ Address(d) \in AddressType BY <1>2, <1>3
    <2> HIDE DEF d, m, S
    <2>4. /\ r \in {MailRow(m), MailTo(m), MailMoney(m), MailCod(m)} \cup ItemKeys(d)
          /\ f[MailRow(m)] = TRUE /\ f[MailTo(m)] = Address(d)
          /\ f[MailMoney(m)] = d.money /\ f[MailCod(m)] = d.cod
          /\ d.item # NoItem => f[MailItem(d.item)] = m /\ f[MailItemTo(d.item)] = d.to
        BY <2>2, DraftRowsFacts
    <2>5. d.money \in Nat /\ d.cod \in Codes /\ d.to \in Player /\ d.item \in Item \cup {NoItem}
        BY <2>3 DEF DraftType
    <2> HIDE DEF f
    <2>6. CASE r \in ItemKeys(d)
        <3>1. d.item \in Item /\ r \in {MailItem(d.item), MailItemTo(d.item)}
            BY <2>5, <2>6 DEF ItemKeys
        <3> QED BY <2>2, <2>3, <2>4, <2>5, <3>1, RowKinds, RowTypeOf, MailAssumption
    <2>7. CASE r = MailRow(m)
        <3>1. r \in RowNames /\ r[1] = "mail" BY <2>3, <2>7, RowKinds
        <3>2. S[r] = TRUE BY <2>2, <2>4, <2>7
        <3> QED BY <3>1, <3>2, RowTypeOf
    <2>9. CASE r = MailTo(m) BY <2>2, <2>3, <2>4, <2>9, RowKinds, RowTypeOf
    <2>8. CASE r \in {MailMoney(m), MailCod(m)}
        BY <2>2, <2>3, <2>4, <2>5, <2>8, RowKinds, RowTypeOf
    <2> QED BY <2>4, <2>6, <2>7, <2>8, <2>9 DEF S
<1>5. ASSUME NEW m \in MailId, {MailRow(m), MailTo(m), MailCod(m)} \cap DOMAIN S # {}
      PROVE  /\ MailTo(m) \in DOMAIN S /\ S[MailTo(m)] \in AddressType
             /\ MailCod(m) \in DOMAIN S /\ (S[MailCod(m)] # 0 => S[MailTo(m)].normal)
    <2> HIDE DEF S
    <2>1. PICK n \in DOMAIN ds : m = Ids(ds)[n] BY <1>0, <1>5 DEF MailKeys
    <2>2. /\ MailTo(m) \in DOMAIN S /\ MailCod(m) \in DOMAIN S
          /\ S[MailTo(m)] = Address(ds[n]) /\ S[MailCod(m)] = ds[n].cod
        BY <1>0, <2>1 DEF WritesMail, MailKeys
    <2>3. ds[n].cod # 0 => Address(ds[n]).normal BY <1>2 DEF DraftType, Address
    <2> QED BY <1>3, <2>2, <2>3
<1> HIDE DEF S
<1>6. Mated(S) BY <1>5 DEF Mated
<1> QED BY <1>1, <1>4, <1>6 DEF Good, Typed, S
-----------------------------------------------------------------------------
(***************************************************************************)
(* The type invariant.                                                     *)
(***************************************************************************)

MailType ==
    {x \in MailRecord :
        x.address \in AddressType /\ x.cod \in Codes /\ (x.cod # 0 => x.address.normal)}
Boxes == UNION {[D -> MailType] : D \in SUBSET MailId}

PlayersTyped ==
    /\ online \subseteq Player /\ (~Up => online = {})
    /\ inv \in [Player -> SUBSET Item] /\ money \in [Player -> 0 .. MaxMoney]
    /\ box \in [Player -> Boxes]
    /\ \A p \in Player \ online : inv[p] = {} /\ money[p] = 0 /\ DOMAIN box[p] = {}

HouseTyped ==
    /\ world \in {"down", "loading", "up"} /\ crashes \in 0 .. MaxCrashes
    /\ auction \in [Item -> AuctionRecord \cup {NoAuction}] /\ aitems \subseteq Item

\* There are queries only while the world is open.
TablesTyped ==
    /\ GoodTable(db) /\ queue \in Seq(EntryType) /\ Len(queue) <= MaxQueue
    /\ ~Up => \A k \in DOMAIN queue : queue[k].load = Nobody

TypeInv == PlayersTyped /\ HouseTyped /\ TablesTyped

\* It is what TypeOK asks for, and more.
LEMMA TypeInvOK == TypeInv => TypeOK
<1> SUFFICES ASSUME TypeInv PROVE TypeOK OBVIOUS
<1> USE DEF TypeInv, PlayersTyped, HouseTyped, TablesTyped
<1>1. StoreTypeOK BY DEF StoreTypeOK
<1>2. \A p \in Player : \A m \in DOMAIN box[p] : box[p][m] \in MailRecord
    BY DEF Boxes, MailType
<1>3. \A i \in Item : OnSale(i) => auction[i] \in AuctionRecord BY DEF OnSale
<1> QED BY <1>1, <1>2, <1>3 DEF TypeOK

\* A mailbox holds mails.
LEMMA BoxFacts ==
    ASSUME PlayersTyped, NEW p \in Player
    PROVE  /\ box[p] \in Boxes /\ DOMAIN box[p] \subseteq MailId
           /\ \A m \in DOMAIN box[p] :
                /\ box[p][m] \in MailType /\ box[p][m].address \in AddressType
                /\ box[p][m].money \in Nat /\ box[p][m].cod \in Nat \cap Codes
                /\ box[p][m].item \in Item \cup {NoItem}
                /\ box[p][m].cod # 0 \/ box[p][m].address.normal => box[p][m].address.from \in Player
<1>1. box[p] \in Boxes BY DEF PlayersTyped
<1>2. PICK D \in SUBSET MailId : box[p] \in [D -> MailType] BY <1>1 DEF Boxes
<1> QED BY <1>1, <1>2, CodesNat DEF MailType, MailRecord, AddressType, AddressRecord

\* Delivered mails have their type.
LEMMA DeliverType ==
    ASSUME NEW bx \in [Player -> Boxes], NEW ds \in Seq(DraftType), CanSend(ds)
    PROVE  /\ Deliver(bx, ds) \in [Player -> Boxes]
           /\ \A p \in Player \ online : Deliver(bx, ds)[p] = bx[p]
<1> DEFINE News(p) == {Ids(ds)[k] : k \in {n \in DOMAIN ds : ds[n].to = p}}
           nth(m) == CHOOSE n \in DOMAIN ds : Ids(ds)[n] = m
           mail(d) == [address |-> Address(d), money |-> d.money, cod |-> d.cod,
                       item |-> d.item, deleted |-> FALSE]
           fresh(p) == [m \in News(p) |-> mail(ds[nth(m)])]
<1>1. Deliver(bx, ds) = [p \in Player |-> IF p \notin online THEN bx[p] ELSE bx[p] ++ fresh(p)]
    BY Zenon DEF Deliver
<1>2. \A n \in DOMAIN ds : Ids(ds)[n] \in MailId /\ ds[n] \in DraftType
    BY IdsFacts DEF FreeIds
<1>3. ASSUME NEW d \in DraftType PROVE mail(d) \in MailType
    <2>1. Address(d) \in AddressType /\ (d.cod # 0 => Address(d).normal)
        BY DEF DraftType, Address, AddressType, AddressRecord
    <2>2. /\ mail(d).address = Address(d) /\ mail(d).cod = d.cod
          /\ d.money \in Nat /\ d.cod \in Codes /\ d.cod \in Nat /\ d.item \in Item \cup {NoItem}
        BY CodesNat DEF DraftType
    <2>3. mail(d) \in MailRecord BY <2>1, <2>2 DEF MailRecord, AddressType, AddressRecord
    <2> QED BY <2>1, <2>2, <2>3 DEF MailType
<1> HIDE DEF mail
<1>4. ASSUME NEW p \in Player PROVE bx[p] ++ fresh(p) \in Boxes
    <2>1. \A m \in News(p) : m \in MailId /\ nth(m) \in DOMAIN ds BY <1>2
    <2>2. \A m \in News(p) : ds[nth(m)] \in DraftType BY <1>2, <2>1
    <2> HIDE DEF nth, News
    <2>3. \A m \in News(p) : mail(ds[nth(m)]) \in MailType BY <1>3, <2>2
    <2>4. PICK D \in SUBSET MailId : bx[p] \in [D -> MailType] BY DEF Boxes
    <2>5. bx[p] ++ fresh(p) \in [D \cup News(p) -> MailType] BY <2>3, <2>4 DEF ++
    <2>6. D \cup News(p) \in SUBSET MailId BY <2>1, <2>4
    <2> HIDE DEF fresh
    <2> QED BY <2>5, <2>6 DEF Boxes
<1> HIDE DEF fresh
<1> QED BY <1>1, <1>4
\* A row has its type in the end.
LEMMA LatestTyped ==
    ASSUME TablesTyped, NEW r \in RowNames
    PROVE  Latest(r) \in RowType[r[1]]
<1>1. db[r] \in RowType[r[1]] BY DEF TablesTyped, GoodTable, Typed
<1>2. ASSUME NEW k \in DOMAIN queue, r \in DOMAIN queue[k].rows
      PROVE  queue[k].rows[r] \in RowType[r[1]]
    <2>1. queue[k] \in EntryType BY DEF TablesTyped
    <2>2. Typed(queue[k].rows) BY <2>1 DEF EntryType, Good
    <2> QED BY <1>2, <2>2 DEF Typed
<1>3. queue \in Seq(EntryType) BY DEF TablesTyped
<1> QED BY <1>1, <1>2, <1>3, LatestType

\* A fee is an integer.
LEMMA GoodFee ==
    ASSUME TablesTyped, NEW g \in Int PROVE Good(Fee(g))
<1>1. Latest(Fees) \in Int BY LatestTyped, RowKinds, RowTypeOf
<1> QED BY <1>1, GoodMoney DEF Fee

\* So is the money that goes with deleted mails; their rows are deleted whole.
LEMMA GoodDelete ==
    ASSUME PlayersTyped, NEW p \in Player, NEW ms, ms \subseteq DOMAIN box[p]
    PROVE  Good(DeleteRows(p, ms)) /\ MoneyIn(p, ms) \in Int
<1>1. /\ ms \subseteq MailId
      /\ \A m \in ms : box[p][m].money \in Nat /\ box[p][m].item \in Item \cup {NoItem}
    BY BoxFacts
<1>2. MoneyIn(p, ms) \in Int
    <2> DEFINE f == [m \in ms |-> box[p][m].money]
    <2>1. IsFiniteSet(ms) BY <1>1, MailAssumption, FS_Subset
    <2>2. \A m \in ms : f[m] \in Int BY <1>1
    <2> HIDE DEF f
    <2>3. SumOn(ms, f) \in Int BY <2>1, <2>2, SumParts
    <2> QED BY <2>3 DEF MoneyIn, SumOn, f
<1> DEFINE items == {box[p][m].item : m \in ms} \ {NoItem}
           a == [r \in {MailRow(m) : m \in ms} |-> FALSE]
           b == [r \in {MailItem(i) : i \in items} |-> NoMail]
           c == [r \in {GivenUp(i) : i \in items} |-> TRUE]
<1>3. DeleteRows(p, ms) = (a ++ b) ++ c BY Zenon DEF DeleteRows
<1>4. items \subseteq Item BY <1>1
<1> HIDE DEF items
<1>5. Good(a)
    <2>1. \A r \in DOMAIN a : r \in RowNames /\ r[1] = "mail" /\ a[r] = FALSE BY <1>1, RowKinds
    <2>2. a = [r \in DOMAIN a |-> a[r]] OBVIOUS
    <2> HIDE DEF a
    <2>3. Typed(a) BY <2>1, RowTypeOf DEF Typed
    <2>4. \A m \in MailId : MailTo(m) \notin DOMAIN a /\ MailCod(m) \notin DOMAIN a BY <2>1, RowKinds
    <2>5. Mated(a) BY <2>1, <2>4 DEF Mated
    <2> QED BY <2>2, <2>3, <2>5 DEF Good
<1>6. Good(b)
    <2>1. \A r \in DOMAIN b : r \in RowNames /\ r[1] = "mail_item" /\ b[r] = NoMail
        BY <1>4, RowKinds
    <2>2. b = [r \in DOMAIN b |-> b[r]] OBVIOUS
    <2> HIDE DEF b
    <2>3. Typed(b) BY <2>1, RowTypeOf DEF Typed
    <2>4. \A m \in MailId : /\ MailRow(m) \notin DOMAIN b /\ MailTo(m) \notin DOMAIN b
                            /\ MailCod(m) \notin DOMAIN b
        BY <2>1, RowKinds
    <2>5. Mated(b) BY <2>4 DEF Mated
    <2> QED BY <2>2, <2>3, <2>5 DEF Good
<1>7. Good(c)
    <2>1. \A r \in DOMAIN c : r \in RowNames /\ r[1] = "given_up" /\ c[r] = TRUE
        BY <1>4, RowKinds
    <2>2. c = [r \in DOMAIN c |-> c[r]] OBVIOUS
    <2> HIDE DEF c
    <2>3. Typed(c) BY <2>1, RowTypeOf DEF Typed
    <2>4. \A m \in MailId : /\ MailRow(m) \notin DOMAIN c /\ MailTo(m) \notin DOMAIN c
                            /\ MailCod(m) \notin DOMAIN c
        BY <2>1, RowKinds
    <2>5. Mated(c) BY <2>4 DEF Mated
    <2> QED BY <2>2, <2>3, <2>5 DEF Good
<1> HIDE DEF a, b, c
<1>8. Good((a ++ b) ++ c) BY <1>5, <1>6, <1>7, OverGood
<1> QED BY <1>2, <1>3, <1>8

\* A commit of a good transaction keeps the tables typed.
LEMMA CommitKeeps ==
    ASSUME TablesTyped, NEW f, Good(f), Commit(f), db' = db, world' = world
    PROVE  TablesTyped'
<1> DEFINE e == [load |-> Nobody, rows |-> f]
<1>1. e \in EntryType /\ e.load = Nobody BY GoodEntry
<1>2. queue' = Append(queue, e) /\ Len(queue) < MaxQueue BY DEF Commit
<1> HIDE DEF e
<1>3. queue \in Seq(EntryType) /\ MaxQueue \in Nat BY StoreAssumption DEF TablesTyped
<1>4. queue' \in Seq(EntryType) /\ Len(queue') <= MaxQueue BY <1>1, <1>2, <1>3
<1>5. \A k \in DOMAIN queue' : queue'[k] = e \/ (k \in DOMAIN queue /\ queue'[k] = queue[k])
    BY <1>1, <1>2, <1>3
<1>6. ~Up' => \A k \in DOMAIN queue' : queue'[k].load = Nobody
    BY <1>1, <1>5 DEF TablesTyped, Up
<1> QED BY <1>4, <1>6 DEF TablesTyped

\* So do several transactions at once.
LEMMA EntriesKeep ==
    ASSUME TablesTyped, NEW es \in Seq(EntryType), \A k \in DOMAIN es : es[k].load = Nobody,
           queue' = queue \o es, Len(queue) + Len(es) <= MaxQueue, db' = db,
           Up => Up'
    PROVE  TablesTyped'
<1>1. queue \in Seq(EntryType) BY DEF TablesTyped
<1>2. queue' \in Seq(EntryType) /\ Len(queue') = Len(queue) + Len(es)
    BY <1>1, ConcatProperties
<1>3. ASSUME NEW k \in DOMAIN queue'
      PROVE  \/ k \in DOMAIN queue /\ queue'[k] = queue[k]
             \/ \E l \in DOMAIN es : queue'[k] = es[l]
    <2>1. /\ Len(queue) \in Nat /\ Len(es) \in Nat
          /\ DOMAIN queue' = 1 .. Len(queue) + Len(es)
          /\ DOMAIN queue = 1 .. Len(queue) /\ DOMAIN es = 1 .. Len(es)
        BY <1>1, <1>2, LenProperties
    <2>2. queue'[k] = IF k <= Len(queue) THEN queue[k] ELSE es[k - Len(queue)]
        BY <1>1, <2>1, ConcatProperties
    <2> QED BY <1>3, <2>1, <2>2
<1> QED BY <1>2, <1>3 DEF TablesTyped
\* One entry for each member of a finite set.
LEMMA EntrySet ==
    ASSUME NEW S, IsFiniteSet(S), NEW g \in [S -> EntryType], NEW T, T = {g[i] : i \in S}
    PROVE  /\ SetToSeq(T) \in Seq(EntryType) /\ Len(SetToSeq(T)) <= Cardinality(S)
           /\ \A k \in DOMAIN SetToSeq(T) : SetToSeq(T)[k] \in T
<1>1. g \in Surjection(S, T) BY DEF Surjection
<1>2. IsFiniteSet(T) /\ Cardinality(T) <= Cardinality(S) BY <1>1, FS_Surjection
<1>3. SetToSeq(T) \in Seq(T) /\ Len(SetToSeq(T)) = Cardinality(T) BY <1>2, SetToSeqFacts
<1>4. T \subseteq EntryType OBVIOUS
<1> DEFINE q == SetToSeq(T)
<1> HIDE DEF q
<1>5. q \in Seq(T) BY <1>3 DEF q
<1>6. q \in Seq(EntryType) /\ \A k \in DOMAIN q : q[k] \in T BY <1>4, <1>5
<1> QED BY <1>2, <1>3, <1>6 DEF q

\* The cut is at most the bid.
LEMMA CutBound ==
    ASSUME NEW b \in Nat PROVE GetAuctionCut(b) \in Nat /\ GetAuctionCut(b) <= b
<1>1. CutPct \in 0 .. 100 BY AuctionAssumption
<1>2. b * CutPct \in Nat /\ b * CutPct <= b * 100 BY <1>1
<1>3. \A x \in Nat : x <= b * 100 => x \div 100 \in Nat /\ x \div 100 <= b OBVIOUS
<1> QED BY <1>2, <1>3 DEF GetAuctionCut

\* ModifyMoney keeps the money of a player within its limits.
LEMMA MoneyBounds ==
    ASSUME NEW m \in 0 .. MaxMoney, NEW d \in Nat
    PROVE  Paid(m, d) \in 0 .. MaxMoney /\ Received(m, d) \in 0 .. MaxMoney
  BY StoreAssumption DEF Paid, Received

\* So it does with a difference of either sign.
LEMMA ModifyBounds ==
    ASSUME NEW m \in 0 .. MaxMoney, NEW d \in Int PROVE ModifyMoney(m, d) \in 0 .. MaxMoney
<1>1. CASE d < 0
    <2>1. PICK e \in Nat : e = -d BY <1>1
    <2>2. Paid(m, e) \in 0 .. MaxMoney BY MoneyBounds
    <2> QED BY <1>1, <2>1, <2>2 DEF ModifyMoney
<1>2. CASE ~(d < 0)
    <2>1. d \in Nat BY <1>2
    <2>2. Received(m, d) \in 0 .. MaxMoney BY <2>1, MoneyBounds
    <2> QED BY <1>2, <2>2 DEF ModifyMoney
<1> QED BY <1>1, <1>2

\* What the price of a mail changes the money by.
LEMMA MinusInts == ASSUME NEW c \in Nat PROVE MinusInt32(c) \subseteq Int
<1>1. Uint32(c) \in Int /\ Half \in Int BY Uint32Nat, MailAssumption
<1>2. Int32(c) \in Int BY <1>1 DEF Int32
<1> QED BY <1>1, <1>2 DEF MinusInt32

\* The drafts of players and of the auction house.
LEMMA DraftTyped ==
    ASSUME NEW to \in Player, NEW g \in Nat, NEW i \in Item \cup {NoItem}
    PROVE  /\ AuctionDraft(to, g, i) \in DraftType
           /\ \A from \in Player, cod \in Codes, returned \in BOOLEAN :
                Draft(to, from, TRUE, returned, g, cod, i) \in DraftType
  BY CodesNat DEF AuctionDraft, Draft, DraftType

\* Sequences of drafts.
LEMMA DraftSeqs ==
    /\ <<>> \in Seq(DraftType)
    /\ \A d \in DraftType : <<d>> \in Seq(DraftType)
    /\ \A x, y \in Seq(DraftType) : x \o y \in Seq(DraftType)
  BY ConcatProperties

\* What the handlers leave of the memory of the players.
LEMMA PlayersKeep ==
    ASSUME PlayersTyped, online' = online, world' = world, inv' \in [Player -> SUBSET Item],
           money' \in [Player -> 0 .. MaxMoney], box' \in [Player -> Boxes],
           \A q \in Player \ online :
                inv'[q] = inv[q] /\ money'[q] = money[q] /\ box'[q] = box[q]
    PROVE  PlayersTyped'
<1>1. Up' = Up BY DEF Up
<1> QED BY <1>1 DEF PlayersTyped

\* A mail is sent.
LEMMA SendTypes ==
    ASSUME TypeInv, UNCHANGED auctionVars, NEW p \in Player, NEW q \in Player,
           NEW i \in Item \cup {NoItem}, NEW g \in Amounts, NEW cod \in Amounts,
           HandleSendMail(p, q, i, g, cod)
    PROVE  TypeInv'
<1> USE DEF TypeInv
<1> DEFINE ds == <<Draft(q, p, TRUE, FALSE, g, Uint32(cod), i)>>
           m == [money EXCEPT ![p] = Paid(@, MailCost + g)]
           last == IF i = NoItem THEN NoRows ELSE Write(ItemRow(i), Nobody)
           rows == GoldRows({p}, m) ++ SendRows(ds) ++ Fee(MailCost) ++ last
<1>1. /\ p \in online /\ CanSend(ds) /\ inv' = [inv EXCEPT ![p] = @ \ {i}]
      /\ money' = m /\ box' = Deliver(box, ds) /\ Commit(rows)
      /\ online' = online /\ db' = db /\ crashes' = crashes /\ world' = world
    BY DEF HandleSendMail
<1>2. g \in Nat /\ MailCost \in Nat BY MailAssumption
<1>3. Draft(q, p, TRUE, FALSE, g, Uint32(cod), i) \in DraftType
    <2>1. PICK c \in Codes : c = Uint32(cod) BY DEF Codes
    <2>2. Draft(q, p, TRUE, FALSE, g, c, i) \in DraftType BY <1>2, DraftTyped
    <2> QED BY <2>1, <2>2
<1>4. ds \in Seq(DraftType) BY <1>3, DraftSeqs
<1>5. m \in [Player -> 0 .. MaxMoney]
    <2>1. MailCost + g \in Nat /\ money \in [Player -> 0 .. MaxMoney] BY <1>2 DEF PlayersTyped
    <2>2. Paid(money[p], MailCost + g) \in 0 .. MaxMoney BY <2>1, MoneyBounds
    <2> QED BY <2>1, <2>2
<1> HIDE DEF ds, m
<1>6. PlayersTyped'
    <2>1. box' \in [Player -> Boxes] /\ \A x \in Player \ online : box'[x] = box[x]
        BY <1>1, <1>4, DeliverType DEF PlayersTyped
    <2>2. inv' \in [Player -> SUBSET Item] /\ \A x \in Player \ online : inv'[x] = inv[x]
        BY <1>1 DEF PlayersTyped
    <2>3. \A x \in Player \ online : money'[x] = money[x] BY <1>1 DEF PlayersTyped, m
    <2> QED BY <1>1, <1>5, <2>1, <2>2, <2>3, PlayersKeep
<1>7. Good(rows)
    <2>1. Good(GoldRows({p}, m)) BY <1>5, GoodMoney
    <2>2. Good(SendRows(ds)) BY <1>1, <1>4, GoodSend
    <2>3. Good(Fee(MailCost)) BY <1>2, GoodFee
    <2>4. Good(last) BY GoodDeletes, GoodItems
    <2> HIDE DEF last
    <2> QED BY <2>1, <2>2, <2>3, <2>4, OverGood
<1> HIDE DEF rows
<1>8. TablesTyped' BY <1>1, <1>7, CommitKeeps
<1>9. HouseTyped' BY <1>1 DEF HouseTyped, auctionVars
<1> QED BY <1>6, <1>8, <1>9

\* A mail is marked, for the next save or not.
LEMMA MarkTypes ==
    ASSUME TypeInv, UNCHANGED auctionVars, NEW p \in Player, NEW m \in MailId,
           HandleMailDelete(p, m) \/ HandleMailMarkAsRead(p, m)
    PROVE  TypeInv'
<1> USE DEF TypeInv
<1>1. PICK v \in BOOLEAN : box' = [box EXCEPT ![p][m].deleted = v]
    BY DEF HandleMailDelete, HandleMailMarkAsRead
<1>2. /\ m \in DOMAIN box[p] /\ p \in online
      /\ UNCHANGED world /\ UNCHANGED <<online, inv, money, db, queue, crashes>>
    BY DEF HandleMailDelete, HandleMailMarkAsRead, InBox, storeVars
<1> DEFINE x == [box[p][m] EXCEPT !.deleted = v]
           b == [box[p] EXCEPT ![m] = x]
<1>3. box[p] \in Boxes /\ box[p][m] \in MailType BY <1>2, BoxFacts
<1>4. x \in MailType BY <1>3 DEF MailType, MailRecord, AddressType, AddressRecord
<1>5. box' = [box EXCEPT ![p] = b] BY <1>1
<1> HIDE DEF x
<1>6. b \in Boxes
    <2>1. PICK D \in SUBSET MailId : box[p] \in [D -> MailType] BY <1>3 DEF Boxes
    <2>2. b \in [D -> MailType] BY <1>4, <2>1
    <2> QED BY <2>2 DEF Boxes
<1> HIDE DEF b
<1>7. box' \in [Player -> Boxes] /\ \A q \in Player \ online : box'[q] = box[q]
    BY <1>2, <1>5, <1>6 DEF PlayersTyped
<1>8. PlayersTyped' BY <1>2, <1>7, PlayersKeep DEF PlayersTyped
<1>9. HouseTyped' /\ TablesTyped' BY <1>2 DEF HouseTyped, TablesTyped, auctionVars, Up
<1> QED BY <1>8, <1>9
\* What the handlers make of a mailbox.
LEMMA BoxParts ==
    ASSUME PlayersTyped, NEW p \in Player
    PROVE  /\ NoRows \in Boxes /\ Kept(p) \in Boxes
           /\ \A m \in MailId, x \in MailType : Write(m, x) ++ Kept(p) \in Boxes
           /\ \A m : [x \in DOMAIN box[p] \ {m} |-> box[p][x]] \in Boxes
<1>1. PICK D \in SUBSET MailId : box[p] \in [D -> MailType] BY DEF PlayersTyped, Boxes
<1>2. NoRows \in Boxes
    <2>1. NoRows \in [{} -> MailType] BY DEF NoRows
    <2> QED BY <2>1 DEF Boxes
<1> DEFINE E == D \ Deleted(p)
<1>3. Kept(p) \in [E -> MailType] BY <1>1 DEF Kept
<1>4. Kept(p) \in Boxes BY <1>1, <1>3 DEF Boxes
<1>5. ASSUME NEW m \in MailId, NEW x \in MailType PROVE Write(m, x) ++ Kept(p) \in Boxes
    <2> HIDE DEF E
    <2>1. Write(m, x) ++ Kept(p) \in [{m} \cup E -> MailType] BY <1>3 DEF ++, Write
    <2>2. {m} \cup E \in SUBSET MailId BY <1>1 DEF E
    <2> QED BY <2>1, <2>2 DEF Boxes
<1>6. ASSUME NEW m PROVE [x \in DOMAIN box[p] \ {m} |-> box[p][x]] \in Boxes
    <2>1. [x \in DOMAIN box[p] \ {m} |-> box[p][x]] \in [D \ {m} -> MailType] BY <1>1
    <2>2. D \ {m} \in SUBSET MailId BY <1>1
    <2> QED BY <2>1, <2>2 DEF Boxes
<1> QED BY <1>2, <1>4, <1>5, <1>6

\* The rows of the deleted mails.
LEMMA GoodSaveMail ==
    ASSUME PlayersTyped, NEW p \in Player
    PROVE  Good(SaveMail(p)) /\ MoneyIn(p, Deleted(p)) \in Int
<1>1. Deleted(p) \subseteq DOMAIN box[p] BY DEF Deleted
<1> QED BY <1>1, GoodDelete DEF SaveMail

\* A mail goes back to its sender, or away.
LEMMA ReturnTypes ==
    ASSUME TypeInv, UNCHANGED auctionVars, NEW p \in Player, NEW m \in MailId,
           HandleMailReturnToSender(p, m)
    PROVE  TypeInv'
<1> USE DEF TypeInv
<1> DEFINE mail == box[p][m]
           d == Draft(mail.address.from, p, TRUE, TRUE, mail.money, 0, mail.item)
           ds == IF mail.address.normal THEN <<d>> ELSE <<>>
           rest == [x \in DOMAIN box[p] \ {m} |-> box[p][x]]
           bx == [box EXCEPT ![p] = rest]
           rows == IF mail.address.normal THEN SendRows(ds) ++ Write(MailRow(m), FALSE)
                   ELSE DeleteRows(p, {m}) ++ Fee(mail.money)
<1>1. /\ p \in online /\ m \in DOMAIN box[p] /\ CanSend(ds)
      /\ box' = Deliver(bx, ds) /\ Commit(rows)
      /\ UNCHANGED <<online, inv, money, db, crashes, world>>
    BY DEF HandleMailReturnToSender, Open, InBox
<1>2. /\ mail.money \in Nat /\ mail.item \in Item \cup {NoItem}
      /\ mail.address.normal => mail.address.from \in Player
    BY <1>1, BoxFacts
<1> HIDE DEF mail
<1>3. ds \in Seq(DraftType)
    <2>1. mail.address.normal => d \in DraftType BY <1>2, DraftTyped, CodesNat
    <2> HIDE DEF d
    <2> QED BY <2>1, DraftSeqs
<1>4. bx \in [Player -> Boxes] /\ \A q \in Player \ online : bx[q] = box[q]
    <2>1. rest \in Boxes BY BoxParts
    <2> HIDE DEF rest
    <2> QED BY <1>1, <2>1 DEF PlayersTyped
<1>5. Good(rows)
    <2>1. Good(SendRows(ds)) /\ Good(Write(MailRow(m), FALSE)) BY <1>1, <1>3, GoodSend, GoodDeletes
    <2>2. {m} \subseteq DOMAIN box[p] BY <1>1
    <2>3. Good(DeleteRows(p, {m})) BY <2>2, GoodDelete
    <2>4. Good(Fee(mail.money)) BY <1>2, GoodFee
    <2> HIDE DEF ds
    <2> QED BY <2>1, <2>3, <2>4, OverGood
<1> HIDE DEF bx, ds, rows
<1>6. box' \in [Player -> Boxes] /\ \A q \in Player \ online : box'[q] = box[q]
    BY <1>1, <1>3, <1>4, DeliverType
<1>7. PlayersTyped' BY <1>1, <1>6, PlayersKeep DEF PlayersTyped
<1>8. TablesTyped' BY <1>1, <1>5, CommitKeeps
<1>9. HouseTyped' BY <1>1 DEF HouseTyped, auctionVars
<1> QED BY <1>7, <1>8, <1>9

\* The item of mail m is taken, and the money of p changes by z.
TakesItem(p, m, z) ==
    LET mail == box[p][m]
        ds == IF mail.cod > 0
              THEN <<Draft(mail.address.from, p, TRUE, TRUE, mail.cod, 0, NoItem)>>
              ELSE <<>>
        gold == [money EXCEPT ![p] = ModifyMoney(@, z)]
    IN  /\ money' = gold
        /\ Commit(GoldRows({p}, gold) ++ Write(ItemRow(mail.item), p) ++ TakenRows(p, m)
                    ++ SendRows(ds) ++ SaveMail(p) ++ Fee(MoneyIn(p, Deleted(p))))

LEMMA TakeItemChange ==
    ASSUME PlayersTyped, NEW p \in Player, NEW m, HandleMailTakeItem(p, m)
    PROVE  \E z \in Int : z \in MinusInt32(box[p][m].cod) /\ TakesItem(p, m, z)
<1>1. box[p][m].cod \in Nat BY BoxFacts DEF HandleMailTakeItem, Open, InBox
<1>2. \E z \in MinusInt32(box[p][m].cod) : TakesItem(p, m, z)
    BY DEF HandleMailTakeItem, TakesItem
<1> QED BY <1>1, <1>2, MinusInts

\* The item of a mail is taken, and its price sent.
LEMMA TakeItemTypes ==
    ASSUME TypeInv, UNCHANGED auctionVars, NEW p \in Player, NEW m \in MailId,
           HandleMailTakeItem(p, m)
    PROVE  TypeInv'
<1> USE DEF TypeInv
<1>0. PICK z \in Int : TakesItem(p, m, z) BY TakeItemChange
<1> DEFINE mail == box[p][m]
           d == Draft(mail.address.from, p, TRUE, TRUE, mail.cod, 0, NoItem)
           ds == IF mail.cod > 0 THEN <<d>> ELSE <<>>
           gold == [money EXCEPT ![p] = ModifyMoney(@, z)]
           left == [mail EXCEPT !.item = NoItem, !.cod = 0]
           bx == [box EXCEPT ![p] = Write(m, left) ++ Kept(p)]
           rows == GoldRows({p}, gold) ++ Write(ItemRow(mail.item), p) ++ TakenRows(p, m)
                     ++ SendRows(ds) ++ SaveMail(p) ++ Fee(MoneyIn(p, Deleted(p)))
<1>1. /\ p \in online /\ m \in DOMAIN box[p] /\ mail.item # NoItem /\ CanSend(ds)
      /\ inv' = [inv EXCEPT ![p] = @ \cup {mail.item}] /\ money' = gold
      /\ box' = Deliver(bx, ds) /\ Commit(rows)
      /\ UNCHANGED <<online, db, crashes, world>>
    BY <1>0 DEF HandleMailTakeItem, Open, InBox, TakesItem
<1>2. /\ mail \in MailType /\ mail.cod \in Nat \cap Codes /\ mail.item \in Item
      /\ mail.cod # 0 => mail.address.from \in Player
    BY <1>1, BoxFacts
<1>3. left \in MailType BY <1>2, CodesNat DEF MailType, MailRecord, AddressType, AddressRecord
<1>4. ds \in Seq(DraftType)
    <2>1. ASSUME mail.cod > 0 PROVE d \in DraftType
        <3>1. mail.address.from \in Player /\ NoItem \in Item \cup {NoItem} BY <1>2, <2>1
        <3> HIDE DEF mail
        <3> QED BY <1>2, <3>1, DraftTyped, CodesNat
    <2> HIDE DEF d
    <2> QED BY <2>1, DraftSeqs
<1>5. gold \in [Player -> 0 .. MaxMoney]
    <2>1. money \in [Player -> 0 .. MaxMoney] BY DEF PlayersTyped
    <2>2. ModifyMoney(money[p], z) \in 0 .. MaxMoney BY <2>1, ModifyBounds
    <2> QED BY <2>1, <2>2
<1>6. bx \in [Player -> Boxes] /\ \A q \in Player \ online : bx[q] = box[q]
    <2>1. Write(m, left) ++ Kept(p) \in Boxes BY <1>3, BoxParts
    <2> QED BY <1>1, <2>1 DEF PlayersTyped
<1>7. Good(rows)
    <2> HIDE DEF ds, gold
    <2>1. Good(GoldRows({p}, gold)) BY <1>5, GoodMoney
    <2>2. Good(Write(ItemRow(mail.item), p)) BY <1>2, GoodItems
    <2>3. Good(TakenRows(p, m))
        <3>1. Good(Write(MailItem(mail.item), NoMail)) BY <1>2, GoodItems
        <3>2. Good(Write(MailCod(m), 0)) BY GoodDeletes
        <3> QED BY <3>1, <3>2, OverGood DEF TakenRows
    <2>4. Good(SendRows(ds)) BY <1>1, <1>4, GoodSend
    <2>5. Good(SaveMail(p)) /\ Good(Fee(MoneyIn(p, Deleted(p)))) BY GoodSaveMail, GoodFee
    <2> HIDE DEF mail
    <2>6. Good(GoldRows({p}, gold) ++ Write(ItemRow(mail.item), p) ++ TakenRows(p, m))
        BY <2>1, <2>2, <2>3, OverGood
    <2> QED BY <2>4, <2>5, <2>6, OverGood
<1> HIDE DEF bx, ds, rows
<1>8. box' \in [Player -> Boxes] /\ \A q \in Player \ online : box'[q] = box[q]
    BY <1>1, <1>4, <1>6, DeliverType
<1>9. inv' \in [Player -> SUBSET Item] /\ \A q \in Player \ online : inv'[q] = inv[q]
    BY <1>1, <1>2 DEF PlayersTyped
<1>10. \A q \in Player \ online : money'[q] = money[q] BY <1>1 DEF PlayersTyped
<1>11. PlayersTyped' BY <1>1, <1>5, <1>8, <1>9, <1>10, PlayersKeep
<1>12. TablesTyped' BY <1>1, <1>7, CommitKeeps
<1>13. HouseTyped' BY <1>1 DEF HouseTyped, auctionVars
<1> QED BY <1>11, <1>12, <1>13

\* The money of a mail is taken.
LEMMA TakeMoneyTypes ==
    ASSUME TypeInv, UNCHANGED auctionVars, NEW p \in Player, NEW m \in MailId,
           NEW g \in 0 .. MaxMoney, HandleMailTakeMoney(p, m, g)
    PROVE  TypeInv'
<1> USE DEF TypeInv
<1> DEFINE mail == box[p][m]
           gold == [money EXCEPT ![p] = Received(@, g)]
           left == [mail EXCEPT !.money = 0]
           rows == GoldRows({p}, gold) ++ Write(MailMoney(m), 0) ++ SaveMail(p)
                     ++ Fee(MoneyIn(p, Deleted(p)) + mail.money - g)
<1>1. /\ p \in online /\ m \in DOMAIN box[p] /\ money' = gold
      /\ box' = [box EXCEPT ![p] = Write(m, left) ++ Kept(p)] /\ Commit(rows)
      /\ UNCHANGED <<online, inv, db, crashes, world>>
    BY DEF HandleMailTakeMoney, Open, InBox
<1>2. mail \in MailType /\ mail.money \in Nat /\ g \in Nat
    BY <1>1, BoxFacts, StoreAssumption
<1>3. left \in MailType BY <1>2 DEF MailType, MailRecord, AddressType, AddressRecord
<1>4. gold \in [Player -> 0 .. MaxMoney] BY <1>2, MoneyBounds DEF PlayersTyped
<1>5. box' \in [Player -> Boxes] /\ \A q \in Player \ online : box'[q] = box[q]
    <2>1. Write(m, left) ++ Kept(p) \in Boxes BY <1>3, BoxParts
    <2> HIDE DEF left
    <2> QED BY <1>1, <2>1 DEF PlayersTyped
<1>6. Good(rows)
    <2>1. Good(GoldRows({p}, gold)) BY <1>4, GoodMoney
    <2>2. Good(Write(MailMoney(m), 0)) BY GoodMoney
    <2>3. Good(SaveMail(p)) /\ MoneyIn(p, Deleted(p)) \in Int BY GoodSaveMail
    <2>4. Good(Fee(MoneyIn(p, Deleted(p)) + mail.money - g)) BY <1>2, <2>3, GoodFee
    <2> HIDE DEF gold, mail
    <2> QED BY <2>1, <2>2, <2>3, <2>4, OverGood
<1> HIDE DEF rows
<1>7. \A q \in Player \ online : money'[q] = money[q] BY <1>1 DEF PlayersTyped
<1>8. PlayersTyped' BY <1>1, <1>4, <1>5, <1>7, PlayersKeep DEF PlayersTyped
<1>9. TablesTyped' BY <1>1, <1>6, CommitKeeps
<1>10. HouseTyped' BY <1>1 DEF HouseTyped, auctionVars
<1> QED BY <1>8, <1>9, <1>10
\* A save and a logout write the money and the deleted mails.
LEMMA SaveTypes ==
    ASSUME TypeInv, UNCHANGED auctionVars, NEW p \in Player, SaveToDB(p) \/ Logout(p)
    PROVE  TypeInv'
<1> USE DEF TypeInv
<1>1. Good(GoldRows({p}, money)) BY GoodMoney DEF PlayersTyped
<1>2. Good(SaveMail(p)) /\ Good(Fee(MoneyIn(p, Deleted(p)))) BY GoodSaveMail, GoodFee
<1>3. CASE SaveToDB(p)
    <2> DEFINE rows == GoldRows({p}, money) ++ SaveMail(p) ++ Fee(MoneyIn(p, Deleted(p)))
    <2>1. /\ p \in online /\ box' = [box EXCEPT ![p] = Kept(p)] /\ Commit(rows)
          /\ UNCHANGED <<online, inv, money, db, crashes, world>>
        BY <1>3 DEF SaveToDB
    <2>2. Good(rows) BY <1>1, <1>2, OverGood
    <2> HIDE DEF rows
    <2>3. box' \in [Player -> Boxes] /\ \A q \in Player \ online : box'[q] = box[q]
        BY <2>1, BoxParts DEF PlayersTyped
    <2>4. PlayersTyped' BY <2>1, <2>3, PlayersKeep DEF PlayersTyped
    <2>5. TablesTyped' BY <2>1, <2>2, CommitKeeps
    <2>6. HouseTyped' BY <2>1 DEF HouseTyped, auctionVars
    <2> QED BY <2>4, <2>5, <2>6
<1>4. CASE Logout(p)
    <2> DEFINE more == SaveMail(p) ++ Fee(MoneyIn(p, Deleted(p)))
               rows == GoldRows({p}, money) ++ more
    <2>1. /\ p \in online /\ box' = [box EXCEPT ![p] = NoRows] /\ Commit(rows)
          /\ online' = online \ {p} /\ inv' = [inv EXCEPT ![p] = {}]
          /\ money' = [money EXCEPT ![p] = 0] /\ UNCHANGED <<db, crashes, world>>
        BY <1>4 DEF Logout, LogoutPlayer
    <2>2. Good(more) BY <1>2, OverGood
    <2> HIDE DEF more
    <2>3. Good(rows) BY <1>1, <2>2, OverGood
    <2> HIDE DEF rows
    <2>4. Up' = Up BY <2>1 DEF Up
    <2>5. box' \in [Player -> Boxes] /\ DOMAIN NoRows = {} BY <2>1, BoxParts DEF PlayersTyped, NoRows
    <2>6. PlayersTyped' BY <2>1, <2>4, <2>5, StoreAssumption DEF PlayersTyped
    <2>7. TablesTyped' BY <2>1, <2>3, CommitKeeps
    <2>8. HouseTyped' BY <2>1 DEF HouseTyped, auctionVars
    <2> QED BY <2>6, <2>7, <2>8
<1> QED BY <1>3, <1>4

\* A query is sent while the world is open.
LEMMA LoginTypes ==
    ASSUME TypeInv, UNCHANGED auctionVars, NEW p \in Player, Login(p)
    PROVE  TypeInv'
<1> USE DEF TypeInv
<1> DEFINE e == Query(p)
<1>1. /\ Up /\ Len(queue) < MaxQueue /\ queue' = Append(queue, e)
      /\ UNCHANGED <<online, inv, money, db, crashes, box, world>>
    BY DEF Login, LoginPlayer, mailVars
<1>2. e \in EntryType
    <2>1. Query(p) = [load |-> p, rows |-> NoRows] BY DEF Query, NoRows
    <2>2. DOMAIN NoRows = {} BY DEF NoRows
    <2> QED BY <2>1, <2>2, GoodDeletes, GoodEntry
<1> HIDE DEF e
<1>3. queue \in Seq(EntryType) /\ MaxQueue \in Nat BY StoreAssumption DEF TablesTyped
<1>4. queue' \in Seq(EntryType) /\ Len(queue') <= MaxQueue BY <1>1, <1>2, <1>3
<1>5. Up' BY <1>1 DEF Up
<1>6. TablesTyped' BY <1>1, <1>4, <1>5 DEF TablesTyped
<1>7. PlayersTyped' /\ HouseTyped' BY <1>1 DEF PlayersTyped, HouseTyped, auctionVars, Up
<1> QED BY <1>6, <1>7

\* An entry leaves the queue.
LEMMA FinishTypes ==
    ASSUME TablesTyped, NEW k, Finish(k), world' = world
    PROVE  /\ queue' \in Seq(EntryType) /\ Len(queue') <= MaxQueue
           /\ ~Up' => \A l \in DOMAIN queue' : queue'[l].load = Nobody
           /\ queue[k] \in EntryType
<1>1. queue \in Seq(EntryType) /\ k \in 1 .. Len(queue) /\ queue' = RemoveAt(queue, k)
    BY LenProperties DEF TablesTyped, Finish
<1>2. /\ queue' \in Seq(EntryType) /\ Len(queue') = Len(queue) - 1
      /\ \A l \in 1 .. Len(queue) - 1 : queue'[l] = IF l < k THEN queue[l] ELSE queue[l + 1]
    <2> DEFINE a == SubSeq(queue, 1, k - 1)
               b == SubSeq(queue, k + 1, Len(queue))
    <2>1. Len(queue) \in Nat /\ k \in Nat /\ k <= Len(queue) /\ k >= 1 BY <1>1, LenProperties
    <2>2. /\ a \in Seq(EntryType) /\ Len(a) = k - 1
          /\ \A l \in 1 .. k - 1 : a[l] = queue[l]
        BY <1>1, <2>1
    <2>3. /\ b \in Seq(EntryType) /\ Len(b) = Len(queue) - k
          /\ \A l \in 1 .. Len(queue) - k : b[l] = queue[k + l]
        BY <1>1, <2>1
    <2>4. queue' = a \o b BY <1>1, Zenon DEF RemoveAt
    <2> HIDE DEF a, b
    <2>5. queue' \in Seq(EntryType) /\ Len(queue') = Len(queue) - 1
        BY <2>1, <2>2, <2>3, <2>4
    <2>6. \A l \in 1 .. Len(queue) - 1 : queue'[l] = IF l <= k - 1 THEN a[l] ELSE b[l - (k - 1)]
        BY <2>1, <2>2, <2>3, <2>4
    <2>7. \A l \in 1 .. Len(queue) - 1 : l >= k => b[l - (k - 1)] = queue[l + 1]
        BY <2>1, <2>3
    <2>8. \A l \in 1 .. Len(queue) - 1 : l < k => a[l] = queue[l] BY <2>1, <2>2
    <2>9. \A l \in 1 .. Len(queue) - 1 : queue'[l] = IF l < k THEN queue[l] ELSE queue[l + 1]
        BY <2>1, <2>6, <2>7, <2>8
    <2> QED BY <2>5, <2>9
<1>3. DOMAIN queue' = 1 .. Len(queue) - 1 /\ DOMAIN queue = 1 .. Len(queue) /\ Len(queue) \in Nat
    BY <1>1, <1>2, LenProperties
<1>4. ASSUME NEW l \in DOMAIN queue' PROVE \E n \in DOMAIN queue : queue'[l] = queue[n]
    <2>1. l \in 1 .. Len(queue) - 1 BY <1>3
    <2>2. l \in DOMAIN queue /\ l + 1 \in DOMAIN queue BY <1>3, <2>1
    <2>3. queue'[l] = queue[l] \/ queue'[l] = queue[l + 1] BY <1>2, <2>1
    <2> QED BY <2>2, <2>3, Zenon
<1>5. ~Up' => \A l \in DOMAIN queue' : queue'[l].load = Nobody BY <1>4 DEF TablesTyped, Up
<1>6. Len(queue') <= MaxQueue /\ queue[k] \in EntryType
    BY <1>1, <1>2, <1>3, StoreAssumption DEF TablesTyped
<1> QED BY <1>2, <1>5, <1>6
\* What is loaded from the tables is a mailbox.
LEMMA LoadMailType ==
    ASSUME GoodTable(db), NEW p \in Player PROVE LoadMail(p) \in Boxes
<1> DEFINE K == {x \in MailId : db[MailRow(x)] /\ db[MailTo(x)].to = p}
           mine(m) == {i \in StoredIn(m) : db[MailItemTo(i)] = p}
           it(m) == IF mine(m) = {} THEN NoItem ELSE CHOOSE i \in mine(m) : TRUE
           mail(m) == [address |-> db[MailTo(m)], money |-> db[MailMoney(m)],
                       cod |-> db[MailCod(m)], deleted |-> FALSE, item |-> it(m)]
<1>1. LoadMail(p) = [m \in K |-> mail(m)] BY Zenon DEF LoadMail
<1>2. \A m : it(m) \in Item \cup {NoItem} BY DEF StoredIn
<1>3. ASSUME NEW m \in K PROVE mail(m) \in MailType
    <2>1. db[MailTo(m)] \in AddressType /\ (db[MailCod(m)] # 0 => db[MailTo(m)].normal)
        BY DEF GoodTable
    <2>2. db[MailMoney(m)] \in Nat /\ db[MailCod(m)] \in Codes BY TableTypes DEF GoodTable
    <2> HIDE DEF it
    <2>3. mail(m) \in MailRecord BY <1>2, <2>1, <2>2, CodesNat DEF MailRecord, AddressType, AddressRecord
    <2>4. mail(m).address = db[MailTo(m)] /\ mail(m).cod = db[MailCod(m)] OBVIOUS
    <2> HIDE DEF mail
    <2> QED BY <2>1, <2>2, <2>3, <2>4 DEF MailType
<1> HIDE DEF mail, it
<1>4. LoadMail(p) \in [K -> MailType] BY <1>1, <1>3
<1>5. K \in SUBSET MailId OBVIOUS
<1> QED BY <1>4, <1>5 DEF Boxes

\* The answer to a query: the player enters the world, which is open.
LEMMA LoadTypes ==
    ASSUME TypeInv, UNCHANGED auctionVars, NEW p \in Player, NEW k, Load(p, k)
    PROVE  TypeInv'
<1> USE DEF TypeInv
<1> DEFINE bag == {i \in Item : db[ItemRow(i)] = p}
           gold == IF db[GoldRow(p)] > MaxMoney THEN MaxMoney ELSE db[GoldRow(p)]
<1>1. /\ Finish(k) /\ queue[k].load = p /\ online' = online \cup {p}
      /\ inv' = [inv EXCEPT ![p] = bag] /\ money' = [money EXCEPT ![p] = gold]
      /\ box' = [box EXCEPT ![p] = LoadMail(p)] /\ UNCHANGED <<db, crashes, world>>
    BY DEF Load, LoadFromDB
<1>2. Up
    <2>1. k \in DOMAIN queue /\ p # Nobody BY <1>1, StoreAssumption DEF Finish
    <2> QED BY <1>1, <2>1 DEF TablesTyped
<1>3. bag \in SUBSET Item /\ gold \in 0 .. MaxMoney /\ LoadMail(p) \in Boxes
    <2>1. db[GoldRow(p)] \in 0 .. MaxMoney BY TableTypes DEF TablesTyped, GoodTable
    <2>2. LoadMail(p) \in Boxes BY LoadMailType DEF TablesTyped
    <2>3. gold \in 0 .. MaxMoney BY <2>1, StoreAssumption
    <2> QED BY <2>2, <2>3
<1>4. Up' BY <1>1, <1>2 DEF Up
<1> HIDE DEF bag, gold
<1>5. PlayersTyped' BY <1>1, <1>3, <1>4 DEF PlayersTyped
<1>6. TablesTyped' BY <1>1, FinishTypes DEF TablesTyped
<1>7. HouseTyped' BY <1>1 DEF HouseTyped, auctionVars
<1> QED BY <1>5, <1>6, <1>7

\* A transaction takes effect.
LEMMA ExecuteTypes ==
    ASSUME TypeInv, UNCHANGED auctionVars, NEW k, Execute(k), UNCHANGED mailVars
    PROVE  TypeInv'
<1> USE DEF TypeInv
<1>1. /\ Finish(k) /\ db' = queue[k].rows ++ db
      /\ UNCHANGED <<online, inv, money, crashes, box, world>>
    BY DEF Execute, mailVars
<1>2. queue[k] \in EntryType BY <1>1, FinishTypes
<1>3. Good(queue[k].rows) BY <1>2 DEF EntryType
<1>4. GoodTable(db') BY <1>1, <1>3, OverTable DEF TablesTyped
<1>5. TablesTyped' BY <1>1, <1>4, FinishTypes DEF TablesTyped
<1>6. PlayersTyped' /\ HouseTyped' BY <1>1 DEF PlayersTyped, HouseTyped, auctionVars, Up
<1> QED BY <1>5, <1>6

\* Transactions that leave the table auctionhouse alone.
MailOnly(f) == \A r \in DOMAIN f : r[1] \notin {"auction", "auction_bid"}

\* Parts of a transaction about players and mails.
LEMMA MailOnlyOver ==
    ASSUME NEW f, NEW g, MailOnly(f), MailOnly(g) PROVE MailOnly(f ++ g)
<1>1. DOMAIN (f ++ g) = DOMAIN f \cup DOMAIN g BY DEF ++
<1> QED BY <1>1, Zenon DEF MailOnly

\* The statements about players and mails.
LEMMA MailOnlyRows ==
    /\ \A x, v : /\ MailOnly(Write(ItemRow(x), v)) /\ MailOnly(Write(MailRow(x), v))
                /\ MailOnly(Write(MailMoney(x), v)) /\ MailOnly(Write(MailCod(x), v))
                /\ MailOnly(Write(MailTo(x), v)) /\ MailOnly(Write(MailItem(x), v))
                /\ MailOnly(Write(MailItemTo(x), v)) /\ MailOnly(Write(GivenUp(x), v))
    /\ \A g : MailOnly(Fee(g))
    /\ \A S, m : MailOnly(GoldRows(S, m))
    /\ MailOnly(NoRows)
    /\ \A p, ms : MailOnly(DeleteRows(p, ms))
    /\ \A ds : MailOnly(SendRows(ds))
<1>1. ASSUME NEW r, NEW v, r[1] \notin {"auction", "auction_bid"} PROVE MailOnly(Write(r, v))
    <2> DEFINE f == Write(r, v)
    <2>1. DOMAIN f = {r} BY Single
    <2> HIDE DEF f
    <2>2. MailOnly(f) BY <1>1, <2>1 DEF MailOnly
    <2> QED BY <2>2 DEF f
<1>2. ASSUME NEW x, NEW v
      PROVE  /\ MailOnly(Write(ItemRow(x), v)) /\ MailOnly(Write(MailRow(x), v))
             /\ MailOnly(Write(MailMoney(x), v)) /\ MailOnly(Write(MailCod(x), v))
             /\ MailOnly(Write(MailTo(x), v)) /\ MailOnly(Write(MailItem(x), v))
             /\ MailOnly(Write(MailItemTo(x), v)) /\ MailOnly(Write(GivenUp(x), v))
    BY <1>1, RowKeys
<1>3. ASSUME NEW g PROVE MailOnly(Fee(g)) BY <1>1, RowKeys DEF Fee
<1>4. ASSUME NEW S, NEW m PROVE MailOnly(GoldRows(S, m)) BY RowKeys DEF MailOnly, GoldRows
<1>5. MailOnly(NoRows) BY DEF MailOnly, NoRows
<1>6. ASSUME NEW p, NEW ms PROVE MailOnly(DeleteRows(p, ms))
    <2> DEFINE items == {box[p][m].item : m \in ms} \ {NoItem}
               a == [r \in {MailRow(m) : m \in ms} |-> FALSE]
               b == [r \in {MailItem(i) : i \in items} |-> NoMail]
               c == [r \in {GivenUp(i) : i \in items} |-> TRUE]
    <2>1. DeleteRows(p, ms) = (a ++ b) ++ c BY Zenon DEF DeleteRows
    <2> HIDE DEF items
    <2>2. MailOnly(a) /\ MailOnly(b) /\ MailOnly(c) BY RowKeys DEF MailOnly
    <2> HIDE DEF a, b, c
    <2> QED BY <2>1, <2>2, MailOnlyOver
<1>7. ASSUME NEW ds PROVE MailOnly(SendRows(ds))
    <2> SUFFICES ASSUME NEW r \in DOMAIN SendRows(ds) PROVE r[1] \notin {"auction", "auction_bid"}
        BY DEF MailOnly
    <2>1. PICK n \in DOMAIN ds : r \in DOMAIN NthRows(ds, n) BY SendRowsFacts
    <2>2. r \in MailKeys(Ids(ds)[n]) \cup ItemKeys(ds[n])
        BY <2>1, DraftRowsFacts DEF NthRows, MailKeys
    <2> QED BY <2>2, RowKeys DEF MailKeys, ItemKeys
<1> QED BY <1>2, <1>3, <1>4, <1>5, <1>6, <1>7

\* The two statements that send a mail back to its sender.
LEMMA GoodAddress ==
    ASSUME NEW m \in MailId, NEW a \in AddressType
    PROVE  Good(Write(MailTo(m), a) ++ Write(MailCod(m), 0))
<1> DEFINE f == Write(MailTo(m), a) ++ Write(MailCod(m), 0)
<1>1. MailTo(m) # MailCod(m) BY RowKinds
<1>2. /\ f = [r \in DOMAIN f |-> f[r]] /\ DOMAIN f = {MailTo(m), MailCod(m)}
      /\ f[MailTo(m)] = a /\ f[MailCod(m)] = 0
    BY <1>1 DEF ++, Write
<1> HIDE DEF f
<1>3. Typed(f) BY <1>2, RowKinds, RowTypeOf, CodesNat DEF Typed
<1>4. \A n \in MailId : /\ MailRow(n) \notin DOMAIN f
                        /\ MailTo(n) \in DOMAIN f => MailTo(n) = MailTo(m)
                        /\ MailCod(n) \in DOMAIN f => MailCod(n) = MailCod(m)
    BY <1>2, RowKinds
<1>5. \A n \in MailId : MailTo(n) = MailTo(m) => MailCod(n) = MailCod(m)
    <2>1. \A n \in MailId : MailTo(n)[2] = n BY RowKeys
    <2> QED BY <2>1
<1>6. Mated(f) BY <1>2, <1>4, <1>5 DEF Mated
<1> QED BY <1>2, <1>3, <1>6 DEF Good, f

MailEntry(e) == e.load = Nobody /\ MailOnly(e.rows)

\* The statements about an old mail.
LEMMA OldMailEntries ==
    ASSUME TypeInv, NEW m \in MailId, ReturnOrDeleteOldMails(m)
    PROVE  \E es \in Seq(EntryType) :
               /\ \A k \in DOMAIN es : MailEntry(es[k])
               /\ Len(queue) + Len(es) <= MaxQueue /\ queue' = queue \o es
<1> USE DEF TypeInv
<1> DEFINE returns == StoredIn(m) # {} /\ db[MailTo(m)].normal /\ ~db[MailTo(m)].returned
           es == IF returns THEN ReturnMail(m) ELSE DeleteMail(m)
           old == db[MailTo(m)]
<1>1. db[MailRow(m)] /\ Len(queue) + Len(es) <= MaxQueue /\ queue' = queue \o es
    BY DEF ReturnOrDeleteOldMails
<1>2. old \in AddressType BY <1>1 DEF TablesTyped, GoodTable
<1>3. StoredIn(m) \subseteq Item /\ IsFiniteSet(StoredIn(m))
    <2>1. StoredIn(m) \subseteq Item BY DEF StoredIn
    <2> QED BY <2>1, StoreAssumption, FS_Subset
<1>4. ASSUME old.normal
      PROVE  /\ ReturnMail(m) \in Seq(EntryType)
             /\ \A k \in DOMAIN ReturnMail(m) : MailEntry(ReturnMail(m)[k])
    <2> DEFINE a == [old EXCEPT !.to = old.from, !.from = old.to, !.returned = TRUE]
               x == Entry(Write(MailTo(m), a) ++ Write(MailCod(m), 0))
               g == [i \in StoredIn(m) |-> Entry(Write(MailItemTo(i), old.from))]
               T == {g[i] : i \in StoredIn(m)}
    <2>1. ReturnMail(m) = <<x>> \o SetToSeq(T)
        <3>1. T = {Entry(Write(MailItemTo(i), old.from)) : i \in StoredIn(m)} OBVIOUS
        <3> QED BY <3>1, Zenon DEF ReturnMail
    <2>2. a \in AddressType BY <1>2, <1>4 DEF AddressType, AddressRecord
    <2> HIDE DEF a
    <2>3. x \in EntryType /\ MailEntry(x)
        <3> DEFINE f == Write(MailTo(m), a) ++ Write(MailCod(m), 0)
        <3>1. Good(f) BY <2>2, GoodAddress
        <3>2. MailOnly(f) BY MailOnlyRows, MailOnlyOver
        <3> HIDE DEF f
        <3>3. Entry(f) \in EntryType /\ MailEntry(Entry(f)) BY <3>1, <3>2, GoodEntry DEF Entry, MailEntry
        <3> QED BY <3>3 DEF f
    <2>4. ASSUME NEW i \in StoredIn(m)
          PROVE  /\ Entry(Write(MailItemTo(i), old.from)) \in EntryType
                 /\ MailEntry(Entry(Write(MailItemTo(i), old.from)))
        <3>1. i \in Item /\ old.from \in Player \cup {Nobody} BY <1>2, <1>3 DEF AddressType, AddressRecord
        <3>2. Good(Write(MailItemTo(i), old.from)) BY <3>1, GoodItems
        <3>3. MailOnly(Write(MailItemTo(i), old.from)) BY MailOnlyRows
        <3> QED BY <3>2, <3>3, GoodEntry DEF Entry, MailEntry
    <2>5. g \in [StoredIn(m) -> EntryType] /\ \A e \in T : MailEntry(e) BY <2>4
    <2> HIDE DEF x, g
    <2>6. /\ SetToSeq(T) \in Seq(EntryType) /\ \A k \in DOMAIN SetToSeq(T) : SetToSeq(T)[k] \in T
        BY <1>3, <2>5, EntrySet
    <2> HIDE DEF T
    <2>7. <<x>> \o SetToSeq(T) \in Seq(EntryType) BY <2>3, <2>6
    <2>8. \A k \in DOMAIN (<<x>> \o SetToSeq(T)) : MailEntry((<<x>> \o SetToSeq(T))[k])
        BY <2>3, <2>5, <2>6
    <2> QED BY <2>1, <2>7, <2>8
<1>5. /\ DeleteMail(m) \in Seq(EntryType)
      /\ \A k \in DOMAIN DeleteMail(m) : MailEntry(DeleteMail(m)[k])
    <2> DEFINE v == IF Latest(MailRow(m)) THEN Latest(MailMoney(m)) ELSE 0
               x == Entry(Write(MailRow(m), FALSE) ++ Fee(v))
               g == [i \in StoredIn(m) |-> Entry(Write(GivenUp(i), TRUE))]
               T == {g[i] : i \in StoredIn(m)}
    <2>1. DeleteMail(m) = SetToSeq(T) \o <<x>>
        <3>1. T = {Entry(Write(GivenUp(i), TRUE)) : i \in StoredIn(m)} OBVIOUS
        <3> QED BY <3>1, Zenon DEF DeleteMail
    <2>2. v \in Int
        <3>1. Latest(MailMoney(m)) \in Nat BY LatestTyped, RowKinds, RowTypeOf
        <3> QED BY <3>1
    <2> HIDE DEF v
    <2>3. x \in EntryType /\ MailEntry(x)
        <3> DEFINE f == Write(MailRow(m), FALSE) ++ Fee(v)
        <3>1. Good(Write(MailRow(m), FALSE)) /\ Good(Fee(v)) BY <2>2, GoodDeletes, GoodFee
        <3>2. Good(f) BY <3>1, OverGood
        <3>3. MailOnly(f) BY MailOnlyRows, MailOnlyOver
        <3> HIDE DEF f
        <3>4. Entry(f) \in EntryType /\ MailEntry(Entry(f)) BY <3>2, <3>3, GoodEntry DEF Entry, MailEntry
        <3> QED BY <3>4 DEF f
    <2>4. ASSUME NEW i \in StoredIn(m)
          PROVE  /\ Entry(Write(GivenUp(i), TRUE)) \in EntryType
                 /\ MailEntry(Entry(Write(GivenUp(i), TRUE)))
        <3>1. Good(Write(GivenUp(i), TRUE)) BY <1>3, GoodItems
        <3>2. MailOnly(Write(GivenUp(i), TRUE)) BY MailOnlyRows
        <3> QED BY <3>1, <3>2, GoodEntry DEF Entry, MailEntry
    <2>5. g \in [StoredIn(m) -> EntryType] /\ \A e \in T : MailEntry(e) BY <2>4
    <2> HIDE DEF x, g
    <2>6. /\ SetToSeq(T) \in Seq(EntryType) /\ \A k \in DOMAIN SetToSeq(T) : SetToSeq(T)[k] \in T
        BY <1>3, <2>5, EntrySet
    <2> HIDE DEF T
    <2>7. SetToSeq(T) \o <<x>> \in Seq(EntryType) BY <2>3, <2>6
    <2>8. \A k \in DOMAIN (SetToSeq(T) \o <<x>>) : MailEntry((SetToSeq(T) \o <<x>>)[k])
        BY <2>3, <2>5, <2>6
    <2> QED BY <2>1, <2>7, <2>8
<1>6. es \in Seq(EntryType) /\ \A k \in DOMAIN es : MailEntry(es[k]) BY <1>4, <1>5
<1> HIDE DEF es
<1> QED BY <1>1, <1>6

\* An old mail goes back or away, one statement after the other.
LEMMA OldMailTypes ==
    ASSUME TypeInv, UNCHANGED auctionVars, NEW m \in MailId, ReturnOrDeleteOldMails(m)
    PROVE  TypeInv'
<1> USE DEF TypeInv
<1>1. UNCHANGED <<online, inv, money, db, crashes, box, world>> BY DEF ReturnOrDeleteOldMails
<1>2. PICK es \in Seq(EntryType) :
            /\ \A k \in DOMAIN es : MailEntry(es[k])
            /\ Len(queue) + Len(es) <= MaxQueue /\ queue' = queue \o es
    BY OldMailEntries
<1>3. \A k \in DOMAIN es : es[k].load = Nobody BY <1>2 DEF MailEntry
<1>4. TablesTyped' BY <1>1, <1>2, <1>3, EntriesKeep DEF Up
<1>5. PlayersTyped' /\ HouseTyped' BY <1>1 DEF PlayersTyped, HouseTyped, auctionVars, Up
<1> QED BY <1>4, <1>5
-----------------------------------------------------------------------------
(***************************************************************************)
(* The auctions.                                                           *)
(***************************************************************************)

\* The mails about an auction have their type.
LEMMA AuctionDrafts ==
    ASSUME NEW i \in Item, NEW a \in AuctionRecord
    PROVE  /\ SendAuctionSuccessfulMail(a) \in Seq(DraftType)
           /\ SendAuctionExpiredMail(i, a) \in Seq(DraftType)
           /\ a.bidder # Nobody =>
                /\ SendAuctionWonMail(i, a) \in Seq(DraftType)
                /\ SendAuctionOutbiddedMail(a) \in Seq(DraftType)
                /\ SendAuctionCancelledToBidderMail(a) \in Seq(DraftType)
           /\ ExpiryDrafts(i, a) \in Seq(DraftType)
           /\ ExpiryFee(a) \in Nat
<1>1. /\ a.owner \in Player /\ a.bidder \in Player \cup {Nobody} /\ a.bid \in Nat
      /\ a.deposit \in Nat
    BY AuctionAssumption DEF AuctionRecord
<1>2. /\ GetAuctionCut(a.bid) \in Nat
      /\ a.bid + a.deposit - GetAuctionCut(a.bid) \in Nat
    <2>1. GetAuctionCut(a.bid) \in Nat /\ GetAuctionCut(a.bid) <= a.bid BY <1>1, CutBound
    <2> QED BY <1>1, <2>1
<1>3. AuctionDraft(a.owner, a.bid + a.deposit - GetAuctionCut(a.bid), NoItem) \in DraftType
    BY <1>1, <1>2, DraftTyped
<1>4. AuctionDraft(a.owner, 0, i) \in DraftType BY <1>1, DraftTyped
<1>5. a.bidder # Nobody => /\ AuctionDraft(a.bidder, 0, i) \in DraftType
                           /\ AuctionDraft(a.bidder, a.bid, NoItem) \in DraftType
    BY <1>1, DraftTyped
<1>6. SendAuctionSuccessfulMail(a) \in Seq(DraftType) BY <1>3, DraftSeqs DEF SendAuctionSuccessfulMail
<1>7. SendAuctionExpiredMail(i, a) \in Seq(DraftType) BY <1>4, DraftSeqs DEF SendAuctionExpiredMail
<1>8. ASSUME a.bidder # Nobody
      PROVE  /\ SendAuctionWonMail(i, a) \in Seq(DraftType)
             /\ SendAuctionOutbiddedMail(a) \in Seq(DraftType)
             /\ SendAuctionCancelledToBidderMail(a) \in Seq(DraftType)
    BY <1>5, <1>8, DraftSeqs
       DEF SendAuctionWonMail, SendAuctionOutbiddedMail, SendAuctionCancelledToBidderMail
<1>9. ExpiryDrafts(i, a) \in Seq(DraftType) BY <1>6, <1>7, <1>8, DraftSeqs DEF ExpiryDrafts
<1>10. ExpiryFee(a) \in Nat BY <1>1, <1>2 DEF ExpiryFee
<1> QED BY <1>6, <1>7, <1>8, <1>9, <1>10

\* A step of a player p in the world who pays and sends the drafts ds.
LEMMA PaidStep ==
    ASSUME TypeInv, NEW p \in online, NEW ds \in Seq(DraftType), CanSend(ds),
           NEW paid \in Nat, money' = [money EXCEPT ![p] = Paid(@, paid)],
           inv' \in [Player -> SUBSET Item], \A x \in Player \ online : inv'[x] = inv[x],
           box' = Deliver(box, ds), UNCHANGED <<online, db, crashes, world>>,
           auction' \in [Item -> AuctionRecord \cup {NoAuction}], aitems' \subseteq Item,
           NEW rows, Good(rows), Commit(rows)
    PROVE  TypeInv'
<1> USE DEF TypeInv
<1>1. p \in Player BY DEF PlayersTyped
<1>2. money' \in [Player -> 0 .. MaxMoney] /\ \A x \in Player \ online : money'[x] = money[x]
    BY <1>1, MoneyBounds DEF PlayersTyped
<1>3. box' \in [Player -> Boxes] /\ \A x \in Player \ online : box'[x] = box[x]
    <2>1. box \in [Player -> Boxes] BY DEF PlayersTyped
    <2>2. /\ Deliver(box, ds) \in [Player -> Boxes]
          /\ \A x \in Player \ online : Deliver(box, ds)[x] = box[x]
        BY <2>1, DeliverType
    <2> QED BY <2>2
<1>4. PlayersTyped' BY <1>2, <1>3, PlayersKeep
<1>5. TablesTyped' BY CommitKeeps
<1>6. HouseTyped' BY DEF HouseTyped
<1> QED BY <1>4, <1>5, <1>6
\* The transaction of a player who pays and sends the drafts ds.
LEMMA GoodPaid ==
    ASSUME TypeInv, NEW p \in Player, NEW paid \in Nat, NEW ds \in Seq(DraftType), CanSend(ds)
    PROVE  Good(GoldRows({p}, [money EXCEPT ![p] = Paid(@, paid)]) ++ SendRows(ds))
<1> DEFINE gold == [money EXCEPT ![p] = Paid(@, paid)]
<1>1. gold[p] \in 0 .. MaxMoney BY MoneyBounds DEF TypeInv, PlayersTyped
<1> HIDE DEF gold
<1>2. Good(GoldRows({p}, gold)) BY <1>1, GoodMoney
<1>3. Good(SendRows(ds)) BY GoodSend
<1>4. Good(GoldRows({p}, gold) ++ SendRows(ds)) BY <1>2, <1>3, OverGood
<1> QED BY <1>4 DEF gold

\* An item is put up for sale.
LEMMA SellTypes ==
    ASSUME TypeInv, NEW p \in Player, NEW i \in Item, NEW sb \in StartBids, NEW bo \in Buyouts,
           HandleAuctionSellItem(p, i, sb, bo)
    PROVE  TypeInv'
<1> USE DEF TypeInv
<1> DEFINE gold == [money EXCEPT ![p] = Paid(@, Deposit)]
           a == [owner |-> p, bidder |-> Nobody, bid |-> 0, startbid |-> sb,
                 buyout |-> bo, deposit |-> Deposit]
           l == [owner |-> p, startbid |-> sb, buyout |-> bo, deposit |-> Deposit]
           b == [bidder |-> Nobody, bid |-> 0]
           rows == GoldRows({p}, gold) ++ Write(ItemRow(i), Nobody) ++ Write(AuctionRow(i), l)
                     ++ Write(BidRow(i), b)
<1>1. /\ p \in online /\ money' = gold /\ inv' = [inv EXCEPT ![p] = @ \ {i}]
      /\ auction' = [auction EXCEPT ![i] = a] /\ aitems' = aitems \cup {i} /\ Commit(rows)
      /\ UNCHANGED <<online, db, crashes, box, world>>
    BY DEF HandleAuctionSellItem
<1>2. /\ a \in AuctionRecord /\ l \in ListingRecord
      /\ b \in [bidder : Player \cup {Nobody}, bid : Nat] /\ Deposit \in Nat
    BY AuctionAssumption DEF AuctionRecord, ListingRecord
<1>3. gold \in [Player -> 0 .. MaxMoney] BY <1>2, MoneyBounds DEF PlayersTyped
<1> HIDE DEF a, l, b
<1>4. Good(rows)
    <2>1. Good(GoldRows({p}, gold)) BY <1>3, GoodMoney
    <2>2. /\ Good(Write(ItemRow(i), Nobody)) /\ Good(Write(AuctionRow(i), l))
          /\ Good(Write(BidRow(i), b))
        BY <1>2, GoodItems
    <2> HIDE DEF gold
    <2> QED BY <2>1, <2>2, OverGood
<1> HIDE DEF rows
<1>5. TablesTyped' BY <1>1, <1>4, CommitKeeps
<1>6. inv' \in [Player -> SUBSET Item] /\ \A x \in Player \ online : inv'[x] = inv[x]
    BY <1>1 DEF PlayersTyped
<1>7. \A x \in Player \ online : money'[x] = money[x] BY <1>1 DEF PlayersTyped
<1>8. PlayersTyped' BY <1>1, <1>3, <1>6, <1>7, PlayersKeep DEF PlayersTyped
<1>9. HouseTyped' BY <1>1, <1>2 DEF HouseTyped
<1> QED BY <1>5, <1>8, <1>9

\* What a bid is about.
LEMMA BidFacts ==
    ASSUME TypeInv, NEW p \in Player, NEW i \in Item, NEW price \in Prices, ValidBid(p, i, price)
    PROVE  /\ p \in online /\ auction[i] \in AuctionRecord /\ price \in Nat
           /\ auction[i].bid \in Nat /\ auction[i].buyout \in Nat /\ price > auction[i].bid
           /\ auction[i].bidder \in Player \cup {Nobody}
           /\ Outbid(p, i) \in Seq(DraftType)
<1>1. p \in online /\ OnSale(i) /\ price > auction[i].bid BY DEF ValidBid
<1>2. auction[i] \in AuctionRecord BY <1>1 DEF OnSale, TypeInv, HouseTyped
<1>3. Outbid(p, i) \in Seq(DraftType) BY <1>2, AuctionDrafts, DraftSeqs DEF Outbid
<1> QED BY <1>1, <1>2, <1>3, AuctionAssumption DEF AuctionRecord

\* A bid.
LEMMA BidTypes ==
    ASSUME TypeInv, NEW p \in Player, NEW i \in Item, NEW price \in Prices, PlaceBid(p, i, price)
    PROVE  TypeInv'
<1> DEFINE ds == Outbid(p, i)
           gold == [money EXCEPT ![p] = Paid(@, BidPaid(p, i, price))]
           b == [bidder |-> p, bid |-> price]
           rows == GoldRows({p}, gold) ++ SendRows(ds) ++ Write(BidRow(i), b)
<1>1. /\ ValidBid(p, i, price) /\ CanSend(ds) /\ money' = gold
      /\ auction' = [auction EXCEPT ![i].bidder = p, ![i].bid = price]
      /\ box' = Deliver(box, ds) /\ Commit(rows)
      /\ UNCHANGED <<online, inv, db, crashes, world, aitems>>
    BY DEF PlaceBid
<1>2. /\ p \in online /\ auction[i] \in AuctionRecord /\ price \in Nat
      /\ auction[i].bid \in Nat /\ price > auction[i].bid /\ ds \in Seq(DraftType)
    BY <1>1, BidFacts
<1>3. BidPaid(p, i, price) \in Nat BY <1>2 DEF BidPaid
<1>4. auction' \in [Item -> AuctionRecord \cup {NoAuction}] /\ aitems' \subseteq Item
    <2> DEFINE a == [auction[i] EXCEPT !.bidder = p, !.bid = price]
    <2>1. a \in AuctionRecord BY <1>2 DEF AuctionRecord
    <2>2. auction \in [Item -> AuctionRecord \cup {NoAuction}] BY DEF TypeInv, HouseTyped
    <2>3. auction' = [auction EXCEPT ![i] = a] BY <1>1, <2>2
    <2> HIDE DEF a
    <2> QED BY <1>1, <2>1, <2>2, <2>3 DEF TypeInv, HouseTyped
<1>5. Good(rows)
    <2>1. b \in [bidder : Player \cup {Nobody}, bid : Nat] BY <1>2
    <2> HIDE DEF b
    <2>2. Good(Write(BidRow(i), b)) BY <2>1, GoodItems
    <2>3. Good(GoldRows({p}, gold) ++ SendRows(ds)) BY <1>1, <1>2, <1>3, GoodPaid
    <2> HIDE DEF gold, ds
    <2> QED BY <2>2, <2>3, OverGood
<1>6. inv' \in [Player -> SUBSET Item] /\ \A x \in Player \ online : inv'[x] = inv[x]
    BY <1>1 DEF TypeInv, PlayersTyped
<1> HIDE DEF ds, rows
<1> QED BY <1>1, <1>2, <1>3, <1>4, <1>5, <1>6, PaidStep

\* RemoveAuction
LEMMA RemoveTypes ==
    ASSUME TypeInv, NEW i \in Item, RemoveAuction(i)
    PROVE  auction' \in [Item -> AuctionRecord \cup {NoAuction}] /\ aitems' \subseteq Item
  BY DEF TypeInv, HouseTyped, RemoveAuction
\* A bid ends below the sum that ends the auction at once.  A bidder who then
\* pays this sum pays the difference, which must not be negative.
BidsBelow ==
    \A i \in Item : OnSale(i) /\ auction[i].buyout # 0 => auction[i].bid < auction[i].buyout

\* An end at once.
LEMMA BuyoutTypes ==
    ASSUME TypeInv, BidsBelow, NEW p \in Player, NEW i \in Item, NEW price \in Prices, Buyout(p, i, price)
    PROVE  TypeInv'
<1> DEFINE a == auction[i]
           sold == [a EXCEPT !.bidder = p, !.bid = a.buyout]
           gold == [money EXCEPT ![p] = Paid(@, BidPaid(p, i, a.buyout))]
           ds == Outbid(p, i) \o SendAuctionSuccessfulMail(sold) \o SendAuctionWonMail(i, sold)
           rows == GoldRows({p}, gold) ++ SendRows(ds) ++ AuctionGone(i)
                     ++ Fee(GetAuctionCut(sold.bid))
<1>1. /\ ValidBid(p, i, price) /\ CanSend(ds) /\ money' = gold /\ RemoveAuction(i)
      /\ box' = Deliver(box, ds) /\ Commit(rows) /\ UNCHANGED <<online, inv, db, crashes, world>>
    BY DEF Buyout
<1>2. /\ p \in online /\ a \in AuctionRecord /\ a.bid \in Nat /\ a.buyout \in Nat
      /\ Outbid(p, i) \in Seq(DraftType)
    BY <1>1, BidFacts
<1> HIDE DEF a
<1>3. sold \in AuctionRecord /\ sold.bidder = p /\ sold.bid = a.buyout /\ p # Nobody
    BY <1>2, StoreAssumption DEF AuctionRecord
<1> HIDE DEF sold
<1>4. ds \in Seq(DraftType) BY <1>2, <1>3, AuctionDrafts, DraftSeqs
<1> HIDE DEF ds
<1>5. BidPaid(p, i, a.buyout) \in Nat
    <2>1. OnSale(i) /\ a.buyout # 0 BY <1>1 DEF ValidBid, Buyout, a
    <2>2. a.bid < a.buyout BY <2>1 DEF BidsBelow, a
    <2> QED BY <1>2, <2>2 DEF BidPaid, a
<1>6. Good(rows)
    <2>1. Good(GoldRows({p}, gold) ++ SendRows(ds)) BY <1>1, <1>2, <1>4, <1>5, GoodPaid
    <2>2. Good(AuctionGone(i)) BY GoodItems DEF AuctionGone
    <2>3. GetAuctionCut(sold.bid) \in Int BY <1>2, <1>3, CutBound
    <2>4. Good(Fee(GetAuctionCut(sold.bid))) BY <2>3, GoodFee DEF TypeInv
    <2> HIDE DEF gold
    <2> QED BY <2>1, <2>2, <2>4, OverGood
<1>7. inv' \in [Player -> SUBSET Item] /\ \A x \in Player \ online : inv'[x] = inv[x]
    BY <1>1 DEF TypeInv, PlayersTyped
<1>8. auction' \in [Item -> AuctionRecord \cup {NoAuction}] /\ aitems' \subseteq Item
    BY <1>1, RemoveTypes
<1> HIDE DEF rows
<1> QED BY <1>1, <1>2, <1>4, <1>5, <1>6, <1>7, <1>8, PaidStep
\* An auction is cancelled.
LEMMA CancelTypes ==
    ASSUME TypeInv, NEW p \in Player, NEW i \in Item, HandleAuctionRemoveItem(p, i)
    PROVE  TypeInv'
<1> DEFINE a == auction[i]
           gold == [money EXCEPT ![p] = Paid(@, CancelCost(i))]
           back == IF a.bidder = Nobody THEN <<>> ELSE SendAuctionCancelledToBidderMail(a)
           ds == back \o <<AuctionDraft(p, 0, i)>>
           rows == GoldRows({p}, gold) ++ SendRows(ds) ++ AuctionGone(i)
                     ++ Fee(CancelCost(i) + a.deposit)
<1>1. /\ p \in online /\ OnSale(i) /\ CanSend(ds) /\ money' = gold /\ RemoveAuction(i)
      /\ box' = Deliver(box, ds) /\ Commit(rows) /\ UNCHANGED <<online, inv, db, crashes, world>>
    BY DEF HandleAuctionRemoveItem
<1>2. a \in AuctionRecord BY <1>1 DEF OnSale, TypeInv, HouseTyped
<1>3. a.bid \in Nat /\ a.deposit \in Nat BY <1>2, AuctionAssumption DEF AuctionRecord
<1>4. CancelCost(i) \in Nat BY <1>3, CutBound DEF CancelCost
<1> HIDE DEF a
<1>5. ds \in Seq(DraftType)
    <2>1. back \in Seq(DraftType) BY <1>2, AuctionDrafts, DraftSeqs
    <2>2. AuctionDraft(p, 0, i) \in DraftType BY DraftTyped
    <2> HIDE DEF back
    <2> QED BY <2>1, <2>2, DraftSeqs
<1> HIDE DEF ds
<1>6. Good(rows)
    <2>1. Good(GoldRows({p}, gold) ++ SendRows(ds)) BY <1>1, <1>4, <1>5, GoodPaid
    <2>2. Good(AuctionGone(i)) BY GoodItems DEF AuctionGone
    <2>3. Good(Fee(CancelCost(i) + a.deposit)) BY <1>3, <1>4, GoodFee DEF TypeInv
    <2> HIDE DEF gold
    <2> QED BY <2>1, <2>2, <2>3, OverGood
<1>7. inv' \in [Player -> SUBSET Item] /\ \A x \in Player \ online : inv'[x] = inv[x]
    BY <1>1 DEF TypeInv, PlayersTyped
<1>8. auction' \in [Item -> AuctionRecord \cup {NoAuction}] /\ aitems' \subseteq Item
    BY <1>1, RemoveTypes
<1> HIDE DEF rows
<1> QED BY <1>1, <1>4, <1>5, <1>6, <1>7, <1>8, PaidStep

\* An auction expires.
LEMMA UpdateTypes ==
    ASSUME TypeInv, NEW i \in Item, Update(i) PROVE TypeInv'
<1> DEFINE ds == ExpiryDrafts(i, auction[i])
           rows == SendRows(ds) ++ AuctionGone(i) ++ Fee(ExpiryFee(auction[i]))
<1>1. /\ OnSale(i) /\ CanSend(ds) /\ RemoveAuction(i) /\ box' = Deliver(box, ds) /\ Commit(rows)
      /\ UNCHANGED <<online, inv, money, db, crashes, world>>
    BY DEF Update, StillOnSale
<1>2. auction[i] \in AuctionRecord BY <1>1 DEF OnSale, TypeInv, HouseTyped
<1>3. ds \in Seq(DraftType) /\ ExpiryFee(auction[i]) \in Nat BY <1>2, AuctionDrafts
<1>4. Good(rows)
    <2>1. Good(SendRows(ds)) BY <1>1, <1>3, GoodSend
    <2>2. Good(AuctionGone(i)) BY GoodItems DEF AuctionGone
    <2>3. Good(Fee(ExpiryFee(auction[i]))) BY <1>3, GoodFee DEF TypeInv
    <2> HIDE DEF ds
    <2> QED BY <2>1, <2>2, <2>3, OverGood
<1> HIDE DEF ds, rows
<1>5. box' \in [Player -> Boxes] /\ \A x \in Player \ online : box'[x] = box[x]
    BY <1>1, <1>3, DeliverType DEF TypeInv, PlayersTyped
<1>6. PlayersTyped' BY <1>1, <1>5, PlayersKeep DEF TypeInv, PlayersTyped
<1>7. TablesTyped' BY <1>1, <1>4, CommitKeeps DEF TypeInv
<1>8. HouseTyped' BY <1>1, RemoveTypes DEF TypeInv, HouseTyped
<1> QED BY <1>6, <1>7, <1>8 DEF TypeInv

\* An auction that is read from the tables.
LEMMA StoredType ==
    ASSUME GoodTable(db), NEW i \in Item, db[AuctionRow(i)] # NoAuction
    PROVE  StoredAuction(i) \in AuctionRecord
<1>1. /\ db[AuctionRow(i)] \in ListingRecord
      /\ db[BidRow(i)] \in [bidder : Player \cup {Nobody}, bid : Nat]
    BY TableTypes DEF GoodTable
<1> QED BY <1>1 DEF StoredAuction, AuctionRecord, ListingRecord

\* And one that is read with 32 bits of the bid.
LEMMA FieldListType ==
    ASSUME GoodTable(db), NEW i \in Item, db[AuctionRow(i)] # NoAuction
    PROVE  LoadFromFieldList(i) \in AuctionRecord
<1>1. StoredAuction(i) \in AuctionRecord BY StoredType
<1>2. PICK a \in AuctionRecord : a = StoredAuction(i) BY <1>1
<1>3. PICK b : b = Uint32(a.bid) OBVIOUS
<1>4. a.bid \in Nat BY DEF AuctionRecord
<1>5. b \in Nat BY <1>3, <1>4, Uint32Nat
<1>6. LoadFromFieldList(i) = [a EXCEPT !.bid = b] BY <1>2, <1>3 DEF LoadFromFieldList
<1> QED BY <1>5, <1>6 DEF AuctionRecord

\* What a transaction writes that closes the auction of i.
LEMMA ClosingRows ==
    ASSUME NEW f, MailOnly(f), NEW g, MailOnly(g), NEW i, NEW h, h = f ++ AuctionGone(i) ++ g
    PROVE  /\ AuctionRow(i) \in DOMAIN h /\ h[AuctionRow(i)] = NoAuction
           /\ \A j : BidRow(j) \notin DOMAIN h
           /\ \A j : j # i => AuctionRow(j) \notin DOMAIN h
<1> DEFINE c == AuctionGone(i)
           r == AuctionRow(i)
<1>1. DOMAIN c = {r} /\ c[r] = NoAuction BY Single DEF AuctionGone
<1> HIDE DEF c
<1>2. /\ DOMAIN h = DOMAIN f \cup {r} \cup DOMAIN g
      /\ r \notin DOMAIN f => h[r] = NoAuction
    BY <1>1 DEF ++, c
<1> HIDE DEF r
<1>3. r[1] = "auction" /\ r[2] = i BY RowKeys DEF r
<1>4. r \notin DOMAIN f BY <1>3 DEF MailOnly
<1>5. ASSUME NEW j PROVE BidRow(j) \notin DOMAIN h
    <2>1. BidRow(j)[1] = "auction_bid" BY RowKeys
    <2> QED BY <1>2, <1>3, <2>1 DEF MailOnly
<1>6. ASSUME NEW j, j # i PROVE AuctionRow(j) \notin DOMAIN h
    <2>1. AuctionRow(j)[1] = "auction" /\ AuctionRow(j)[2] = j BY RowKeys
    <2> QED BY <1>2, <1>3, <1>6, <2>1 DEF MailOnly
<1> QED BY <1>2, <1>4, <1>5, <1>6 DEF r

\* An entry that at most takes auctions away.
GoneEntry(e) ==
    /\ e.load = Nobody
    /\ \A j : /\ BidRow(j) \notin DOMAIN e.rows
              /\ AuctionRow(j) \in DOMAIN e.rows => e.rows[AuctionRow(j)] = NoAuction

\* The transactions about the auctions that expired while the server was down.
LEMMA StartupEntries ==
    ASSUME TypeInv, NEW S \in SUBSET Item, DeleteExpiredAuctionsAtStartup(S)
    PROVE  \E es \in Seq(EntryType) :
               /\ \A k \in DOMAIN es : GoneEntry(es[k]) /\ ExpireWhileDown
               /\ Len(queue) + Len(es) <= MaxQueue /\ queue' = queue \o es
<1> USE DEF TypeInv
<1> DEFINE Closed(i) == SendRows(ExpiryDrafts(i, LoadFromFieldList(i))) ++ AuctionGone(i)
                            ++ Fee(ExpiryFee(LoadFromFieldList(i)))
           g == [i \in S |-> Entry(Closed(i))]
           T == {g[i] : i \in S}
<1>1. /\ \A i \in S : ExpireWhileDown /\ db[AuctionRow(i)] # NoAuction
      /\ \A i \in S : CanSend(ExpiryDrafts(i, LoadFromFieldList(i)))
      /\ Len(queue) + Cardinality(S) <= MaxQueue
    BY DEF DeleteExpiredAuctionsAtStartup
<1>2. queue' = queue \o SetToSeq(T)
    <2>1. T = {Entry(Closed(i)) : i \in S} OBVIOUS
    <2> QED BY <2>1, Zenon DEF DeleteExpiredAuctionsAtStartup
<1>3. IsFiniteSet(S) BY StoreAssumption, FS_Subset
<1>4. ASSUME NEW i \in S PROVE Entry(Closed(i)) \in EntryType /\ GoneEntry(Entry(Closed(i)))
    <2> DEFINE f == SendRows(ExpiryDrafts(i, LoadFromFieldList(i)))
               z == Fee(ExpiryFee(LoadFromFieldList(i)))
    <2>1. LoadFromFieldList(i) \in AuctionRecord BY <1>1, FieldListType DEF TablesTyped
    <2>2. ExpiryDrafts(i, LoadFromFieldList(i)) \in Seq(DraftType) /\ ExpiryFee(LoadFromFieldList(i)) \in Nat
        BY <2>1, AuctionDrafts
    <2>3. Good(f) BY <1>1, <2>2, GoodSend
    <2>4. Good(AuctionGone(i)) BY GoodItems DEF AuctionGone
    <2>5. Good(z) BY <2>2, GoodFee
    <2>6. Good(Closed(i)) BY <2>3, <2>4, <2>5, OverGood
    <2>7. MailOnly(f) /\ MailOnly(z) BY MailOnlyRows
    <2>8. Closed(i) = f ++ AuctionGone(i) ++ z OBVIOUS
    <2> HIDE DEF f, z, Closed
    <2>9. /\ AuctionRow(i) \in DOMAIN Closed(i) /\ Closed(i)[AuctionRow(i)] = NoAuction
          /\ \A j : BidRow(j) \notin DOMAIN Closed(i)
          /\ \A j : j # i => AuctionRow(j) \notin DOMAIN Closed(i)
        BY <2>7, <2>8, ClosingRows
    <2>10. Entry(Closed(i)).load = Nobody /\ Entry(Closed(i)).rows = Closed(i) BY DEF Entry
    <2>11. GoneEntry(Entry(Closed(i))) BY <2>9, <2>10 DEF GoneEntry
    <2> QED BY <2>6, <2>11, GoodEntry DEF Entry
<1> HIDE DEF Closed
<1>5. g \in [S -> EntryType] /\ \A e \in T : GoneEntry(e) /\ ExpireWhileDown BY <1>1, <1>4
<1> HIDE DEF g
<1>6. /\ SetToSeq(T) \in Seq(EntryType) /\ Len(SetToSeq(T)) <= Cardinality(S)
      /\ \A k \in DOMAIN SetToSeq(T) : SetToSeq(T)[k] \in T
    BY <1>3, <1>5, EntrySet
<1> HIDE DEF T
<1>7. Len(queue) + Len(SetToSeq(T)) <= MaxQueue
    <2>1. /\ Len(queue) \in Nat /\ Len(SetToSeq(T)) \in Nat /\ Cardinality(S) \in Nat
        BY <1>3, <1>6, FS_CardinalityType, LenProperties DEF TablesTyped
    <2> QED BY <1>1, <1>6, <2>1, StoreAssumption
<1>8. \A k \in DOMAIN SetToSeq(T) : GoneEntry(SetToSeq(T)[k]) /\ ExpireWhileDown BY <1>5, <1>6
<1> QED BY <1>2, <1>6, <1>7, <1>8

\* Auctions that expired while the server was down.
LEMMA StartupTypes ==
    ASSUME TypeInv, NEW S \in SUBSET Item, DeleteExpiredAuctionsAtStartup(S)
    PROVE  TypeInv'
<1> USE DEF TypeInv
<1>1. /\ world = "down" /\ world' = "loading"
      /\ UNCHANGED <<online, inv, money, db, crashes, box>> /\ UNCHANGED auctionVars
    BY DEF DeleteExpiredAuctionsAtStartup
<1>2. PICK es \in Seq(EntryType) :
            /\ \A k \in DOMAIN es : GoneEntry(es[k]) /\ ExpireWhileDown
            /\ Len(queue) + Len(es) <= MaxQueue /\ queue' = queue \o es
    BY StartupEntries
<1>3. \A k \in DOMAIN es : es[k].load = Nobody BY <1>2 DEF GoneEntry
<1>4. Up => Up' BY <1>1 DEF Up
<1>5. TablesTyped' BY <1>1, <1>2, <1>3, <1>4, EntriesKeep
<1>6. HouseTyped' BY <1>1 DEF HouseTyped, auctionVars
<1>7. PlayersTyped' BY <1>1 DEF PlayersTyped, Up
<1> QED BY <1>5, <1>6, <1>7

\* The server loads the auctions.
LEMMA LoadAuctionsTypes == ASSUME TypeInv, LoadAuctions PROVE TypeInv'
<1> USE DEF TypeInv
<1>1. /\ world = "loading" /\ world' = "up"
      /\ aitems' = {i \in Item : db[AuctionRow(i)] # NoAuction}
      /\ auction' = [i \in Item |-> IF db[AuctionRow(i)] # NoAuction
                                    THEN StoredAuction(i) ELSE NoAuction]
      /\ UNCHANGED <<online, inv, money, db, queue, crashes, box>>
    BY DEF LoadAuctions
<1>2. \A i \in Item : db[AuctionRow(i)] # NoAuction => StoredAuction(i) \in AuctionRecord
    BY StoredType DEF TablesTyped
<1>3. Up' BY <1>1 DEF Up
<1>4. HouseTyped' BY <1>1, <1>2 DEF HouseTyped
<1>5. PlayersTyped' /\ TablesTyped' BY <1>1, <1>3 DEF PlayersTyped, TablesTyped
<1> QED BY <1>4, <1>5

\* A crash clears the memory and the queue.
LEMMA CrashTypes == ASSUME TypeInv, ServerCrash PROVE TypeInv'
<1> USE DEF TypeInv
<1>1. /\ crashes < MaxCrashes /\ online' = {} /\ queue' = <<>> /\ crashes' = crashes + 1
      /\ inv' = [p \in Player |-> {}] /\ money' = [p \in Player |-> 0] /\ db' = db
      /\ world' = "down" /\ box' = [p \in Player |-> NoRows]
      /\ auction' = [i \in Item |-> NoAuction] /\ aitems' = {}
    BY DEF ServerCrash, Crash
<1>2. NoRows \in Boxes /\ DOMAIN NoRows = {}
    <2>1. NoRows \in [{} -> MailType] BY DEF NoRows
    <2> QED BY <2>1 DEF Boxes
<1>3. PlayersTyped' BY <1>1, <1>2, StoreAssumption DEF PlayersTyped
<1>4. HouseTyped' BY <1>1, StoreAssumption DEF HouseTyped
<1>5. TablesTyped' BY <1>1, StoreAssumption DEF TablesTyped
<1> QED BY <1>3, <1>4, <1>5

\* Every step keeps the types, as long as the bids are below the buyouts.
LEMMA StepTypes == ASSUME TypeInv, BidsBelow, [Next]_vars PROVE TypeInv'
<1>1. ASSUME NEW p \in Player, AuctionStep(p) PROVE TypeInv'
    BY <1>1, SellTypes, BidTypes, BuyoutTypes, CancelTypes DEF AuctionStep
<1>2. ASSUME NEW p \in Player, MailStep(p), UNCHANGED auctionVars PROVE TypeInv'
    BY <1>2, SendTypes, MarkTypes, ReturnTypes, TakeItemTypes, TakeMoneyTypes, SaveTypes,
       LoginTypes, LoadTypes
       DEF MailStep
<1>3. CASE MailStoreStep /\ UNCHANGED auctionVars
    BY <1>3, OldMailTypes, ExecuteTypes DEF MailStoreStep
<1>4. CASE UNCHANGED vars
    <2>1. UNCHANGED <<online, inv, money, db, queue, crashes, box, world, auction, aitems>>
        BY <1>4 DEF vars
    <2> QED BY <2>1 DEF TypeInv, PlayersTyped, HouseTyped, TablesTyped, Up
<1> QED BY <1>1, <1>2, <1>3, <1>4, UpdateTypes, StartupTypes, LoadAuctionsTypes, CrashTypes
        DEF Next

-----------------------------------------------------------------------------
\* The rows of some kinds, as they are at the start.
StartRows(f, kinds) ==
    /\ DOMAIN f = {r \in RowNames : r[1] \in kinds} /\ Typed(f)
    /\ \A m \in MailId : /\ MailRow(m) \in DOMAIN f => f[MailRow(m)] = FALSE
                         /\ MailCod(m) \in DOMAIN f => f[MailCod(m)] = 0

\* They can be put together.
LEMMA StartOver ==
    ASSUME NEW f, NEW g, NEW K, NEW L, StartRows(f, K), StartRows(g, L)
    PROVE  StartRows(f ++ g, K \cup L)
<1> DEFINE h == f ++ g
<1>1. Typed(h) BY OverTyped DEF StartRows
<1>2. /\ DOMAIN h = DOMAIN f \cup DOMAIN g
      /\ \A r \in DOMAIN f : h[r] = f[r]
      /\ \A r \in DOMAIN g : r \notin DOMAIN f => h[r] = g[r]
    BY DEF ++
<1> HIDE DEF h
<1>3. DOMAIN h = {r \in RowNames : r[1] \in K \cup L} BY <1>2 DEF StartRows
<1>4. \A m \in MailId : MailRow(m) \in DOMAIN h => h[MailRow(m)] = FALSE
    BY <1>2 DEF StartRows
<1>5. \A m \in MailId : MailCod(m) \in DOMAIN h => h[MailCod(m)] = 0
    BY <1>2 DEF StartRows
<1>6. StartRows(h, K \cup L) BY <1>1, <1>3, <1>4, <1>5 DEF StartRows
<1> QED BY <1>6 DEF h

\* The rows of one kind.
LEMMA StartKind ==
    ASSUME NEW f, NEW k, DOMAIN f = {r \in RowNames : r[1] = k},
           \A r \in DOMAIN f : f[r] \in RowType[k],
           k = "mail" => \A r \in DOMAIN f : f[r] = FALSE,
           k = "mail_cod" => \A r \in DOMAIN f : f[r] = 0
    PROVE  StartRows(f, {k})
<1>1. Typed(f) BY DEF Typed
<1>2. DOMAIN f = {r \in RowNames : r[1] \in {k}} OBVIOUS
<1>3. \A m \in MailId : MailRow(m) \in DOMAIN f => f[MailRow(m)] = FALSE BY RowKinds
<1>4. \A m \in MailId : MailCod(m) \in DOMAIN f => f[MailCod(m)] = 0 BY RowKinds
<1> QED BY <1>1, <1>2, <1>3, <1>4 DEF StartRows

\* The rows of each kind are all there.
LEMMA Kinds ==
    /\ {GoldRow(p) : p \in Player} = {r \in RowNames : r[1] = "gold"}
    /\ {ItemRow(i) : i \in Item} = {r \in RowNames : r[1] = "item"}
    /\ {MailRow(m) : m \in MailId} = {r \in RowNames : r[1] = "mail"}
    /\ {MailTo(m) : m \in MailId} = {r \in RowNames : r[1] = "mail_to"}
    /\ {MailMoney(m) : m \in MailId} = {r \in RowNames : r[1] = "mail_money"}
    /\ {MailCod(m) : m \in MailId} = {r \in RowNames : r[1] = "mail_cod"}
    /\ {MailItem(i) : i \in Item} = {r \in RowNames : r[1] = "mail_item"}
    /\ {MailItemTo(i) : i \in Item} = {r \in RowNames : r[1] = "mail_item_to"}
    /\ {GivenUp(i) : i \in Item} = {r \in RowNames : r[1] = "given_up"}
    /\ {AuctionRow(i) : i \in Item} = {r \in RowNames : r[1] = "auction"}
    /\ {BidRow(i) : i \in Item} = {r \in RowNames : r[1] = "auction_bid"}
    /\ {Fees} = {r \in RowNames : r[1] = "fees"}
<1>1. {GoldRow(x) : x \in Player} = {r \in RowNames : r[1] = "gold"} BY DEF RowNames, Fees, GoldRow
<1>2. {ItemRow(x) : x \in Item} = {r \in RowNames : r[1] = "item"} BY DEF RowNames, Fees, ItemRow
<1>3. {MailRow(x) : x \in MailId} = {r \in RowNames : r[1] = "mail"} BY DEF RowNames, Fees, MailRow
<1>4. {MailTo(x) : x \in MailId} = {r \in RowNames : r[1] = "mail_to"} BY DEF RowNames, Fees, MailTo
<1>5. {MailMoney(x) : x \in MailId} = {r \in RowNames : r[1] = "mail_money"} BY DEF RowNames, Fees, MailMoney
<1>6. {MailCod(x) : x \in MailId} = {r \in RowNames : r[1] = "mail_cod"} BY DEF RowNames, Fees, MailCod
<1>7. {MailItem(x) : x \in Item} = {r \in RowNames : r[1] = "mail_item"} BY DEF RowNames, Fees, MailItem
<1>8. {MailItemTo(x) : x \in Item} = {r \in RowNames : r[1] = "mail_item_to"} BY DEF RowNames, Fees, MailItemTo
<1>9. {GivenUp(x) : x \in Item} = {r \in RowNames : r[1] = "given_up"} BY DEF RowNames, Fees, GivenUp
<1>10. {AuctionRow(x) : x \in Item} = {r \in RowNames : r[1] = "auction"} BY DEF RowNames, Fees, AuctionRow
<1>11. {BidRow(x) : x \in Item} = {r \in RowNames : r[1] = "auction_bid"} BY DEF RowNames, Fees, BidRow
<1>12. {Fees} = {r \in RowNames : r[1] = "fees"} BY DEF RowNames, Fees
<1> QED BY <1>1, <1>2, <1>3, <1>4, <1>5, <1>6, <1>7, <1>8, <1>9, <1>10, <1>11, <1>12
\* The tables at the start.
LEMMA StartTable ==
    ASSUME \A p \in Player : InitMoney[p] <= MaxMoney
    PROVE  /\ GoodTable(InitRows ++ MailInitRows ++ AuctionInitRows)
           /\ \A i \in Item :
                (InitRows ++ MailInitRows ++ AuctionInitRows)[AuctionRow(i)] = NoAuction
<1> USE StartKind, Kinds, RowTypeOf, StoreAssumption, MailAssumption, AuctionAssumption
<1>1. StartRows(InitRows, {"gold"} \cup {"item"})
    <2> DEFINE a == [r \in {GoldRow(p) : p \in Player} |-> InitMoney[r[2]]]
               b == [r \in {ItemRow(i) : i \in Item} |-> InitOwner[r[2]]]
    <2>1. ASSUME NEW r \in DOMAIN a PROVE a[r] \in 0 .. MaxMoney
        <3>1. PICK p \in Player : r = GoldRow(p) OBVIOUS
        <3>2. a[r] = InitMoney[p] BY <3>1, RowKeys
        <3>3. InitMoney[p] \in Nat /\ InitMoney[p] <= MaxMoney OBVIOUS
        <3> QED BY <3>2, <3>3
    <2>2. ASSUME NEW r \in DOMAIN b PROVE b[r] \in Player \cup {Nobody}
        <3>1. PICK i \in Item : r = ItemRow(i) OBVIOUS
        <3>2. b[r] = InitOwner[i] BY <3>1, RowKeys
        <3> QED BY <3>2
    <2>3. StartRows(a, {"gold"})
        <3>1. DOMAIN a = {r \in RowNames : r[1] = "gold"} OBVIOUS
        <3> HIDE DEF a
        <3> QED BY <2>1, <3>1
    <2>4. StartRows(b, {"item"})
        <3>1. DOMAIN b = {r \in RowNames : r[1] = "item"} OBVIOUS
        <3> HIDE DEF b
        <3> QED BY <2>2, <3>1
    <2>5. InitRows = a ++ b BY DEF InitRows
    <2> HIDE DEF a, b
    <2> QED BY <2>3, <2>4, <2>5, StartOver
<1>2. StartRows([r \in {MailRow(m) : m \in MailId} |-> FALSE], {"mail"}) OBVIOUS
<1>3. StartRows([r \in {MailTo(m) : m \in MailId} |-> NoMail], {"mail_to"}) OBVIOUS
<1>4. StartRows([r \in {MailMoney(m) : m \in MailId} |-> 0], {"mail_money"}) OBVIOUS
<1>5. StartRows([r \in {MailCod(m) : m \in MailId} |-> 0], {"mail_cod"}) BY CodesNat
<1>6. StartRows([r \in {MailItem(i) : i \in Item} |-> NoMail], {"mail_item"}) OBVIOUS
<1>7. StartRows([r \in {MailItemTo(i) : i \in Item} |-> Nobody], {"mail_item_to"}) OBVIOUS
<1>8. StartRows([r \in {GivenUp(i) : i \in Item} |-> FALSE], {"given_up"}) OBVIOUS
<1>9. StartRows(Write(Fees, 0), {"fees"})
    <2> DEFINE f == Write(Fees, 0)
    <2>1. DOMAIN f = {Fees} /\ f[Fees] = 0 BY Single
    <2> HIDE DEF f
    <2>2. DOMAIN f = {r \in RowNames : r[1] = "fees"} BY <2>1
    <2>3. \A r \in DOMAIN f : f[r] \in RowType["fees"] BY <2>1
    <2>4. StartRows(f, {"fees"}) BY <2>2, <2>3
    <2> QED BY <2>4 DEF f
<1>10. StartRows([r \in {AuctionRow(i) : i \in Item} |-> NoAuction], {"auction"}) OBVIOUS
<1>11. StartRows([r \in {BidRow(i) : i \in Item} |-> [bidder |-> Nobody, bid |-> 0]], {"auction_bid"})
    OBVIOUS
<1>12. StartRows(MailInitRows, {"mail"} \cup {"mail_to"} \cup {"mail_money"} \cup {"mail_cod"}
                                \cup {"mail_item"} \cup {"mail_item_to"} \cup {"given_up"} \cup {"fees"})
    BY <1>2, <1>3, <1>4, <1>5, <1>6, <1>7, <1>8, <1>9, StartOver, Zenon DEF MailInitRows
<1>13. StartRows(AuctionInitRows, {"auction"} \cup {"auction_bid"})
    BY <1>10, <1>11, StartOver, Zenon DEF AuctionInitRows
<1> DEFINE f == InitRows ++ MailInitRows ++ AuctionInitRows
           K == ({"gold"} \cup {"item"})
                \cup ({"mail"} \cup {"mail_to"} \cup {"mail_money"} \cup {"mail_cod"}
                      \cup {"mail_item"} \cup {"mail_item_to"} \cup {"given_up"} \cup {"fees"})
                \cup ({"auction"} \cup {"auction_bid"})
<1>14. StartRows(f, K) BY <1>1, <1>12, <1>13, StartOver, Zenon
<1> HIDE DEF f
<1>15. \A r \in RowNames : r[1] \in K BY DEF RowNames, Fees
<1> HIDE DEF K
<1>16. DOMAIN f = RowNames /\ Typed(f) BY <1>14, <1>15 DEF StartRows
<1>17. \A m \in MailId : f[MailRow(m)] = FALSE /\ f[MailCod(m)] = 0
    BY <1>14, <1>16, RowKinds DEF StartRows
<1>18. GoodTable(f) BY <1>16, <1>17 DEF GoodTable
<1>19. ASSUME NEW i \in Item PROVE f[AuctionRow(i)] = NoAuction
    <2> DEFINE r == AuctionRow(i)
    <2>1. r[1] = "auction" /\ r \in {AuctionRow(j) : j \in Item} BY RowKinds
    <2>2. AuctionInitRows[r] = NoAuction /\ r \in DOMAIN AuctionInitRows
        BY <2>1 DEF AuctionInitRows, ++
    <2> HIDE DEF r
    <2>3. r \notin DOMAIN InitRows /\ r \notin DOMAIN MailInitRows
        BY <1>1, <1>12, <2>1 DEF StartRows
    <2> DEFINE a == InitRows
               b == MailInitRows
               c == AuctionInitRows
    <2> HIDE DEF a, b, c
    <2>4. ((a ++ b) ++ c)[r] = c[r] BY <2>2, <2>3 DEF ++, a, b, c
    <2> QED BY <2>2, <2>4 DEF f, a, b, c, r
<1> QED BY <1>18, <1>19 DEF f

\* The types hold at the start.
LEMMA InitTypes ==
    ASSUME \A p \in Player : InitMoney[p] <= MaxMoney, Init PROVE TypeInv
<1>1. GoodTable(db) BY StartTable DEF Init
<1>2. /\ online = Player /\ inv = [p \in Player |-> {i \in Item : InitOwner[i] = p}]
      /\ money = InitMoney /\ queue = <<>> /\ crashes = 0
      /\ box = [p \in Player |-> NoRows] /\ world = "up"
      /\ auction = [i \in Item |-> NoAuction] /\ aitems = {}
    BY DEF Init, StoreInit, MailInit
<1>3. NoRows \in Boxes
    <2>1. NoRows \in [{} -> MailType] BY DEF NoRows
    <2> QED BY <2>1 DEF Boxes
<1>4. money \in [Player -> 0 .. MaxMoney] BY <1>2, StoreAssumption
<1>5. PlayersTyped BY <1>2, <1>3, <1>4 DEF PlayersTyped, Up
<1>6. HouseTyped BY <1>2, StoreAssumption DEF HouseTyped
<1>7. TablesTyped BY <1>1, <1>2, StoreAssumption DEF TablesTyped
<1> QED BY <1>5, <1>6, <1>7 DEF TypeInv
-----------------------------------------------------------------------------
(***************************************************************************)
(* With one worker the queue is the history of the tables, and the         *)
(* auctions in memory are those at its end.                                *)
(***************************************************************************)

\* The listing l and the bid b belong together.
Below(l, b) == l # NoAuction /\ l.buyout # 0 => b.bid < l.buyout
BidOf(i) == [bidder |-> auction[i].bidder, bid |-> auction[i].bid]

\* At every moment the tables hold bids below the buyouts.
BidHistory ==
    \A i \in Item : \A n \in 0 .. Len(queue) : Below(Value(n, AuctionRow(i)), Value(n, BidRow(i)))

\* The tables in the end show what the memory shows.  A row of an auction in
\* memory may be missing if the auction expired while the server was down.
AuctionsBacked ==
    \A i \in Item :
        /\ OnSale(i) => /\ \/ Latest(AuctionRow(i)) = Listing(i)
                           \/ ExpireWhileDown /\ Latest(AuctionRow(i)) = NoAuction
                        /\ Latest(BidRow(i)) = BidOf(i)
        /\ Up /\ ~OnSale(i) => Latest(AuctionRow(i)) = NoAuction

\* Before the server has loaded the auctions, the queue holds at most the ends
\* of expired ones.
ColdStart ==
    ~Up => /\ \A i \in Item : ~OnSale(i)
           /\ \A k \in DOMAIN queue : \A i \in Item :
                /\ BidRow(i) \notin DOMAIN queue[k].rows
                /\ AuctionRow(i) \in DOMAIN queue[k].rows =>
                        ExpireWhileDown /\ queue[k].rows[AuctionRow(i)] = NoAuction

HouseInv ==
    /\ aitems = {i \in Item : OnSale(i)}
    /\ BidsBelow /\ BidHistory /\ AuctionsBacked /\ ColdStart

\* Nothing of the auction house changes, and the entries es are about mails.
LEMMA HouseIdle ==
    ASSUME HouseInv, TypeInv, NEW es \in Seq(EntryType), queue' = queue \o es, db' = db,
           \A k \in DOMAIN es : MailOnly(es[k].rows), UNCHANGED auctionVars, world' = world
    PROVE  HouseInv'
<1>1. queue \in Seq(EntryType) BY DEF TypeInv, TablesTyped
<1>2. \A i : OnSale(i)' = OnSale(i) /\ Listing(i)' = Listing(i) /\ BidOf(i)' = BidOf(i)
    BY DEF auctionVars, OnSale, Listing, BidOf
<1>3. Up' = Up BY DEF Up
<1>4. \A k \in DOMAIN es : \A i : /\ AuctionRow(i) \notin DOMAIN es[k].rows
                                 /\ BidRow(i) \notin DOMAIN es[k].rows
    <2> SUFFICES ASSUME NEW k \in DOMAIN es, NEW i
                 PROVE  AuctionRow(i) \notin DOMAIN es[k].rows /\ BidRow(i) \notin DOMAIN es[k].rows
        OBVIOUS
    <2>1. AuctionRow(i)[1] = "auction" /\ BidRow(i)[1] = "auction_bid" BY RowKeys
    <2>2. \A r \in DOMAIN es[k].rows : r[1] \notin {"auction", "auction_bid"} BY DEF MailOnly
    <2> QED BY <2>1, <2>2
<1>5. ASSUME NEW i, NEW r \in {AuctionRow(i), BidRow(i)}
      PROVE  /\ \A n \in 0 .. Len(queue) : Value(n, r)' = Value(n, r)
             /\ \A n \in Len(queue) .. Len(queue) + Len(es) : Value(n, r)' = Latest(r)
             /\ Latest(r)' = Latest(r)
    <2>1. /\ \A n \in 0 .. Len(queue) : Value(n, r)' = Value(n, r)
          /\ \A V : Latest(r) \in V
                     /\ (\A k \in DOMAIN es : r \in DOMAIN es[k].rows => es[k].rows[r] \in V)
                => /\ \A n \in Len(queue) .. Len(queue) + Len(es) : Value(n, r)' \in V
                   /\ Latest(r)' \in V
        BY <1>1, ConcatValues
    <2>2. Latest(r) \in {Latest(r)} /\ \A k \in DOMAIN es : r \notin DOMAIN es[k].rows BY <1>4
    <2>3. /\ \A n \in Len(queue) .. Len(queue) + Len(es) : Value(n, r)' \in {Latest(r)}
          /\ Latest(r)' \in {Latest(r)}
        BY <2>1, <2>2
    <2> QED BY <2>1, <2>3
<1>6. Len(queue') = Len(queue) + Len(es) /\ Len(queue) \in Nat /\ Len(es) \in Nat
    BY <1>1, ConcatProperties, LenProperties
<1>7. BidHistory'
    <2> SUFFICES ASSUME NEW i \in Item, NEW n \in 0 .. Len(queue')
                 PROVE  Below(Value(n, AuctionRow(i))', Value(n, BidRow(i))')
        BY Zenon DEF BidHistory
    <2>1. CASE n <= Len(queue)
        <3>1. Value(n, AuctionRow(i))' = Value(n, AuctionRow(i)) /\ Value(n, BidRow(i))' = Value(n, BidRow(i))
            BY <1>5, <1>6, <2>1
        <3> QED BY <1>6, <2>1, <3>1 DEF HouseInv, BidHistory
    <2>2. CASE n > Len(queue)
        <3>1. Value(n, AuctionRow(i))' = Latest(AuctionRow(i)) /\ Value(n, BidRow(i))' = Latest(BidRow(i))
            BY <1>5, <1>6, <2>2
        <3>2. /\ Latest(AuctionRow(i)) = Value(Len(queue), AuctionRow(i))
              /\ Latest(BidRow(i)) = Value(Len(queue), BidRow(i))
            BY <1>1, LatestIsLast
        <3>3. Len(queue) \in 0 .. Len(queue) BY <1>6
        <3> QED BY <3>1, <3>2, <3>3 DEF HouseInv, BidHistory
    <2> QED BY <1>6, <2>1, <2>2
<1>8. AuctionsBacked' BY <1>2, <1>3, <1>5 DEF HouseInv, AuctionsBacked
<1>9. BidsBelow' BY DEF HouseInv, BidsBelow, auctionVars, OnSale
<1>10. ColdStart'
    <2>1. ASSUME NEW k \in DOMAIN queue'
          PROVE  \/ k \in DOMAIN queue /\ queue'[k] = queue[k]
                 \/ \E l \in DOMAIN es : queue'[k] = es[l]
        BY <1>1, <1>6
    <2> QED BY <1>2, <1>3, <1>4, <2>1 DEF HouseInv, ColdStart
<1>11. aitems' = {i \in Item : OnSale(i)'} BY <1>2 DEF HouseInv, auctionVars
<1> QED BY <1>7, <1>8, <1>9, <1>10, <1>11 DEF HouseInv

\* The transaction that a step commits is of the right type.
LEMMA Committed ==
    ASSUME TypeInv, TypeInv', NEW f, Commit(f)
    PROVE  /\ [load |-> Nobody, rows |-> f] \in EntryType
           /\ queue' = Append(queue, [load |-> Nobody, rows |-> f])
<1> DEFINE e == [load |-> Nobody, rows |-> f]
<1>1. queue' = Append(queue, e) BY DEF Commit
<1> HIDE DEF e
<1>2. queue \in Seq(EntryType) /\ queue' \in Seq(EntryType) BY DEF TypeInv, TablesTyped
<1>3. Len(queue) \in Nat /\ Len(queue') = Len(queue) + 1 /\ queue'[Len(queue) + 1] = e
    BY <1>1, <1>2, LenProperties
<1>4. Len(queue) + 1 \in 1 .. Len(queue') BY <1>3
<1>5. queue'[Len(queue) + 1] \in EntryType BY <1>2, <1>4, ElementOfSeq
<1> QED BY <1>1, <1>3, <1>5 DEF e

\* A commit about players and mails.
LEMMA HouseMail ==
    ASSUME HouseInv, TypeInv, TypeInv', NEW f, MailOnly(f), Commit(f), db' = db,
           UNCHANGED auctionVars, world' = world
    PROVE  HouseInv'
<1> DEFINE e == [load |-> Nobody, rows |-> f]
<1>1. e \in EntryType /\ queue' = Append(queue, e) /\ e.rows = f BY Committed
<1> HIDE DEF e
<1>2. queue \in Seq(EntryType) BY DEF TypeInv, TablesTyped
<1>3. queue' = queue \o <<e>> /\ <<e>> \in Seq(EntryType) BY <1>1, <1>2, AppendIsConcat
<1>4. \A k \in DOMAIN <<e>> : MailOnly(<<e>>[k].rows) BY <1>1
<1> QED BY <1>3, <1>4, HouseIdle

\* The auction of item i changes, in the transaction e.
LEMMA HouseStep ==
    ASSUME HouseInv, TypeInv, Up, world' = world, db' = db,
           NEW e \in EntryType, queue' = Append(queue, e), NEW i \in Item,
           \A j \in Item \ {i} : /\ auction'[j] = auction[j]
                                 /\ AuctionRow(j) \notin DOMAIN e.rows
                                 /\ BidRow(j) \notin DOMAIN e.rows,
           Below(Latest(AuctionRow(i))', Latest(BidRow(i))'),
           OnSale(i)' => /\ \/ Latest(AuctionRow(i))' = Listing(i)'
                            \/ ExpireWhileDown /\ Latest(AuctionRow(i))' = NoAuction
                         /\ Latest(BidRow(i))' = BidOf(i)'
                         /\ auction'[i].buyout # 0 => auction'[i].bid < auction'[i].buyout,
           ~OnSale(i)' => Latest(AuctionRow(i))' = NoAuction,
           aitems' = {j \in Item : OnSale(j)'}
    PROVE  HouseInv'
<1>1. queue \in Seq(EntryType) BY DEF TypeInv, TablesTyped
<1>2. Up' BY DEF Up
<1>3. /\ \A r : \A n \in 0 .. Len(queue) : Value(n, r)' = Value(n, r)
      /\ \A r : Latest(r)' = IF r \in DOMAIN e.rows THEN e.rows[r] ELSE Latest(r)
      /\ \A r : \A n : n = Len(queue) + 1 => Value(n, r)' = Latest(r)'
      /\ Len(queue') = Len(queue) + 1 /\ Len(queue) \in Nat
    BY <1>1, AppendValues, LenProperties
<1>4. ASSUME NEW j \in Item \ {i}
      PROVE  /\ Latest(AuctionRow(j))' = Latest(AuctionRow(j))
             /\ Latest(BidRow(j))' = Latest(BidRow(j))
    BY <1>3
<1>5. ASSUME NEW j \in Item \ {i}
      PROVE  OnSale(j)' = OnSale(j) /\ Listing(j)' = Listing(j) /\ BidOf(j)' = BidOf(j)
    BY DEF OnSale, Listing, BidOf
<1>6. BidHistory'
    <2> SUFFICES ASSUME NEW j \in Item, NEW n \in 0 .. Len(queue')
                 PROVE  Below(Value(n, AuctionRow(j))', Value(n, BidRow(j))')
        BY Zenon DEF BidHistory
    <2>1. CASE n <= Len(queue)
        <3>1. n \in 0 .. Len(queue) BY <1>3, <2>1
        <3> QED BY <1>3, <3>1 DEF HouseInv, BidHistory
    <2>2. CASE n > Len(queue)
        <3>1. n = Len(queue) + 1 BY <1>3, <2>2
        <3>2. /\ Value(n, AuctionRow(j))' = Latest(AuctionRow(j))'
              /\ Value(n, BidRow(j))' = Latest(BidRow(j))'
            BY <1>3, <3>1
        <3>3. CASE j = i BY <3>2, <3>3
        <3>4. CASE j # i
            <4>1. /\ Latest(AuctionRow(j)) = Value(Len(queue), AuctionRow(j))
                  /\ Latest(BidRow(j)) = Value(Len(queue), BidRow(j))
                BY <1>1, LatestIsLast
            <4>2. Len(queue) \in 0 .. Len(queue) BY <1>3
            <4>3. Below(Latest(AuctionRow(j)), Latest(BidRow(j)))
                BY <4>1, <4>2 DEF HouseInv, BidHistory
            <4> QED BY <1>4, <3>2, <3>4, <4>3
        <3> QED BY <3>3, <3>4
    <2> QED BY <1>3, <2>1, <2>2
<1>7. AuctionsBacked'
    <2> SUFFICES ASSUME NEW j \in Item
                 PROVE  /\ OnSale(j)' => /\ \/ Latest(AuctionRow(j))' = Listing(j)'
                                            \/ /\ ExpireWhileDown
                                               /\ Latest(AuctionRow(j))' = NoAuction
                                         /\ Latest(BidRow(j))' = BidOf(j)'
                        /\ ~OnSale(j)' => Latest(AuctionRow(j))' = NoAuction
        BY Zenon DEF AuctionsBacked
    <2>1. CASE j = i BY <2>1
    <2>2. CASE j # i BY <1>4, <1>5, <2>2 DEF HouseInv, AuctionsBacked
    <2> QED BY <2>1, <2>2
<1>8. BidsBelow'
    <2> SUFFICES ASSUME NEW j \in Item, OnSale(j)', auction'[j].buyout # 0
                 PROVE  auction'[j].bid < auction'[j].buyout
        BY DEF BidsBelow
    <2>1. CASE j = i BY <2>1
    <2>2. CASE j # i BY <1>5, <2>2 DEF HouseInv, BidsBelow
    <2> QED BY <2>1, <2>2
<1>9. ColdStart' BY <1>2 DEF ColdStart
<1> QED BY <1>6, <1>7, <1>8, <1>9 DEF HouseInv

\* An auction is closed.
LEMMA HouseClose ==
    ASSUME HouseInv, TypeInv, TypeInv', Up, NEW i \in Item, RemoveAuction(i),
           NEW f, MailOnly(f), NEW g, MailOnly(g), Commit(f ++ AuctionGone(i) ++ g),
           world' = world, db' = db
    PROVE  HouseInv'
<1> DEFINE h == f ++ AuctionGone(i) ++ g
           e == [load |-> Nobody, rows |-> h]
<1>1. e \in EntryType /\ queue' = Append(queue, e) /\ e.rows = h BY Committed
<1>2. /\ AuctionRow(i) \in DOMAIN h /\ h[AuctionRow(i)] = NoAuction
      /\ \A j : BidRow(j) \notin DOMAIN h
      /\ \A j : j # i => AuctionRow(j) \notin DOMAIN h
    BY ClosingRows
<1> HIDE DEF e, h
<1>3. /\ auction \in [Item -> AuctionRecord \cup {NoAuction}]
      /\ auction' = [auction EXCEPT ![i] = NoAuction] /\ aitems' = aitems \ {i}
    BY DEF TypeInv, HouseTyped, RemoveAuction
<1>4. queue \in Seq(EntryType) BY DEF TypeInv, TablesTyped
<1>5. Latest(AuctionRow(i))' = NoAuction BY <1>1, <1>2, <1>4, AppendValues
<1>6. \A j \in Item \ {i} : /\ auction'[j] = auction[j] /\ AuctionRow(j) \notin DOMAIN e.rows
                            /\ BidRow(j) \notin DOMAIN e.rows
    BY <1>1, <1>2, <1>3
<1>7. ~OnSale(i)' BY <1>3 DEF OnSale
<1>8. aitems' = {j \in Item : OnSale(j)'}
    BY <1>3 DEF HouseInv, OnSale
<1>9. Below(Latest(AuctionRow(i))', Latest(BidRow(i))') BY <1>5 DEF Below
<1> QED BY <1>1, <1>5, <1>6, <1>7, <1>8, <1>9, HouseStep

\* An item is put up for sale.
LEMMA SellHouse ==
    ASSUME HouseInv, TypeInv, TypeInv', NEW p \in Player, NEW i \in Item,
           NEW sb \in StartBids, NEW bo \in Buyouts, HandleAuctionSellItem(p, i, sb, bo)
    PROVE  HouseInv'
<1> DEFINE gold == [money EXCEPT ![p] = Paid(@, Deposit)]
           a == [owner |-> p, bidder |-> Nobody, bid |-> 0, startbid |-> sb,
                 buyout |-> bo, deposit |-> Deposit]
           l == [owner |-> p, startbid |-> sb, buyout |-> bo, deposit |-> Deposit]
           b == [bidder |-> Nobody, bid |-> 0]
           m == GoldRows({p}, gold) ++ Write(ItemRow(i), Nobody)
           h == m ++ Write(AuctionRow(i), l) ++ Write(BidRow(i), b)
           e == [load |-> Nobody, rows |-> h]
<1>1. /\ Up /\ auction' = [auction EXCEPT ![i] = a] /\ aitems' = aitems \cup {i} /\ Commit(h)
      /\ UNCHANGED <<online, db, crashes, box, world>>
    BY DEF HandleAuctionSellItem
<1>2. a \in AuctionRecord /\ a.buyout \in Nat /\ a.bid = 0
    BY AuctionAssumption DEF AuctionRecord
<1>3. /\ l = [owner |-> a.owner, startbid |-> a.startbid, buyout |-> a.buyout, deposit |-> a.deposit]
      /\ b = [bidder |-> a.bidder, bid |-> a.bid] /\ l.buyout = a.buyout /\ b.bid = 0
    OBVIOUS
<1>4. MailOnly(m)
    <2>1. MailOnly(GoldRows({p}, gold)) /\ MailOnly(Write(ItemRow(i), Nobody)) BY MailOnlyRows
    <2> HIDE DEF gold
    <2> QED BY <2>1, MailOnlyOver
<1>5. e \in EntryType /\ queue' = Append(queue, e) /\ e.rows = h BY <1>1, Committed
<1> HIDE DEF a, l, b, m, e
<1>6. AuctionRow(i)[1] = "auction" /\ BidRow(i)[1] = "auction_bid" BY RowKeys
<1>7. /\ DOMAIN h = DOMAIN m \cup {AuctionRow(i)} \cup {BidRow(i)}
      /\ AuctionRow(i) \notin DOMAIN m /\ BidRow(i) \notin DOMAIN m /\ AuctionRow(i) # BidRow(i)
    BY <1>4, <1>6 DEF MailOnly, ++, Write
<1>8. h[AuctionRow(i)] = l /\ h[BidRow(i)] = b BY <1>7 DEF ++, Write
<1> HIDE DEF h
<1>9. ASSUME NEW j, j # i PROVE AuctionRow(j) \notin DOMAIN h /\ BidRow(j) \notin DOMAIN h
    <2>1. /\ AuctionRow(j)[1] = "auction" /\ AuctionRow(j)[2] = j /\ AuctionRow(i)[2] = i
          /\ BidRow(j)[1] = "auction_bid" /\ BidRow(j)[2] = j /\ BidRow(i)[2] = i
        BY RowKeys
    <2> QED BY <1>4, <1>6, <1>7, <1>9, <2>1 DEF MailOnly
<1>10. auction \in [Item -> AuctionRecord \cup {NoAuction}] /\ queue \in Seq(EntryType)
    BY DEF TypeInv, HouseTyped, TablesTyped
<1>11. Latest(AuctionRow(i))' = l /\ Latest(BidRow(i))' = b
    BY <1>1, <1>5, <1>7, <1>8, <1>10, AppendValues
<1>12. auction'[i] = a BY <1>1, <1>10
<1>13. Listing(i)' = l /\ BidOf(i)' = b
    <2>1. Listing(i)' = [owner |-> auction'[i].owner, startbid |-> auction'[i].startbid,
                         buyout |-> auction'[i].buyout, deposit |-> auction'[i].deposit]
        BY DEF Listing
    <2>2. BidOf(i)' = [bidder |-> auction'[i].bidder, bid |-> auction'[i].bid] BY DEF BidOf
    <2> QED BY <1>3, <1>12, <2>1, <2>2
<1>14. OnSale(i)' BY <1>2, <1>12, AuctionAssumption DEF OnSale
<1>15. aitems' = {j \in Item : OnSale(j)'} BY <1>1, <1>10, <1>14 DEF HouseInv, OnSale
<1>16. a.buyout # 0 => a.bid < a.buyout BY <1>2
<1>17. Below(l, b) BY <1>2, <1>3 DEF Below
<1>18. \A j \in Item \ {i} : /\ auction'[j] = auction[j] /\ AuctionRow(j) \notin DOMAIN e.rows
                             /\ BidRow(j) \notin DOMAIN e.rows
    BY <1>1, <1>5, <1>9, <1>10
<1> QED BY <1>1, <1>5, <1>11, <1>12, <1>13, <1>14, <1>15, <1>16, <1>17, <1>18, HouseStep

\* A bid.
LEMMA BidHouse ==
    ASSUME HouseInv, TypeInv, TypeInv', NEW p \in Player, NEW i \in Item, NEW price \in Prices,
           PlaceBid(p, i, price)
    PROVE  HouseInv'
<1> DEFINE ds == Outbid(p, i)
           gold == [money EXCEPT ![p] = Paid(@, BidPaid(p, i, price))]
           b == [bidder |-> p, bid |-> price]
           m == GoldRows({p}, gold) ++ SendRows(ds)
           h == m ++ Write(BidRow(i), b)
           e == [load |-> Nobody, rows |-> h]
           a == [auction[i] EXCEPT !.bidder = p, !.bid = price]
<1>1. /\ ValidBid(p, i, price)
      /\ price < auction[i].buyout \/ auction[i].buyout = 0
      /\ auction' = [auction EXCEPT ![i].bidder = p, ![i].bid = price] /\ Commit(h)
      /\ UNCHANGED <<online, inv, db, crashes, world, aitems>>
    BY DEF PlaceBid
<1>2. /\ auction[i] \in AuctionRecord /\ price \in Nat /\ auction[i].buyout \in Nat
    BY <1>1, BidFacts
<1>3. Up /\ OnSale(i) BY <1>1 DEF ValidBid
<1>4. auction \in [Item -> AuctionRecord \cup {NoAuction}] /\ queue \in Seq(EntryType)
    BY DEF TypeInv, HouseTyped, TablesTyped
<1>5. auction' = [auction EXCEPT ![i] = a] BY <1>1, <1>4
<1>6. /\ a \in AuctionRecord /\ a.bidder = p /\ a.bid = price /\ a.owner = auction[i].owner
      /\ a.startbid = auction[i].startbid /\ a.buyout = auction[i].buyout
      /\ a.deposit = auction[i].deposit
    BY <1>2 DEF AuctionRecord
<1>7. MailOnly(m)
    <2>1. MailOnly(GoldRows({p}, gold)) /\ MailOnly(SendRows(ds)) BY MailOnlyRows
    <2> HIDE DEF gold, ds
    <2> QED BY <2>1, MailOnlyOver
<1>8. e \in EntryType /\ queue' = Append(queue, e) /\ e.rows = h BY <1>1, Committed
<1>9. b.bid = price OBVIOUS
<1> HIDE DEF a, m, e
<1>10. BidOf(i)' = b
    <2>1. auction'[i] = a BY <1>4, <1>5
    <2> QED BY <1>6, <2>1 DEF BidOf
<1> HIDE DEF b
<1>11. BidRow(i)[1] = "auction_bid" BY RowKeys
<1>12. BidRow(i) \notin DOMAIN m BY <1>7, <1>11 DEF MailOnly
<1>13. DOMAIN h = DOMAIN m \cup {BidRow(i)} /\ h[BidRow(i)] = b BY <1>12 DEF ++, Write
<1> HIDE DEF h
<1>14. ASSUME NEW j PROVE AuctionRow(j) \notin DOMAIN h /\ (j # i => BidRow(j) \notin DOMAIN h)
    <2>1. /\ AuctionRow(j)[1] = "auction" /\ BidRow(j)[1] = "auction_bid" /\ BidRow(j)[2] = j
          /\ BidRow(i)[2] = i
        BY RowKeys
    <2> QED BY <1>7, <1>11, <1>13, <2>1 DEF MailOnly
<1>15. Latest(AuctionRow(i))' = Latest(AuctionRow(i)) /\ Latest(BidRow(i))' = b
    BY <1>1, <1>4, <1>8, <1>13, <1>14, AppendValues
<1>16. auction'[i] = a BY <1>4, <1>5
<1>17. Listing(i)' = Listing(i) BY <1>6, <1>16 DEF Listing
<1>18. OnSale(i)' BY <1>6, <1>16, AuctionAssumption DEF OnSale
<1>19. \/ Latest(AuctionRow(i)) = Listing(i)
       \/ ExpireWhileDown /\ Latest(AuctionRow(i)) = NoAuction
    BY <1>3 DEF HouseInv, AuctionsBacked
<1>20. Below(Latest(AuctionRow(i)), b)
    <2>1. Listing(i).buyout = auction[i].buyout BY DEF Listing
    <2> QED BY <1>1, <1>9, <1>19, <2>1 DEF Below
<1>21. aitems' = {j \in Item : OnSale(j)'} BY <1>1, <1>3, <1>4, <1>5, <1>18 DEF HouseInv, OnSale
<1>22. a.buyout # 0 => a.bid < a.buyout BY <1>1, <1>6
<1>23. \A j \in Item \ {i} : /\ auction'[j] = auction[j] /\ AuctionRow(j) \notin DOMAIN e.rows
                             /\ BidRow(j) \notin DOMAIN e.rows
    BY <1>4, <1>5, <1>8, <1>14
<1> QED BY <1>1, <1>3, <1>8, <1>10, <1>15, <1>16, <1>17, <1>18, <1>19, <1>20, <1>21, <1>22, <1>23,
           HouseStep

\* An end at once, a cancelled and an expired auction.
LEMMA CloseHouse ==
    ASSUME HouseInv, TypeInv, TypeInv', NEW i \in Item,
           \/ \E p \in Player, price \in Prices : Buyout(p, i, price)
           \/ \E p \in Player : HandleAuctionRemoveItem(p, i)
           \/ Update(i)
    PROVE  HouseInv'
<1>1. ASSUME NEW p \in Player, NEW price \in Prices, Buyout(p, i, price) PROVE HouseInv'
    <2> DEFINE a == auction[i]
               sold == [a EXCEPT !.bidder = p, !.bid = a.buyout]
               gold == [money EXCEPT ![p] = Paid(@, BidPaid(p, i, a.buyout))]
               ds == Outbid(p, i) \o SendAuctionSuccessfulMail(sold) \o SendAuctionWonMail(i, sold)
               f == GoldRows({p}, gold) ++ SendRows(ds)
               g == Fee(GetAuctionCut(sold.bid))
    <2>1. /\ ValidBid(p, i, price) /\ RemoveAuction(i) /\ Commit(f ++ AuctionGone(i) ++ g)
          /\ db' = db /\ world' = world
        BY <1>1 DEF Buyout
    <2>2. MailOnly(GoldRows({p}, gold)) /\ MailOnly(SendRows(ds)) /\ MailOnly(g) BY MailOnlyRows
    <2> HIDE DEF gold, ds, g
    <2>3. MailOnly(f) BY <2>2, MailOnlyOver
    <2> HIDE DEF f
    <2>4. Up BY <2>1 DEF ValidBid
    <2> QED BY <2>1, <2>2, <2>3, <2>4, HouseClose
<1>2. ASSUME NEW p \in Player, HandleAuctionRemoveItem(p, i) PROVE HouseInv'
    <2> DEFINE a == auction[i]
               gold == [money EXCEPT ![p] = Paid(@, CancelCost(i))]
               ds == (IF a.bidder = Nobody THEN <<>> ELSE SendAuctionCancelledToBidderMail(a))
                        \o <<AuctionDraft(p, 0, i)>>
               f == GoldRows({p}, gold) ++ SendRows(ds)
               g == Fee(CancelCost(i) + a.deposit)
    <2>1. /\ Up /\ RemoveAuction(i) /\ Commit(f ++ AuctionGone(i) ++ g) /\ db' = db /\ world' = world
        BY <1>2 DEF HandleAuctionRemoveItem
    <2>2. MailOnly(GoldRows({p}, gold)) /\ MailOnly(SendRows(ds)) /\ MailOnly(g) BY MailOnlyRows
    <2> HIDE DEF gold, ds, g
    <2>3. MailOnly(f) BY <2>2, MailOnlyOver
    <2> HIDE DEF f
    <2> QED BY <2>1, <2>2, <2>3, HouseClose
<1>3. CASE Update(i)
    <2> DEFINE f == SendRows(ExpiryDrafts(i, auction[i]))
               g == Fee(ExpiryFee(auction[i]))
    <2>1. /\ Up /\ RemoveAuction(i) /\ Commit(f ++ AuctionGone(i) ++ g) /\ db' = db /\ world' = world
        BY <1>3 DEF Update
    <2>2. MailOnly(f) /\ MailOnly(g) BY MailOnlyRows
    <2> HIDE DEF f, g
    <2> QED BY <2>1, <2>2, HouseClose
<1> QED BY <1>1, <1>2, <1>3

\* Neither the house nor the tables change.
LEMMA HouseSame ==
    ASSUME HouseInv, UNCHANGED auctionVars, UNCHANGED <<db, queue, world>>
    PROVE  HouseInv'
<1>1. \A i : OnSale(i)' = OnSale(i) /\ Listing(i)' = Listing(i) /\ BidOf(i)' = BidOf(i)
    BY DEF auctionVars, OnSale, Listing, BidOf
<1>2. \A r : Latest(r)' = Latest(r) BY LatestSame
<1>3. Up' = Up BY DEF Up
<1>4. ASSUME NEW n, NEW r PROVE Value(n, r)' = Value(n, r) BY ValuePrimed DEF Value
<1>5. BidHistory'
    <2> SUFFICES ASSUME NEW i \in Item, NEW n \in 0 .. Len(queue')
                 PROVE  Below(Value(n, AuctionRow(i))', Value(n, BidRow(i))')
        BY Zenon DEF BidHistory
    <2> QED BY <1>4 DEF HouseInv, BidHistory
<1>6. AuctionsBacked' BY <1>1, <1>2, <1>3 DEF HouseInv, AuctionsBacked
<1>7. BidsBelow' /\ aitems' = {i \in Item : OnSale(i)'}
    BY <1>1 DEF HouseInv, BidsBelow, auctionVars
<1>8. ColdStart' BY <1>1, <1>3 DEF HouseInv, ColdStart
<1> QED BY <1>5, <1>6, <1>7, <1>8 DEF HouseInv

\* The steps of a player with his mails.
LEMMA MailHouse ==
    ASSUME HouseInv, TypeInv, TypeInv', UNCHANGED auctionVars, NEW p \in Player, MailStep(p),
           ~Login(p), ~\E k \in 1 .. MaxQueue : Load(p, k)
    PROVE  HouseInv'
<1>1. ASSUME NEW q \in Player, NEW i \in Item \cup {NoItem}, NEW g \in Amounts, NEW cod \in Amounts,
             HandleSendMail(p, q, i, g, cod)
      PROVE  HouseInv'
    <2> DEFINE ds == <<Draft(q, p, TRUE, FALSE, g, Uint32(cod), i)>>
               gold == [money EXCEPT ![p] = Paid(@, MailCost + g)]
               w == IF i = NoItem THEN NoRows ELSE Write(ItemRow(i), Nobody)
               f == GoldRows({p}, gold) ++ SendRows(ds) ++ Fee(MailCost) ++ w
    <2>1. Commit(f) /\ db' = db /\ world' = world BY <1>1 DEF HandleSendMail
    <2>2. /\ MailOnly(GoldRows({p}, gold)) /\ MailOnly(SendRows(ds)) /\ MailOnly(Fee(MailCost))
          /\ MailOnly(w)
        BY MailOnlyRows
    <2> HIDE DEF gold, ds, w
    <2>3. MailOnly(f) BY <2>2, MailOnlyOver
    <2> HIDE DEF f
    <2> QED BY <2>1, <2>3, HouseMail
<1>2. ASSUME NEW m \in MailId, HandleMailDelete(p, m) \/ HandleMailMarkAsRead(p, m) PROVE HouseInv'
    <2>1. UNCHANGED <<db, queue, world>>
        BY <1>2 DEF HandleMailDelete, HandleMailMarkAsRead, storeVars
    <2> QED BY <2>1, HouseSame
<1>3. ASSUME NEW m \in MailId, HandleMailReturnToSender(p, m) PROVE HouseInv'
    <2> DEFINE mail == box[p][m]
               ds == IF mail.address.normal
                     THEN <<Draft(mail.address.from, p, TRUE, TRUE, mail.money, 0, mail.item)>>
                     ELSE <<>>
               f == SendRows(ds) ++ Write(MailRow(m), FALSE)
               g == DeleteRows(p, {m}) ++ Fee(mail.money)
    <2>1. Commit(f) \/ Commit(g) BY <1>3 DEF HandleMailReturnToSender
    <2>2. db' = db /\ world' = world BY <1>3 DEF HandleMailReturnToSender
    <2>3. /\ MailOnly(SendRows(ds)) /\ MailOnly(Write(MailRow(m), FALSE))
          /\ MailOnly(DeleteRows(p, {m})) /\ MailOnly(Fee(mail.money))
        BY MailOnlyRows
    <2> HIDE DEF ds, mail
    <2>4. MailOnly(f) /\ MailOnly(g) BY <2>3, MailOnlyOver
    <2> HIDE DEF f, g
    <2> QED BY <2>1, <2>2, <2>4, HouseMail
<1>4. ASSUME NEW m \in MailId, HandleMailTakeItem(p, m) PROVE HouseInv'
    <2>0. PICK z \in Int : TakesItem(p, m, z) BY <1>4, TakeItemChange DEF TypeInv
    <2> DEFINE mail == box[p][m]
               ds == IF mail.cod > 0
                     THEN <<Draft(mail.address.from, p, TRUE, TRUE, mail.cod, 0, NoItem)>>
                     ELSE <<>>
               gold == [money EXCEPT ![p] = ModifyMoney(@, z)]
               f == GoldRows({p}, gold) ++ Write(ItemRow(mail.item), p) ++ TakenRows(p, m)
                        ++ SendRows(ds) ++ SaveMail(p) ++ Fee(MoneyIn(p, Deleted(p)))
    <2>1. Commit(f) /\ db' = db /\ world' = world BY <1>4, <2>0 DEF HandleMailTakeItem, TakesItem
    <2>2. MailOnly(TakenRows(p, m)) BY MailOnlyRows, MailOnlyOver DEF TakenRows
    <2>3. /\ MailOnly(GoldRows({p}, gold)) /\ MailOnly(Write(ItemRow(mail.item), p))
          /\ MailOnly(SendRows(ds)) /\ MailOnly(SaveMail(p)) /\ MailOnly(Fee(MoneyIn(p, Deleted(p))))
        BY MailOnlyRows DEF SaveMail
    <2> HIDE DEF gold, ds, mail
    <2>4. MailOnly(f) BY <2>2, <2>3, MailOnlyOver
    <2> HIDE DEF f
    <2> QED BY <2>1, <2>4, HouseMail
<1>5. ASSUME NEW m \in MailId, NEW g \in 0 .. MaxMoney, HandleMailTakeMoney(p, m, g) PROVE HouseInv'
    <2> DEFINE gold == [money EXCEPT ![p] = Received(@, g)]
               z == Fee(MoneyIn(p, Deleted(p)) + box[p][m].money - g)
               f == GoldRows({p}, gold) ++ Write(MailMoney(m), 0) ++ SaveMail(p) ++ z
    <2>1. Commit(f) /\ db' = db /\ world' = world BY <1>5 DEF HandleMailTakeMoney
    <2>2. /\ MailOnly(GoldRows({p}, gold)) /\ MailOnly(Write(MailMoney(m), 0))
          /\ MailOnly(SaveMail(p)) /\ MailOnly(z)
        BY MailOnlyRows DEF SaveMail
    <2> HIDE DEF gold, z
    <2>3. MailOnly(f) BY <2>2, MailOnlyOver
    <2> HIDE DEF f
    <2> QED BY <2>1, <2>3, HouseMail
<1>6. CASE SaveToDB(p)
    <2> DEFINE f == GoldRows({p}, money) ++ SaveMail(p) ++ Fee(MoneyIn(p, Deleted(p)))
    <2>1. Commit(f) /\ db' = db /\ world' = world BY <1>6 DEF SaveToDB
    <2>2. MailOnly(f) BY MailOnlyRows, MailOnlyOver DEF SaveMail
    <2> HIDE DEF f
    <2> QED BY <2>1, <2>2, HouseMail
<1>7. CASE Logout(p)
    <2> DEFINE f == GoldRows({p}, money) ++ (SaveMail(p) ++ Fee(MoneyIn(p, Deleted(p))))
    <2>1. Commit(f) /\ db' = db /\ world' = world BY <1>7 DEF Logout, LogoutPlayer
    <2>2. MailOnly(f) BY MailOnlyRows, MailOnlyOver DEF SaveMail
    <2> HIDE DEF f
    <2> QED BY <2>1, <2>2, HouseMail
<1> QED BY <1>1, <1>2, <1>3, <1>4, <1>5, <1>6, <1>7 DEF MailStep

\* A query writes nothing.
LEMMA LoginHouse ==
    ASSUME HouseInv, TypeInv, TypeInv', UNCHANGED auctionVars, NEW p \in Player, Login(p)
    PROVE  HouseInv'
<1> DEFINE e == Query(p)
<1>1. queue' = Append(queue, e) /\ UNCHANGED <<db, world>>
    BY DEF Login, LoginPlayer, mailVars
<1>2. e.rows = NoRows BY DEF Query, NoRows
<1> HIDE DEF e
<1>3. queue \in Seq(EntryType) /\ queue' \in Seq(EntryType) BY DEF TypeInv, TablesTyped
<1>4. Len(queue) \in Nat /\ Len(queue') = Len(queue) + 1 /\ queue'[Len(queue) + 1] = e
    BY <1>1, <1>3, LenProperties
<1>5. Len(queue) + 1 \in 1 .. Len(queue') BY <1>4
<1>6. e \in EntryType BY <1>3, <1>4, <1>5, ElementOfSeq
<1>7. queue' = queue \o <<e>> /\ <<e>> \in Seq(EntryType) BY <1>1, <1>3, <1>6, AppendIsConcat
<1>8. \A k \in DOMAIN <<e>> : MailOnly(<<e>>[k].rows) BY <1>2, MailOnlyRows
<1> QED BY <1>1, <1>7, <1>8, HouseIdle

\* The first entry takes effect: the history loses its first moment.
LEMMA TakeHouse ==
    ASSUME HouseInv, TypeInv, UNCHANGED auctionVars, world' = world, Finish(1),
           \/ db' = queue[1].rows ++ db
           \/ db' = db /\ DOMAIN queue[1].rows = {}
    PROVE  HouseInv'
<1>1. queue \in Seq(EntryType) /\ DOMAIN db = RowNames BY DEF TypeInv, TablesTyped, GoodTable
<1>2. /\ \A r \in DOMAIN db : \A n \in 0 .. Len(queue) - 1 : Value(n, r)' = Value(n + 1, r)
      /\ \A r \in DOMAIN db : Latest(r)' = Latest(r)
      /\ queue # <<>> /\ queue' = Tail(queue) /\ queue' \in Seq(EntryType)
    BY <1>1, TakeValues
<1>3. /\ Len(queue) \in Nat /\ Len(queue') = Len(queue) - 1
      /\ \A k \in DOMAIN queue' : k + 1 \in DOMAIN queue /\ queue'[k] = queue[k + 1]
    <2>1. /\ Len(queue) \in Nat /\ Len(Tail(queue)) = Len(queue) - 1
          /\ \A k \in 1 .. Len(Tail(queue)) : Tail(queue)[k] = queue[k + 1]
        BY <1>1, <1>2, HeadTailProperties, LenProperties
    <2>2. DOMAIN queue' = 1 .. Len(queue') /\ DOMAIN queue = 1 .. Len(queue)
        BY <1>1, <1>2, LenProperties
    <2> QED BY <1>2, <2>1, <2>2
<1>4. \A i \in Item : AuctionRow(i) \in DOMAIN db /\ BidRow(i) \in DOMAIN db BY <1>1, RowKinds
<1>5. \A i : OnSale(i)' = OnSale(i) /\ Listing(i)' = Listing(i) /\ BidOf(i)' = BidOf(i)
    BY DEF auctionVars, OnSale, Listing, BidOf
<1>6. Up' = Up BY DEF Up
<1>7. BidHistory'
    <2> SUFFICES ASSUME NEW i \in Item, NEW n \in 0 .. Len(queue')
                 PROVE  Below(Value(n, AuctionRow(i))', Value(n, BidRow(i))')
        BY Zenon DEF BidHistory
    <2>1. n \in 0 .. Len(queue) - 1 /\ n + 1 \in 0 .. Len(queue) BY <1>3
    <2>2. /\ Value(n, AuctionRow(i))' = Value(n + 1, AuctionRow(i))
          /\ Value(n, BidRow(i))' = Value(n + 1, BidRow(i))
        BY <1>2, <1>4, <2>1
    <2> QED BY <2>1, <2>2 DEF HouseInv, BidHistory
<1>8. AuctionsBacked' BY <1>2, <1>4, <1>5, <1>6 DEF HouseInv, AuctionsBacked
<1>9. BidsBelow' /\ aitems' = {i \in Item : OnSale(i)'}
    BY <1>5 DEF HouseInv, BidsBelow, auctionVars
<1>10. ColdStart' BY <1>3, <1>5, <1>6 DEF HouseInv, ColdStart
<1> QED BY <1>7, <1>8, <1>9, <1>10 DEF HouseInv

\* With one worker it is the first entry that takes effect.
LEMMA WorkerHouse ==
    ASSUME Workers = 1, HouseInv, TypeInv, UNCHANGED auctionVars, NEW k \in 1 .. MaxQueue,
           (Execute(k) /\ UNCHANGED mailVars) \/ \E p \in Player : Load(p, k)
    PROVE  HouseInv'
<1>1. Finish(k) BY DEF Execute, Load, LoadFromDB
<1>2. k = 1 BY <1>1 DEF Finish
<1>3. CASE Execute(k) /\ UNCHANGED mailVars
    <2>1. db' = queue[1].rows ++ db /\ world' = world BY <1>2, <1>3 DEF Execute, mailVars
    <2> QED BY <1>1, <1>2, <2>1, TakeHouse
<1>4. ASSUME NEW p \in Player, Load(p, k) PROVE HouseInv'
    <2>1. queue[1].load = p /\ p # Nobody /\ db' = db /\ world' = world
        BY <1>2, <1>4, StoreAssumption DEF Load, LoadFromDB
    <2>2. queue[1] \in EntryType BY <1>1, <1>2, <2>1, FinishTypes DEF TypeInv
    <2>3. DOMAIN queue[1].rows = {} BY <2>1, <2>2 DEF EntryType
    <2> QED BY <1>1, <1>2, <2>1, <2>3, TakeHouse
<1> QED BY <1>3, <1>4

\* Old mails are not about auctions.
LEMMA OldMailHouse ==
    ASSUME HouseInv, TypeInv, UNCHANGED auctionVars, NEW m \in MailId, ReturnOrDeleteOldMails(m)
    PROVE  HouseInv'
<1>1. db' = db /\ world' = world BY DEF ReturnOrDeleteOldMails
<1>2. PICK es \in Seq(EntryType) :
            /\ \A k \in DOMAIN es : MailEntry(es[k])
            /\ Len(queue) + Len(es) <= MaxQueue /\ queue' = queue \o es
    BY OldMailEntries
<1>3. \A k \in DOMAIN es : MailOnly(es[k].rows) BY <1>2 DEF MailEntry
<1> QED BY <1>1, <1>2, <1>3, HouseIdle

\* Before the auctions are loaded, some of them are taken away.
LEMMA StartupHouse ==
    ASSUME HouseInv, TypeInv, NEW S \in SUBSET Item, DeleteExpiredAuctionsAtStartup(S)
    PROVE  HouseInv'
<1>1. world = "down" /\ world' = "loading" /\ db' = db /\ UNCHANGED auctionVars
    BY DEF DeleteExpiredAuctionsAtStartup
<1>2. PICK es \in Seq(EntryType) :
            /\ \A k \in DOMAIN es : GoneEntry(es[k]) /\ ExpireWhileDown
            /\ Len(queue) + Len(es) <= MaxQueue /\ queue' = queue \o es
    BY StartupEntries
<1>3. queue \in Seq(EntryType) BY DEF TypeInv, TablesTyped
<1>4. ~Up /\ ~Up' BY <1>1 DEF Up
<1>5. \A i \in Item : ~OnSale(i) /\ ~OnSale(i)'
    BY <1>1, <1>4 DEF HouseInv, ColdStart, auctionVars, OnSale
<1>6. Len(queue') = Len(queue) + Len(es) /\ Len(queue) \in Nat /\ Len(es) \in Nat
    BY <1>2, <1>3, ConcatProperties, LenProperties
<1>7. BidHistory'
    <2> SUFFICES ASSUME NEW i \in Item, NEW n \in 0 .. Len(queue')
                 PROVE  Below(Value(n, AuctionRow(i))', Value(n, BidRow(i))')
        BY Zenon DEF BidHistory
    <2> DEFINE a == AuctionRow(i)
               b == BidRow(i)
    <2>1. /\ \A r : \A l \in 0 .. Len(queue) : Value(l, r)' = Value(l, r)
          /\ \A r, V : Latest(r) \in V
                        /\ (\A k \in DOMAIN es : r \in DOMAIN es[k].rows => es[k].rows[r] \in V)
                   => /\ \A l \in Len(queue) .. Len(queue) + Len(es) : Value(l, r)' \in V
                      /\ Latest(r)' \in V
        BY <1>1, <1>2, <1>3, ConcatValues
    <2>2. CASE n <= Len(queue)
        <3>1. n \in 0 .. Len(queue) BY <1>6, <2>2
        <3> QED BY <2>1, <3>1 DEF HouseInv, BidHistory
    <2>3. CASE n > Len(queue)
        <3>1. n \in Len(queue) .. Len(queue) + Len(es) BY <1>6, <2>3
        <3>2. \A k \in DOMAIN es : /\ b \notin DOMAIN es[k].rows
                                   /\ a \in DOMAIN es[k].rows => es[k].rows[a] = NoAuction
            BY <1>2 DEF GoneEntry
        <3> HIDE DEF a, b
        <3>3. Value(n, a)' \in {Latest(a), NoAuction}
            <4>1. /\ Latest(a) \in {Latest(a), NoAuction}
                  /\ \A k \in DOMAIN es : a \in DOMAIN es[k].rows =>
                                            es[k].rows[a] \in {Latest(a), NoAuction}
                BY <3>2
            <4> QED BY <2>1, <3>1, <4>1
        <3>4. Value(n, b)' \in {Latest(b)}
            <4>1. Latest(b) \in {Latest(b)} /\ \A k \in DOMAIN es : b \in DOMAIN es[k].rows =>
                                                    es[k].rows[b] \in {Latest(b)}
                BY <3>2
            <4> QED BY <2>1, <3>1, <4>1
        <3>5. Below(Latest(a), Latest(b))
            <4>1. Latest(a) = Value(Len(queue), a) /\ Latest(b) = Value(Len(queue), b)
                BY <1>3, LatestIsLast
            <4>2. Len(queue) \in 0 .. Len(queue) BY <1>6
            <4> QED BY <4>1, <4>2 DEF HouseInv, BidHistory, a, b
        <3>6. Below(Value(n, a)', Value(n, b)') BY <3>3, <3>4, <3>5 DEF Below
        <3> QED BY <3>6 DEF a, b
    <2> QED BY <1>6, <2>2, <2>3
<1>8. AuctionsBacked' BY <1>4, <1>5 DEF AuctionsBacked
<1>9. BidsBelow' BY <1>5 DEF BidsBelow
<1>10. aitems' = {i \in Item : OnSale(i)'} BY <1>1, <1>5 DEF HouseInv, auctionVars
<1>11. ColdStart'
    <2>1. ASSUME NEW k \in DOMAIN queue'
          PROVE  \/ k \in DOMAIN queue /\ queue'[k] = queue[k]
                 \/ \E l \in DOMAIN es : queue'[k] = es[l]
        BY <1>2, <1>3, <1>6
    <2> QED BY <1>2, <1>4, <1>5, <2>1 DEF HouseInv, ColdStart, GoneEntry
<1> QED BY <1>7, <1>8, <1>9, <1>10, <1>11 DEF HouseInv

\* The auctions are loaded from the tables, whose queue takes away at most some.
LEMMA LoadHouse ==
    ASSUME HouseInv, TypeInv, LoadAuctions PROVE HouseInv'
<1>1. /\ world = "loading" /\ world' = "up"
      /\ aitems' = {i \in Item : db[AuctionRow(i)] # NoAuction}
      /\ auction' = [i \in Item |-> IF db[AuctionRow(i)] # NoAuction
                                    THEN StoredAuction(i) ELSE NoAuction]
      /\ db' = db /\ queue' = queue
    BY DEF LoadAuctions
<1>2. GoodTable(db) /\ queue \in Seq(EntryType) BY DEF TypeInv, TablesTyped
<1>3. ~Up /\ Up' BY <1>1 DEF Up
<1>4. \A i \in Item : OnSale(i)' <=> db[AuctionRow(i)] # NoAuction
    <2>1. \A i \in Item : db[AuctionRow(i)] # NoAuction => StoredAuction(i) \in AuctionRecord
        BY <1>2, StoredType
    <2> QED BY <1>1, <2>1, AuctionAssumption DEF OnSale
<1>5. ASSUME NEW i \in Item
      PROVE  /\ Latest(BidRow(i))' = db[BidRow(i)]
             /\ \/ Latest(AuctionRow(i))' = db[AuctionRow(i)]
                \/ ExpireWhileDown /\ Latest(AuctionRow(i))' = NoAuction
    <2> DEFINE a == AuctionRow(i)
               b == BidRow(i)
    <2>1. \A k \in DOMAIN queue : /\ b \notin DOMAIN queue[k].rows
                                  /\ a \in DOMAIN queue[k].rows =>
                                        ExpireWhileDown /\ queue[k].rows[a] = NoAuction
        BY <1>3 DEF HouseInv, ColdStart
    <2>2. Latest(a)' = Latest(a) /\ Latest(b)' = Latest(b) BY <1>1, LatestSame
    <2> HIDE DEF a, b
    <2>3. Latest(b) \in {db[b]}
        <3>1. db[b] \in {db[b]} /\ \A k \in DOMAIN queue : b \in DOMAIN queue[k].rows =>
                                        queue[k].rows[b] \in {db[b]}
            BY <2>1
        <3> QED BY <1>2, <3>1, LatestType
    <2> DEFINE V == {db[a]} \cup (IF ExpireWhileDown THEN {NoAuction} ELSE {})
    <2>4. Latest(a) \in V
        <3>1. db[a] \in V /\ \A k \in DOMAIN queue : a \in DOMAIN queue[k].rows =>
                                        queue[k].rows[a] \in V
            BY <2>1
        <3> HIDE DEF V
        <3> QED BY <1>2, <3>1, LatestType
    <2> QED BY <2>2, <2>3, <2>4 DEF a, b
<1>6. ASSUME NEW i \in Item, db[AuctionRow(i)] # NoAuction
      PROVE  /\ Listing(i)' = db[AuctionRow(i)] /\ BidOf(i)' = db[BidRow(i)]
             /\ auction'[i].bid = db[BidRow(i)].bid /\ auction'[i].buyout = db[AuctionRow(i)].buyout
    <2>1. /\ db[AuctionRow(i)] \in ListingRecord
          /\ db[BidRow(i)] \in [bidder : Player \cup {Nobody}, bid : Nat]
        BY <1>2, <1>6, TableTypes DEF GoodTable
    <2>2. auction'[i] = StoredAuction(i) BY <1>1, <1>6
    <2>3. /\ auction'[i].owner = db[AuctionRow(i)].owner
          /\ auction'[i].startbid = db[AuctionRow(i)].startbid
          /\ auction'[i].buyout = db[AuctionRow(i)].buyout
          /\ auction'[i].deposit = db[AuctionRow(i)].deposit
          /\ auction'[i].bidder = db[BidRow(i)].bidder /\ auction'[i].bid = db[BidRow(i)].bid
        BY <2>2 DEF StoredAuction
    <2>4. BidOf(i)' = db[BidRow(i)] BY <2>1, <2>3 DEF BidOf
    <2>5. Listing(i)' = db[AuctionRow(i)] BY <2>1, <2>3 DEF Listing, ListingRecord
    <2> QED BY <2>3, <2>4, <2>5
<1>7. AuctionsBacked' 
    <2> SUFFICES ASSUME NEW i \in Item
                 PROVE  /\ OnSale(i)' => /\ \/ Latest(AuctionRow(i))' = Listing(i)'
                                            \/ /\ ExpireWhileDown
                                               /\ Latest(AuctionRow(i))' = NoAuction
                                         /\ Latest(BidRow(i))' = BidOf(i)'
                        /\ ~OnSale(i)' => Latest(AuctionRow(i))' = NoAuction
        BY Zenon DEF AuctionsBacked
    <2> QED BY <1>4, <1>5, <1>6
<1>8. ASSUME NEW n, NEW r PROVE Value(n, r)' = Value(n, r) BY <1>1, ValuePrimed DEF Value
<1>9. BidHistory'
    <2> SUFFICES ASSUME NEW i \in Item, NEW n \in 0 .. Len(queue')
                 PROVE  Below(Value(n, AuctionRow(i))', Value(n, BidRow(i))')
        BY Zenon DEF BidHistory
    <2> QED BY <1>1, <1>8 DEF HouseInv, BidHistory
<1>10. BidsBelow'
    <2> SUFFICES ASSUME NEW i \in Item, OnSale(i)', auction'[i].buyout # 0
                 PROVE  auction'[i].bid < auction'[i].buyout
        BY DEF BidsBelow
    <2>1. 0 \in 0 .. Len(queue) BY <1>2, LenProperties
    <2>2. Below(Value(0, AuctionRow(i)), Value(0, BidRow(i))) BY <2>1 DEF HouseInv, BidHistory
    <2>3. Below(db[AuctionRow(i)], db[BidRow(i)]) BY <2>2, ValueNow DEF Value
    <2> QED BY <1>4, <1>6, <2>3 DEF Below
<1>11. aitems' = {i \in Item : OnSale(i)'} BY <1>1, <1>4
<1>12. ColdStart' BY <1>3 DEF ColdStart
<1> QED BY <1>7, <1>9, <1>10, <1>11, <1>12 DEF HouseInv

\* A crash leaves the tables as they are.
LEMMA CrashHouse == ASSUME HouseInv, TypeInv, ServerCrash PROVE HouseInv'
<1>1. /\ queue' = <<>> /\ db' = db /\ world' = "down" /\ auction' = [i \in Item |-> NoAuction]
      /\ aitems' = {}
    BY DEF ServerCrash, Crash
<1>2. ~Up' /\ \A i \in Item : ~OnSale(i)' BY <1>1 DEF Up, OnSale
<1>3. BidHistory'
    <2> SUFFICES ASSUME NEW i \in Item, NEW n \in 0 .. Len(queue')
                 PROVE  Below(Value(n, AuctionRow(i))', Value(n, BidRow(i))')
        BY Zenon DEF BidHistory
    <2>1. n = 0 BY <1>1
    <2>2. ASSUME NEW r PROVE Value(n, r)' = db[r]
        <3>1. Value(n, r)' = ValueIn(db', queue', n, r) BY ValuePrimed
        <3> QED BY <1>1, <2>1, <3>1, ValueNow
    <2>3. 0 \in 0 .. Len(queue) BY LenProperties DEF TypeInv, TablesTyped
    <2>4. Below(Value(0, AuctionRow(i)), Value(0, BidRow(i))) BY <2>3 DEF HouseInv, BidHistory
    <2>5. Below(db[AuctionRow(i)], db[BidRow(i)]) BY <2>4, ValueNow DEF Value
    <2> QED BY <2>2, <2>5
<1>4. AuctionsBacked' /\ BidsBelow' BY <1>2 DEF AuctionsBacked, BidsBelow
<1>5. ColdStart' BY <1>1, <1>2 DEF ColdStart
<1>6. aitems' = {i \in Item : OnSale(i)'} BY <1>1, <1>2
<1> QED BY <1>3, <1>4, <1>5, <1>6 DEF HouseInv

\* Every step keeps what is known of the auction house.
LEMMA StepHouse ==
    ASSUME Workers = 1, HouseInv, TypeInv, TypeInv', [Next]_vars PROVE HouseInv'
<1>1. ASSUME NEW p \in Player, AuctionStep(p) PROVE HouseInv'
    BY <1>1, SellHouse, BidHouse, CloseHouse DEF AuctionStep
<1>2. ASSUME NEW p \in Player, MailStep(p), UNCHANGED auctionVars PROVE HouseInv'
    BY <1>2, MailHouse, LoginHouse, WorkerHouse
<1>3. CASE MailStoreStep /\ UNCHANGED auctionVars
    BY <1>3, OldMailHouse, WorkerHouse DEF MailStoreStep
<1>4. ASSUME NEW i \in Item, Update(i) PROVE HouseInv' BY <1>4, CloseHouse
<1>5. CASE UNCHANGED vars
    <2>1. UNCHANGED auctionVars /\ UNCHANGED <<db, queue, world>> BY <1>5 DEF vars, auctionVars
    <2> QED BY <2>1, HouseSame
<1> QED BY <1>1, <1>2, <1>3, <1>4, <1>5, StartupHouse, LoadHouse, CrashHouse DEF Next

\* At the start nothing is on sale.
LEMMA InitHouse == ASSUME \A p \in Player : InitMoney[p] <= MaxMoney, Init PROVE HouseInv
<1>1. /\ queue = <<>> /\ world = "up" /\ auction = [i \in Item |-> NoAuction] /\ aitems = {}
      /\ \A i \in Item : db[AuctionRow(i)] = NoAuction
    BY StartTable DEF Init, StoreInit, MailInit
<1>2. Up /\ \A i \in Item : ~OnSale(i) BY <1>1 DEF Up, OnSale
<1>3. ASSUME NEW i \in Item PROVE Latest(AuctionRow(i)) = NoAuction BY <1>1 DEF Latest
<1>4. BidHistory
    <2> SUFFICES ASSUME NEW i \in Item, NEW n \in 0 .. Len(queue)
                 PROVE  Below(Value(n, AuctionRow(i)), Value(n, BidRow(i)))
        BY DEF BidHistory
    <2>1. n = 0 BY <1>1
    <2>2. Value(n, AuctionRow(i)) = NoAuction BY <1>1, <2>1, ValueNow DEF Value
    <2> QED BY <2>2 DEF Below
<1>5. AuctionsBacked BY <1>2, <1>3 DEF AuctionsBacked
<1>6. BidsBelow /\ ColdStart /\ aitems = {i \in Item : OnSale(i)}
    BY <1>1, <1>2 DEF BidsBelow, ColdStart
<1> QED BY <1>4, <1>5, <1>6 DEF HouseInv

\* Every value that a player, a mailbox, an auction, the queue or a table holds
\* has its type in every reachable state: the handlers never pay a negative sum
\* or find a mail without the columns they need, in memory or after a restart.
\* With one worker: auctions are named by their items, so that with several the
\* late bid of one auction may meet the listing of the next in the tables.
THEOREM AuctionTypes ==
    ASSUME Workers = 1, \A p \in Player : InitMoney[p] <= MaxMoney
    PROVE  Spec => []TypeOK
<1> DEFINE I == TypeInv /\ HouseInv
<1>1. Init => I BY InitTypes, InitHouse
<1>2. I /\ [Next]_vars => I'
    <2> SUFFICES ASSUME I, [Next]_vars PROVE I' OBVIOUS
    <2>1. TypeInv' BY StepTypes DEF HouseInv
    <2>2. HouseInv' BY <2>1, StepHouse
    <2> QED BY <2>1, <2>2
<1>3. I => TypeOK BY TypeInvOK
<1> QED BY <1>1, <1>2, <1>3, PTL DEF Spec

\* The auctions in memory are those that the tables hold once the queue is empty,
\* with their last bids; when an auction may expire while the server is down,
\* the exception is a row that is then already on its way out.
AuctionsKept ==
    \A i \in aitems :
        /\ \/ Latest(AuctionRow(i)) = Listing(i)
           \/ ExpireWhileDown /\ Latest(AuctionRow(i)) = NoAuction
        /\ Latest(BidRow(i)) = BidOf(i)

\* A crash never brings back an older bid or a closed auction, except as said
\* there: the part of MemoryBacked about auctions, also for worlds in which
\* auctions expire while the server is down.  And the bids stay below the sum
\* that ends the auction at once.
THEOREM AuctionsAlwaysKept ==
    ASSUME Workers = 1, \A p \in Player : InitMoney[p] <= MaxMoney
    PROVE  Spec => [](AuctionsKept /\ BidsBelow)
<1> DEFINE I == TypeInv /\ HouseInv
<1>1. Init => I BY InitTypes, InitHouse
<1>2. I /\ [Next]_vars => I'
    <2> SUFFICES ASSUME I, [Next]_vars PROVE I' OBVIOUS
    <2>1. TypeInv' BY StepTypes DEF HouseInv
    <2>2. HouseInv' BY <2>1, StepHouse
    <2> QED BY <2>1, <2>2
<1>3. I => AuctionsKept /\ BidsBelow BY DEF HouseInv, AuctionsBacked, AuctionsKept
<1> QED BY <1>1, <1>2, <1>3, PTL DEF Spec
=============================================================================
