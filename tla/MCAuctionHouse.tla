--------------------------- MODULE MCAuctionHouse ---------------------------
(***************************************************************************)
(* Small instances of AuctionHouse.                                        *)
(***************************************************************************)
EXTENDS AuctionHouse

CONSTANTS ann, bob, cid, x

OwnerX == [i \in Item |-> ann]
\* The bidders bob and cid, and what the owner needs for the deposit.
MoneyBid == [p \in Player |-> IF p = cid THEN 2 ELSE 1]
\* For the mails: bob can send money or pay for an item.
MoneyMail == [p \in Player |-> IF p = bob THEN 1 ELSE 0]
\* For a price that a signed integer of this width does not hold.
MoneyPrice == [p \in Player |-> IF p = bob THEN 3 ELSE 0]
\* In the auctions cid has full bags: what he wins stays in the mail, so that the
\* item is sold again only by ann and by bob.
BagsBid == [p \in Player |-> IF p = cid THEN 0 ELSE 1]
Bags == [p \in Player |-> 1]

=============================================================================
