------------------------------ MODULE Mailbox ------------------------------
(***************************************************************************)
(* Mails: MailDraft, the mail handlers of WorldSession, the mailbox that a *)
(* player in the world keeps in memory, its rows, and the return of old    *)
(* mails by ObjectMgr.  The auction house (AuctionHouse) sends its results *)
(* as mails and composes this module.                                      *)
(*                                                                         *)
(* A mail holds one item at most.  Mails without money and items, the read *)
(* flag, the delivery time (it only refuses a request for a while) and the *)
(* limit of 100 mails are left out.  The time at which a mail gets old is  *)
(* any time.                                                               *)
(*                                                                         *)
(* The rows are split by the columns that one statement writes, so that an *)
(* UPDATE of a deleted mail has no effect.                                 *)
(***************************************************************************)
EXTENDS CharacterStore

CONSTANTS
    NoItem, NoMail,
    MailId,         \* identifiers in use at a time are a subset of these
    Amounts,        \* the sums that are sent with a mail or asked for it
    MailCost,       \* the price of a mail
    Half,           \* 2^31, half of what a uint32 can hold
    GameMaster,     \* the players in game-master mode
    OldMailsAtRest  \* whether a mail that gets old is untouched at that time:
                    \* its receiver is not in the world and no transaction
                    \* under way writes it.  The code does not ensure it.

\* The columns receiver, sender, messageType and checked of table mail.
AddressRecord ==
    [to : Player, from : Player \cup {Nobody}, normal : BOOLEAN, returned : BOOLEAN]

ASSUME MailAssumption ==
    /\ NoItem \notin Item /\ NoMail \notin MailId \cup AddressRecord
    /\ IsFiniteSet(MailId)
    /\ MailId \subseteq Nat /\ Amounts \subseteq Nat /\ MailCost \in Nat
    /\ Half \in Nat \ {0} /\ GameMaster \subseteq Player
    /\ OldMailsAtRest \in BOOLEAN

VARIABLES
    box,      \* Player::m_mail and mMitems of the players in the world
    world     \* "down", then "loading" the auctions, then "up"

mailVars == <<box, world>>

Up == world = "up"

-----------------------------------------------------------------------------
(***************************************************************************)
(* The tables mail and mail_items.  GivenUp(i) stands for a deleted row of *)
(* item_instance; Fees is a row of the model's own, the sum of all money   *)
(* that was paid to the server or thrown away with a mail.                 *)
(***************************************************************************)
MailRow(m) == <<"mail", m>>
MailTo(m) == <<"mail_to", m>>
MailMoney(m) == <<"mail_money", m>>
MailCod(m) == <<"mail_cod", m>>
MailItem(i) == <<"mail_item", i>>
MailItemTo(i) == <<"mail_item_to", i>>
GivenUp(i) == <<"given_up", i>>
Fees == <<"fees", 0>>

NoRows == [r \in {} |-> r]
Fee(g) == Write(Fees, Latest(Fees) + g)

\* The item that the tables show in mail m, as a set.
StoredIn(m) == {i \in Item : db[MailItem(i)] = m /\ ~db[GivenUp(i)]}

\* The mails that neither the tables, the queue nor a mailbox knows.  The code
\* takes ever greater numbers instead.
FreeIds ==
    {m \in MailId :
        /\ ~db[MailRow(m)]
        /\ \A k \in DOMAIN queue : MailRow(m) \notin DOMAIN queue[k].rows
        /\ \A p \in Player : m \notin DOMAIN box[p]}

-----------------------------------------------------------------------------
(***************************************************************************)
(* MailDraft.                                                              *)
(***************************************************************************)

\* normal is false for the mails of the auction house; returned stands for the
\* marks MAIL_CHECK_MASK_RETURNED and MAIL_CHECK_MASK_COD_PAYMENT.
Draft(to, from, normal, returned, gold, cod, item) ==
    [to |-> to, from |-> from, normal |-> normal, returned |-> returned,
     money |-> gold, cod |-> cod, item |-> item]

\* A mail of the auction house.
AuctionDraft(to, gold, item) ==
    Draft(to, Nobody, FALSE, FALSE, gold, 0, item)

Address(d) == [to |-> d.to, from |-> d.from, normal |-> d.normal,
               returned |-> d.returned]

\* The identifiers of the mails that the sequence of drafts ds becomes.
Ids(ds) == SubSeq(SetToSeq(FreeIds), 1, Len(ds))

\* Mutant: the price of the item is written as the money of the mail.
DraftRowsSwapped(d, m) ==
    Write(MailRow(m), TRUE) ++ Write(MailTo(m), Address(d))
        ++ Write(MailMoney(m), d.cod) ++ Write(MailCod(m), d.money)
        ++ IF d.item = NoItem THEN NoRows
           ELSE Write(MailItem(d.item), m) ++ Write(MailItemTo(d.item), d.to)

DraftRows(d, m) ==
    Write(MailRow(m), TRUE) ++ Write(MailTo(m), Address(d))
        ++ Write(MailMoney(m), d.money) ++ Write(MailCod(m), d.cod)
        ++ IF d.item = NoItem THEN NoRows
           ELSE Write(MailItem(d.item), m) ++ Write(MailItemTo(d.item), d.to)

\* The statements of MailDraft::SendMailTo.
SendRows(ds) ==
    LET rows(n) == DraftRows(ds[n], Ids(ds)[n])
    IN  [r \in UNION {DOMAIN rows(n) : n \in DOMAIN ds} |->
            rows(CHOOSE n \in DOMAIN ds : r \in DOMAIN rows(n))[r]]

\* SendMailTo also puts the mail into the box of a receiver in the world.
Deliver(bx, ds) ==
    [p \in Player |->
        IF p \notin online THEN bx[p]
        ELSE bx[p] ++ [m \in {Ids(ds)[k] : k \in {n \in DOMAIN ds : ds[n].to = p}} |->
                LET d == ds[CHOOSE n \in DOMAIN ds : Ids(ds)[n] = m]
                IN  [address |-> Address(d), money |-> d.money, cod |-> d.cod,
                     item |-> d.item, deleted |-> FALSE]]]

CanSend(ds) == Cardinality(FreeIds) >= Len(ds)

-----------------------------------------------------------------------------
(***************************************************************************)
(* Player::_SaveMail.  The changed mails are written by the handlers that  *)
(* change them; what is left to a later save are the deletions.            *)
(***************************************************************************)

Deleted(p) == {m \in DOMAIN box[p] : box[p][m].deleted}

DeleteRows(p, ms) ==
    LET items == {box[p][m].item : m \in ms} \ {NoItem}
    IN  [r \in {MailRow(m) : m \in ms} |-> FALSE]
        ++ [r \in {MailItem(i) : i \in items} |-> NoMail]
        ++ [r \in {GivenUp(i) : i \in items} |-> TRUE]

MoneyIn(p, ms) == FoldFunctionOnSet(+, 0, [m \in ms |-> box[p][m].money], ms)

SaveMail(p) == DeleteRows(p, Deleted(p))
\* Mutant: the deleted mails stay in memory.
KeptAll(p) == box[p]

Kept(p) == [m \in DOMAIN box[p] \ Deleted(p) |-> box[p][m]]

-----------------------------------------------------------------------------
(***************************************************************************)
(* The handlers.                                                           *)
(***************************************************************************)

\* What is left of a sum where the code puts it into a uint32: AddCOD does so with
\* the price that the client asks, which has 64 bits.
Uint32(c) == c % (2 * Half)

\* int32(c), and what -int32(c) may be: of the least number it is undefined, and
\* the build either leaves it as it is or computes in 64 bits.
Int32(c) == IF Uint32(c) < Half THEN Uint32(c) ELSE Uint32(c) - 2 * Half
MinusInt32(c) == IF Int32(c) = -Half THEN {-Half, Half} ELSE {-Int32(c)}

ModifyMoney(m, d) == IF d < 0 THEN Paid(m, -d) ELSE Received(m, d)

InBox(p, m) == Up /\ p \in online /\ m \in DOMAIN box[p]
Open(p, m) == InBox(p, m) /\ ~box[p][m].deleted

\* A player in game-master mode may send what he does not have; ModifyMoney takes
\* what there is.
HandleSendMail(p, q, i, g, cod) ==
    LET ds == <<Draft(q, p, TRUE, FALSE, g, Uint32(cod), i)>>
        m == [money EXCEPT ![p] = Paid(@, MailCost + g)]
    IN  /\ Up /\ p \in online /\ p # q
        /\ i \in inv[p] \cup {NoItem}
        /\ i # NoItem \/ g > 0
        /\ p \in GameMaster \/ money[p] >= MailCost + g
        /\ CanSend(ds)
        /\ inv' = [inv EXCEPT ![p] = @ \ {i}]
        /\ money' = m
        /\ box' = Deliver(box, ds)
        /\ Commit(GoldRows({p}, m) ++ SendRows(ds) ++ Fee(MailCost)
                    ++ (IF i = NoItem THEN NoRows ELSE Write(ItemRow(i), Nobody)))
        /\ UNCHANGED <<online, db, crashes, world>>

\* The mail disappears at the next save; reading it before that keeps it.
HandleMailDelete(p, m) ==
    /\ InBox(p, m) /\ box[p][m].cod = 0
    /\ box' = [box EXCEPT ![p][m].deleted = TRUE]
    /\ UNCHANGED world
    /\ UNCHANGED storeVars

HandleMailMarkAsRead(p, m) ==
    /\ InBox(p, m)
    /\ box' = [box EXCEPT ![p][m].deleted = FALSE]
    /\ UNCHANGED world
    /\ UNCHANGED storeVars

\* A mail of a player goes back; the mail of anybody else is thrown away.
HandleMailReturnToSender(p, m) ==
    LET mail == box[p][m]
        ds == IF mail.address.normal
              THEN <<Draft(mail.address.from, p, TRUE, TRUE, mail.money, 0, mail.item)>>
              ELSE <<>>
    IN  /\ Open(p, m) /\ CanSend(ds)
        /\ box' = Deliver([box EXCEPT ![p] = [x \in DOMAIN @ \ {m} |-> @[x]]], ds)
        /\ IF mail.address.normal
           THEN Commit(SendRows(ds) ++ Write(MailRow(m), FALSE))
           ELSE Commit(DeleteRows(p, {m}) ++ Fee(mail.money))
        /\ UNCHANGED <<online, inv, money, db, crashes, world>>

\* Mutant: the mail still shows the item in the tables.
TakenRowsLate(p, m) == Write(MailCod(m), 0)

\* What TakeItem writes of the mail.
TakenRows(p, m) == Write(MailItem(box[p][m].item), NoMail) ++ Write(MailCod(m), 0)

\* The price that the sender asked is mailed to him, and -int32 of it is what the
\* money of p is changed by.
HandleMailTakeItem(p, m) ==
    LET mail == box[p][m]
        ds == IF mail.cod > 0
              THEN <<Draft(mail.address.from, p, TRUE, TRUE, mail.cod, 0, NoItem)>>
              ELSE <<>>
        gold(d) == [money EXCEPT ![p] = ModifyMoney(@, d)]
    IN  /\ Open(p, m) /\ mail.item # NoItem
        /\ money[p] >= mail.cod
        /\ CanStoreItem(p, inv[p], mail.item)
        /\ CanSend(ds)
        /\ inv' = [inv EXCEPT ![p] = @ \cup {mail.item}]
        /\ box' = Deliver([box EXCEPT ![p] =
                    Write(m, [mail EXCEPT !.item = NoItem, !.cod = 0]) ++ Kept(p)], ds)
        /\ \E d \in MinusInt32(mail.cod) :
            /\ money' = gold(d)
            /\ Commit(GoldRows({p}, gold(d)) ++ Write(ItemRow(mail.item), p)
                        ++ TakenRows(p, m) ++ SendRows(ds)
                        ++ SaveMail(p) ++ Fee(MoneyIn(p, Deleted(p))))
        /\ UNCHANGED <<online, db, crashes, world>>

\* The client names the sum or 0.  With 0 the money of the mail is lost.
HandleMailTakeMoney(p, m, g) ==
    LET mail == box[p][m]
        gold == [money EXCEPT ![p] = Received(@, g)]
    IN  /\ Open(p, m) /\ g \in {0, mail.money}
        /\ money[p] + g <= MaxMoney
        /\ money' = gold
        /\ box' = [box EXCEPT ![p] = Write(m, [mail EXCEPT !.money = 0]) ++ Kept(p)]
        /\ Commit(GoldRows({p}, gold) ++ Write(MailMoney(m), 0) ++ SaveMail(p)
                    ++ Fee(MoneyIn(p, Deleted(p)) + mail.money - g))
        /\ UNCHANGED <<online, inv, db, crashes, world>>

-----------------------------------------------------------------------------
(***************************************************************************)
(* Saves, login and logout.                                                *)
(***************************************************************************)

\* The periodic Player::SaveToDB.
SaveToDB(p) ==
    /\ Up /\ p \in online /\ Deleted(p) # {}
    /\ box' = [box EXCEPT ![p] = Kept(p)]
    /\ Commit(GoldRows({p}, money) ++ SaveMail(p) ++ Fee(MoneyIn(p, Deleted(p))))
    /\ UNCHANGED <<online, inv, money, db, crashes, world>>

Logout(p) ==
    /\ Up
    /\ LogoutPlayer(p, SaveMail(p) ++ Fee(MoneyIn(p, Deleted(p))))
    /\ box' = [box EXCEPT ![p] = NoRows]
    /\ UNCHANGED world

Login(p) == Up /\ LoginPlayer(p) /\ UNCHANGED mailVars

\* _LoadMail, then _LoadMailedItems: an item whose row names another receiver
\* is not found, and one whose mail is not in the box is skipped.
LoadMail(p) ==
    [m \in {x \in MailId : db[MailRow(x)] /\ db[MailTo(x)].to = p} |->
        LET mine == {i \in StoredIn(m) : db[MailItemTo(i)] = p}
        IN  [address |-> db[MailTo(m)], money |-> db[MailMoney(m)],
             cod |-> db[MailCod(m)], deleted |-> FALSE,
             item |-> IF mine = {} THEN NoItem ELSE CHOOSE i \in mine : TRUE]]

Load(p, k) ==
    /\ LoadFromDB(p, k)
    /\ box' = [box EXCEPT ![p] = LoadMail(p)]
    /\ UNCHANGED world

-----------------------------------------------------------------------------
(***************************************************************************)
(* ObjectMgr::ReturnOrDeleteOldMails, for one old mail.  The tables are    *)
(* read at once; each statement is an entry of the queue on its own.  The  *)
(* test for a receiver in the world looks him up by the low part of his    *)
(* guid and never finds him.                                               *)
(***************************************************************************)

AtRest(m) ==
    /\ db[MailTo(m)].to \notin online
    /\ \A k \in DOMAIN queue :
        /\ queue[k].load # db[MailTo(m)].to
        /\ {r[2] : r \in DOMAIN queue[k].rows} \cap ({m} \cup StoredIn(m)) = {}

Entry(rows) == [load |-> Nobody, rows |-> rows]

ReturnMail(m) ==
    LET old == db[MailTo(m)]
    IN  <<Entry(Write(MailTo(m), [old EXCEPT !.to = old.from, !.from = old.to,
                                             !.returned = TRUE])
                    ++ Write(MailCod(m), 0))>>
        \o SetToSeq({Entry(Write(MailItemTo(i), old.from)) : i \in StoredIn(m)})

DeleteMail(m) ==
    SetToSeq({Entry(Write(GivenUp(i), TRUE)) : i \in StoredIn(m)})
        \o <<Entry(Write(MailRow(m), FALSE)
                    ++ Fee(IF Latest(MailRow(m)) THEN Latest(MailMoney(m)) ELSE 0))>>

ReturnOrDeleteOldMails(m) ==
    LET returns == StoredIn(m) # {} /\ db[MailTo(m)].normal /\ ~db[MailTo(m)].returned
        entries == IF returns THEN ReturnMail(m) ELSE DeleteMail(m)
    IN  /\ db[MailRow(m)] /\ (OldMailsAtRest => AtRest(m))
        /\ Len(queue) + Len(entries) <= MaxQueue
        /\ queue' = queue \o entries
        /\ UNCHANGED <<online, inv, money, db, crashes, box, world>>

-----------------------------------------------------------------------------
MailInitRows ==
    [r \in {MailRow(m) : m \in MailId} |-> FALSE]
        ++ [r \in {MailTo(m) : m \in MailId} |-> NoMail]
        ++ [r \in {MailMoney(m) : m \in MailId} |-> 0]
        ++ [r \in {MailCod(m) : m \in MailId} |-> 0]
        ++ [r \in {MailItem(i) : i \in Item} |-> NoMail]
        ++ [r \in {MailItemTo(i) : i \in Item} |-> Nobody]
        ++ [r \in {GivenUp(i) : i \in Item} |-> FALSE]
        ++ Write(Fees, 0)

MailInit ==
    /\ box = [p \in Player |-> NoRows]
    /\ world = "up"

MailStep(p) ==
    \/ \E q \in Player, i \in Item \cup {NoItem}, g, cod \in Amounts :
            HandleSendMail(p, q, i, g, cod)
    \/ \E m \in MailId :
        \/ HandleMailDelete(p, m)
        \/ HandleMailMarkAsRead(p, m)
        \/ HandleMailReturnToSender(p, m)
        \/ HandleMailTakeItem(p, m)
        \/ \E g \in 0 .. MaxMoney : HandleMailTakeMoney(p, m, g)
    \/ SaveToDB(p)
    \/ Logout(p)
    \/ Login(p)
    \/ \E k \in 1 .. MaxQueue : Load(p, k)

MailStoreStep ==
    \/ \E m \in MailId : ReturnOrDeleteOldMails(m)
    \/ \E k \in 1 .. MaxQueue : Execute(k) /\ UNCHANGED mailVars

=============================================================================
