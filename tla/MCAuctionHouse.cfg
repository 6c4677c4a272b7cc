SPECIFICATION Spec
CONSTANTS
    ann = ann
    bob = bob
    cid = cid
    x = x
    Nobody = Nobody
    NoItem = NoItem
    NoMail = NoMail
    NoAuction = NoAuction
    Player = {ann, bob, cid}
    Item = {x}
    InitOwner <- OwnerX
    InitMoney <- MoneyBid
    BagSize <- BagsBid
    Limited = {}
    Limit = 1
    MaxMoney = 2
    Workers = 1
    MaxQueue = 2
    MaxCrashes = 2
    MailId = {1, 2, 3}
    Amounts = {0}
    MailCost = 9
    Half = 16
    GameMaster = {}
    OldMailsAtRest = TRUE
    Prices = {1, 2}
    StartBids = {1}
    Buyouts = {0, 2}
    Deposit = 1
    CutPct = 50
    LogTrade = TRUE
    ExpireWhileDown = FALSE
INVARIANTS TypeOK ItemStored MoneyConserved MemoryBacked
PROPERTY AuctionSettled
