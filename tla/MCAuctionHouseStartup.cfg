SPECIFICATION Spec
CONSTANTS
    ann = ann
    bob = bob
    cid = cid
    x = x
    Nobody = Nobody
    NoItem = NoItem
    NoMail = NoMail
    NoAuction = NoAuction
    Player = {ann, bob}
    Item = {x}
    InitOwner <- OwnerX
    InitMoney <- MoneyBid
    BagSize <- Bags
    Limited = {}
    Limit = 1
    MaxMoney = 4
    Workers = 1
    MaxQueue = 2
    MaxCrashes = 1
    MailId = {1, 2, 3}
    Amounts = {0}
    MailCost = 9
    Half = 16
    GameMaster = {}
    OldMailsAtRest = TRUE
    Prices = {1, 2}
    StartBids = {1}
    Buyouts = {0, 2}
    Deposit = 1
    CutPct = 50
    LogTrade = TRUE
    ExpireWhileDown = TRUE
INVARIANT ItemStored
CHECK_DEADLOCK FALSE
