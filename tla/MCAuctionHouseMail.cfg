SPECIFICATION Spec
CONSTANTS
    ann = ann
    bob = bob
    cid = cid
    x = x
    Nobody = Nobody
    NoItem = NoItem
    NoMail = NoMail
    NoAuction = NoAuction
    Player = {ann, bob}
    Item = {x}
    InitOwner <- OwnerX
    InitMoney <- MoneyMail
    BagSize <- Bags
    Limited = {}
    Limit = 1
    MaxMoney = 1
    Workers = 1
    MaxQueue = 2
    MaxCrashes = 0
    MailId = {1, 2}
    Amounts = {0, 1, 21}
    MailCost = 0
    Half = 10
    GameMaster = {}
    OldMailsAtRest = TRUE
    Prices = {1, 2}
    StartBids = {1}
    Buyouts = {0, 2}
    Deposit = 9
    CutPct = 50
    LogTrade = TRUE
    ExpireWhileDown = FALSE
INVARIANTS ItemStored MoneyConserved MemoryBacked
