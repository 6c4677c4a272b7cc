SPECIFICATION Spec
CONSTANTS
    a = a
    b = b
    x = x
    y = y
    z = z
    w = w
    u1 = u1
    u2 = u2
    u3 = u3
    Nobody = Nobody
    NoItem = NoItem
    Player = {a, b}
    Item = {w, x, y, z}
    InitOwner <- Owner2
    InitMoney <- Money2
    BagSize <- Bags2
    Limited = {x, y, z}
    BindOnUse = {z}
    Limit = 2
    MaxMoney = 1
    Workers = 1
    MaxQueue = 2
    MaxCrashes = 1
    TradedCount = 2
SYMMETRY Symmetry
CONSTRAINT StateConstraint
INVARIANTS  TradePaired ItemOnce NoMoneyCreated MemoryBacked
PROPERTIES  TradedWhole
