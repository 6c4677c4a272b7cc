SPECIFICATION Spec
CONSTANTS
    Player = {p1, p2}
    MaxId = 3
    IdWidth = 8
    LoginRace = FALSE
    LateRows = FALSE
    MaxRestarts = 1
    MaxEvents = 2
INVARIANTS TypeOK NextIdFree BindsListed ResetPendingOnce SoloPrivate EmptyMapUnloads
PROPERTY EveryInstanceReset
