SPECIFICATION Spec
CONSTANTS
    Player = {p1, p2}
    MaxId = 2
    IdWidth = 8
    LoginRace = FALSE
    LateRows = FALSE
    MaxRestarts = 0
    MaxEvents = 2

PROPERTY ResetOnlyEmpty
