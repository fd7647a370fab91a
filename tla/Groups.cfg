SPECIFICATION Spec
CONSTANTS
    MaxNode = 1
    MaxTask = 2
    MaxGroup = 2
    Kinds = {"go"}
    GameCounts = {0, 1}
    Commands = {"task", "cancel", "terminate"}
    GameLists = {{"go"}}
    Versions = {TRUE, FALSE}
    Faults = {"hang", "stray"}
    Races = {"torn", "lateCancel"}
    MaxLate = 1
INVARIANTS
    TypeOK
    RemainingCovers
PROPERTIES
    OwnerKept
    LostOnlyLate
    KeepsBooks
CHECK_DEADLOCK FALSE
