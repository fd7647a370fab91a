SPECIFICATION ReadySpec
CONSTANTS
    MaxNode = 2
    MaxTask = 2
    MaxGroup = 1
    Kinds = {"go"}
    GameCounts = {2}
    Commands = {"task", "terminate"}
    GameLists = {{"go"}}
    Versions = {TRUE}
    Faults = {}
    Races = {}
    MaxLate = 0
INVARIANTS
    NoOrphan
CHECK_DEADLOCK FALSE
