SPECIFICATION ReadySpec
CONSTANTS
    MaxNode = 2
    MaxTask = 2
    MaxGroup = 1
    Kinds = {"go"}
    GameCounts = {2}
    Commands = {"task"}
    GameLists = {{"go"}}
    Versions = {TRUE}
    Faults = {"leave"}
    Races = {}
    MaxLate = 0
INVARIANTS
    NoCrash
CHECK_DEADLOCK FALSE
