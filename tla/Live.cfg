SPECIFICATION FairSpec
CONSTANTS
    MaxNode = 2
    MaxTask = 2
    MaxGroup = 1
    Kinds = {"go"}
    GameCounts = {2}
    Commands = {"task"}
    GameLists = {{"go"}}
    Versions = {TRUE}
    Faults = {}
    Races = {}
    MaxLate = 1
PROPERTIES
    GroupsFinish
    PendingPlaced
CHECK_DEADLOCK FALSE
