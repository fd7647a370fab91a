SPECIFICATION FairSpec
CONSTANTS
    MaxNode = 2
    MaxTask = 2
    MaxGroup = 1
    Kinds = {"go"}
    GameCounts = {1}
    Commands = {"task"}
    GameLists = {{"go"}}
    Versions = {TRUE}
    Faults = {"hang"}
    Races = {}
    MaxLate = 0
PROPERTIES
    NewNodeTakesPending
CHECK_DEADLOCK FALSE
