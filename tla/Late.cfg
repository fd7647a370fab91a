SPECIFICATION ReadySpec
CONSTANTS
    MaxNode = 2
    MaxTask = 2
    MaxGroup = 1
    Kinds = {"go"}
    GameCounts = {2}
    Commands = {"task"}
    GameLists = {{}, {"go"}}
    Versions = {TRUE}
    Faults = {"leave"}
    Races = {"lateCancel"}
    MaxLate = 1
INVARIANTS
    CountedOnce
    RemainingCovers
    SoleOwner
    NoStaleReply
    TaskOnItsWay
PROPERTIES
    ResultsAreFinal
CHECK_DEADLOCK FALSE
