SPECIFICATION FairSpec
CONSTANTS
    Tasks = {1, 2}
    Games = 1
    MaxMessages = 3
    Answers = {"ACCEPT", "REJECT"}
    Ends = {"sigint", "lost"}
INVARIANTS
    TypeOK
    ResultsWhole
    NoneForgotten
PROPERTIES
    WorksInOrder
    QuitEnds
    AllHandled
CHECK_DEADLOCK FALSE
