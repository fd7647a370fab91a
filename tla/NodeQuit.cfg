SPECIFICATION FairSpec
CONSTANTS
    Tasks = {1}
    Games = 1
    MaxMessages = 1
    Answers = {"ACCEPT"}
    Ends = {"sigint"}
PROPERTY
    TerminationEnds
CHECK_DEADLOCK FALSE
