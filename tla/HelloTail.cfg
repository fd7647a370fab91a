SPECIFICATION Spec
CONSTANTS
    HeaderSize = 2
    HelloSize = 8
    TaskSize = 9
    NotifySize = 3
    ResultSize = 7
    ReadSize = 6
    GarbageSizes = {0, 1, 4, 30}
    Directions = {"toNode"}
    MaxMessages = 2
INVARIANT
    NoException
CHECK_DEADLOCK FALSE
