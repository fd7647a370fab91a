SPECIFICATION FairSpec
CONSTANTS
    HeaderSize = 2
    HelloSize = 8
    TaskSize = 9
    NotifySize = 3
    ResultSize = 7
    ReadSize = 6
    GarbageSizes = {0, 1, 4, 30}
    Directions = {"toNode", "toCoordinator"}
    MaxMessages = 4
INVARIANTS
    TypeOK
    Delivered
    NoneHeldBack
    ExceptionCause
PROPERTIES
    AllArrive
CHECK_DEADLOCK FALSE
