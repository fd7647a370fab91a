SPECIFICATION Spec
CONSTANTS
    Tasks = {1, 2}
    Games = 1
    MaxMessages = 4
    Answers = {"ACCEPT"}
    Ends = {}
INVARIANT
    DropsOnlyCancelled
CHECK_DEADLOCK FALSE
