SPECIFICATION JobSpec
CONSTANTS
    MaxGames = 24
    MaxEligible = 7
    Modulus = 256
    MaxPlay = 5
INVARIANTS
    PartsArePrefix
    Loss
    Balanced
    NothingLost
    PercentagesFit
CHECK_DEADLOCK FALSE
