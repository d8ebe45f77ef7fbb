\* Crontabs are not used again after their last id was removed.
CONSTANTS
    Id <- ThreeIds
    CrontabOf <- TwoCrontabs
    Reuse = FALSE
    MaxFires = 2
SPECIFICATION FairSpec
INVARIANTS TypeOK OneFunction
PROPERTIES EveryFireReceived
CHECK_DEADLOCK FALSE
