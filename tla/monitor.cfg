CONSTANTS
    Namespace = {"m", "n"}
    None = None
    Failed = Failed
    MaxChanges = 3
    MaxBreaks = 1
    MaxFailures = 1
SPECIFICATION FairSpec
INVARIANTS TypeOK NoOrphan QuietWatches AtMostOneLate
PROPERTIES EventuallyWatched StopEndsVarying
CHECK_DEADLOCK FALSE
