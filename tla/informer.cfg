CONSTANTS
    Object = {"o", "p"}
    Value <- FourValues
    Checksum <- FilterResult
    Bad = {"bad"}
    Absent = Absent
    EventTypes = {"Added", "Modified", "Deleted"}
    GapDeletes = FALSE
    MaxChanges = 2
    MaxBreaks = 1
SPECIFICATION FairSpec
INVARIANTS TypeOK SnapshotIsReplay QuietIsActual
PROPERTIES EventuallyActual
CHECK_DEADLOCK FALSE
