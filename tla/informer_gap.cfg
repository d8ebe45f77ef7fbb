CONSTANTS
    Object = {"o", "p"}
    Value <- FourValues
    Checksum <- FilterResult
    Bad = {"bad"}
    Absent = Absent
    EventTypes = {"Added", "Modified", "Deleted"}
    GapDeletes = TRUE
    MaxChanges = 2
    MaxBreaks = 1
SPECIFICATION Spec
INVARIANT QuietIsActual
CHECK_DEADLOCK FALSE
