\* The queue as shell-operator uses it: other goroutines add to the tail,
\* results carry HeadTasks and TailTasks only.
CONSTANTS
    ClientOps = {"AddLast"}
    MaxTasks = 4
    MaxHead = 2
    MaxTail = 1
    MaxAfter = 0
    MaxFailures = 1
SPECIFICATION FairSpec
INVARIANTS NothingLost NothingTwice HeadBlocks EndsOnlyWhenCancelled
PROPERTIES ImplementsSequentialQueue EveryTaskFinishes StopEnds
CHECK_DEADLOCK FALSE
