\* Every operation of the queue, called by anybody at any time.
CONSTANTS
    ClientOps = {"AddFirst", "AddLast", "RemoveFirst", "RemoveLast", "Remove"}
    MaxTasks = 3
    MaxHead = 1
    MaxTail = 1
    MaxAfter = 2
    MaxFailures = 1
SPECIFICATION Spec
INVARIANTS TypeOK AtMostOneLateCall
CHECK_DEADLOCK FALSE
