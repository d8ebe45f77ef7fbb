SPECIFICATION Spec
CONSTANTS
    HookNames <- MCHookNames
    Printed <- MCPrintedV0
    Queue <- MCQueue
    Unparsable <- MCUnparsable
    Mistyped = Mistyped
    Nil = Nil
    MaxBindings = 2
    MaxChanges = 1
    MaxAllChanges = 1
    MaxTicks = 1
    MaxFailures = 1
INVARIANT EventsOfV0Told
CHECK_DEADLOCK FALSE
