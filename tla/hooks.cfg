SPECIFICATION Spec
CONSTANTS
    HookNames <- MCHookNames
    Printed <- MCPrinted
    Queue <- MCQueue
    Unparsable <- MCUnparsable
    Mistyped = Mistyped
    Nil = Nil
    MaxBindings = 2
    MaxChanges = 2
    MaxAllChanges = 2
    MaxTicks = 2
    MaxFailures = 2
INVARIANTS TypeOK SnapshotsAsConfigured SnapshotsFresh RunsAsAsked
CHECK_DEADLOCK FALSE
