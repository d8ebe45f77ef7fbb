SPECIFICATION Spec
CONSTANTS
    HookNames <- GroupHooks
    StartupOrder <- GroupStartup
    HookConfig <- GroupHookConfig
    BindingConfig <- GroupBindings
    MaxEvents = 2
    MaxTicks = 1
INVARIANTS
    TypeOK
    NoContextLost
    NoContextTwice
    InOrder
    SyncFirstInMain
    StartupFirst
CHECK_DEADLOCK FALSE
