SPECIFICATION FairSpec
CONSTANTS
    HookNames <- GroupHooks
    StartupOrder <- GroupStartup
    HookConfig <- GroupHookConfig
    BindingConfig <- GroupBindings
    MaxEvents = 1
    MaxTicks = 1
PROPERTIES
    EveryContextHandled
    AllEnabled
CHECK_DEADLOCK FALSE
