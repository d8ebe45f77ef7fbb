\* Bindings of a hook that disagree on allowFailure.
SPECIFICATION Spec
CONSTANTS
    HookNames <- MixedHooks
    StartupOrder <- MixedStartup
    HookConfig <- MixedHookConfig
    BindingConfig <- MixedBindings
    MaxEvents = 1
    MaxTicks = 0
INVARIANT FailuresRepeated
CHECK_DEADLOCK FALSE
