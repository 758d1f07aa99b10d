SPECIFICATION Spec
CONSTANTS
    Plugins = 3
    Accountant = 2
    Cases = {"chained", "disabled", "single", "twice", "unknown", "notool"}
    Configs <- SomeConfigs
    Limit = 2
    Callable = {"echo", "current_time"}
    MaxCalls = 2
INVARIANTS
    ConversationComplete
    RoundsBounded
    HooksNested
    PostHooksAllOrNone
    FailureIsNeverAnswered
    WholeChainTried
PROPERTIES
    FatalIsFinal
