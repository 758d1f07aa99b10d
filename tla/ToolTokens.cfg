SPECIFICATION Spec
CONSTANTS
    Plugins = 1
    Accountant = 1
    Cases = {"single"}
    Configs <- SomeConfigs
    Limit <- Unlimited
    Callable = {"echo"}
    MaxCalls = 1
INVARIANTS
    AllTokensAccounted
