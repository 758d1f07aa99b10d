SPECIFICATION FairServerSpec
CONSTANTS
    r1 = r1
    r2 = r2
    r3 = r3
    p1 = p1
    p2 = p2
    c1 = c1
    Requests = {r1, r2}
    Cancellable = {r1, r2}
    Providers = {p1, p2}
    Names = {p1, p2}
    Chain <- Chains
    QueueSize = 1
    WorkersPerProvider = 1
    MaxRetries = 0
    DropOnQueueFull = FALSE
    Closers = {c1}
INVARIANTS
    NoRequestPanics
    CleanExitLosesNothing
PROPERTIES
    SignalEndsProcess
