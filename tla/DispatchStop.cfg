SPECIFICATION FairSpec
CONSTANTS
    r1 = r1
    r2 = r2
    r3 = r3
    p1 = p1
    p2 = p2
    ghost = ghost
    c1 = c1
    c2 = c2
    Requests = {r1, r2}
    Cancellable = {r1}
    Providers = {p1}
    Names = {p1, p2, ghost}
    Chain <- GhostChains
    QueueSize = 1
    WorkersPerProvider = 1
    MaxRetries = 1
    DropOnQueueFull = FALSE
    Closers = {c1, c2}
INVARIANTS
    WaiterHasWork
    StoppedMeansDrained
    NoDoubleClose
    InFlightIsAwaited
PROPERTIES
    ImplementsChatService
    EveryRequestReturns
    WorkersEventuallyExit
