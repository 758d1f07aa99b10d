SPECIFICATION Spec
CONSTANTS
    s1 = s1
    s2 = s2
    s3 = s3
    k1 = k1
    k2 = k2
    stranger = stranger
    p1 = p1
    p2 = p2
    m1 = m1
    m2 = m2
    Clients = {s1, s2}
    Keys = {k1, k2}
    Calls <- AllCalls
    AllowedProviders <- OneProvider
    AllowedModels <- OneModel
    MaxRequests <- TwoRequests
    MaxInputTokens <- ThreeTokens
    MaxOutputTokens <- ThreeTokens
    Costs <- SmallOrLarge
    Horizon = 4
SYMMETRY Symmetry
INVARIANTS
    QuotaOvershootBounded
    InputOvershootBounded
    NothingRunsOnSpentKey
    OnlyAllowedRuns
    AccountedIffAnswered
