SPECIFICATION Spec
CONSTANTS
    c1 = c1
    c2 = c2
    Conns = {c1, c2}
    Ctxs = {"x1", "x2"}
    Kinds <- StreamThenList
    Headers <- SomeHeaders
    Providers = {"p1", "p2"}
    AnsweredBy <- Alternating
    Errors = {403}
    Chunks = 1
    PipeCap = 1
    Keep = 1
INVARIANTS
    SummaryTellsProvider
