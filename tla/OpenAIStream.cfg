SPECIFICATION FairUpSpec
CONSTANTS
    Attempts = 2
    Chunks = 3
    Kinds = {"mock", "openai"}
    EventsCap = 1
    OutputCap = 1
    ChunksCap = 1
INVARIANTS
    UpTypeOK
    ClientReadsPrefix
    DoneMeansComplete
    HooksSeeWholeStream
    LostOnlyBehindError
    CancelComesLast
PROPERTIES
    StreamEnds
