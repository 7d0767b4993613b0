CONSTANTS
    Data = {d1, d2}
    MaxRecords = 4
    MaxAccept = 2
    MaxBody = 3
    MaxOffset = 3
    Roots = {"k1", "k2"}
    PeerIDs = {"p1", "p2"}
    MaxData = 3
    MaxCuts = 1
    Lengths = {1, 2}
    MaxFrames = 8
    MaxRunes = 4
    MaxComponents = 3
    MaxPathBytes = 3
    MaxChanges = 2
    Calls <- MCCalls
    OptsOf <- MCOptsOf
    Object <- MCObject
    Slots <- MCSlots
    Tree0 <- MCTree0
SPECIFICATION BaseSpec
INVARIANTS
    AlwaysReadable
    AckedIsDurable
    ReadersAgree
    EndsAgree
    DriverIsSound
    NamesJudged
    PathsResolved
PROPERTIES
    ImplementsDurableLog
    ImplementsJournal
    EventuallySynced
    EndsKeepPromise
    HandshakeEnds
CHECK_DEADLOCK FALSE
