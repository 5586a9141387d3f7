SPECIFICATION MCSpec
CONSTANTS
    t1 = t1
    NumBlocks = 3
    TorrentOf <- MCTorrentOf
    PieceOf <- MCPieceOf
    NumFiles = 2
    FirstBlock <- MCFirstBlock
    LastBlock <- MCLastBlock
    Bad = Bad
    Blank = Blank
    Limits = {0, 2}
    MaxFaults = 1
    MayBeBad = {2, 3}
    FromWeb = {2}
    MaxLate = 1
    MaxBlockSize = 2
    BufLen = 3
    Layout <- MCLayout
    Dirty = Dirty
    NoTorrent = NoTorrent
    MaxCalls = 2
CHECK_DEADLOCK FALSE
INVARIANTS
    TypeOK
    CacheSorted
    VerifiedIntact
    ResumeOnDisk
    ClosedLeavesNothing
    BlocksTileTorrent
    WritesLandInFiles
    SumsNeverStale
    CountsExact
    VerifyFindsPieces
    PrioritiesReachPieces
    LeftOutOnlyTogether
PROPERTIES
    CacheNeverOvergrows
    ImplementsBlockStore
