\* Commit protocol of BatchWrite with crashes and replay.
CONSTANTS
    o1 = o1
    o2 = o2
    c1 = c1
    c2 = c2
    b1 = b1
    b2 = b2
    Outpoints <- MCOutpoints
    Coins <- MCCoins
    Blocks <- MCBlocks
    NullHash = NullHash
    Absent = Absent
    Spent = Spent
    BatchSizeLimit = 1
    MaxCommits = 2
    MaxCrashes = 2
SPECIFICATION Spec
INVARIANTS
    TypeOK
    CommitAtomic
    RecoverableMarker
    LeftInMapCoins
PROPERTIES
    InterruptedCommitCompletes
    CoinStoreRefined
