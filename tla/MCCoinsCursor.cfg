\* Coin cursors created between, and scanned across, crashing commits.
CONSTANTS
    o1 = o1
    o2 = o2
    c1 = c1
    b1 = b1
    b2 = b2
    Outpoints <- MCOutpoints
    Coins <- MCCoins
    Blocks <- MCBlocks
    CoinOrder <- MCCoinOrder
    LoadedCoin <- MCLoadedCoin
    NullHash = NullHash
    Absent = Absent
    Spent = Spent
    NoCursor = NoCursor
    NoTable = NoTable
    BatchSizeLimit = 1
    MaxCommits = 2
    MaxCrashes = 1
    MaxCursors = 2
SPECIFICATION CursorSpec
INVARIANTS
    CursorMatchesStore
PROPERTIES
    ScanCompletes
