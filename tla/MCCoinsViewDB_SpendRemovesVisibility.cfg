\* SpendRemovesVisibility, which the code violates.
CONSTANTS
    o1 = o1
    o2 = o2
    c1 = c1
    c2 = c2
    b1 = b1
    b2 = b2
    Outpoints <- MCOutpoints
    Coins <- MCCoins
    Blocks <- MCBlocks
    NullHash = NullHash
    Absent = Absent
    Spent = Spent
    BatchSizeLimit = 1
    MaxCommits = 1
    MaxCrashes = 0
SPECIFICATION Spec
INVARIANT
    SpendRemovesVisibility
