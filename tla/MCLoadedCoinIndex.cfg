CONSTANTS
    o1 = o1
    o2 = o2
    c1 = c1
    Absent = Absent
    Bad = Bad
    Outpoints <- MCOutpoints
    Coins <- MCCoins
    ClientVersion = 210000
    ImportBatch = 2
    MaxRecords = 3
SPECIFICATION Spec
INVARIANTS
    TypeOK
    ImportComplete
    FailedImportWholeBatches
