CONSTANTS
    o1 = o1
    o2 = o2
    c1 = c1
    Absent = Absent
    Outpoints <- MCOutpoints
    Coins <- MCCoins
    ClientVersion = 210000
    MaxExport = 2
    MaxExports = 3
    MaxCrashes = 2
SPECIFICATION Spec
INVARIANTS
    TypeOK
    WrittenRoundTrip
CHECK_DEADLOCK FALSE
