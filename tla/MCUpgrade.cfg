\* Upgrade under shutdown requests and crashes, any record possibly unparsable.
CONSTANTS
    v1 = v1
    Values <- MCValues
    NullOut = NullOut
    Unspendable = Unspendable
    Absent = Absent
    NTx = 3
    MaxOuts = 2
    Unparsable = Unparsable
    BatchLimit = 2
    MaxRestarts = 2
SPECIFICATION Spec
INVARIANTS
    TypeOK
    NoLossNoDuplication
    TrueMeansMigrated
PROPERTIES
    EventuallyMigrated
