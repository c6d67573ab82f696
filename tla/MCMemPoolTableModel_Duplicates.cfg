CONSTANTS
    MaxTx = 5
    Recent = 2
    Cap = 4
    NewestFirst = TRUE
SPECIFICATION Spec
INVARIANTS
    NoDuplicateRows
