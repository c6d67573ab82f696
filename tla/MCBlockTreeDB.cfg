\* Blocks accepted in any hash order, flushed, and reloaded after up to two crashes.
CONSTANTS
    Absent = Absent
    NBlocks = 4
    MaxFile = 1
    MaxCrashes = 2
SPECIFICATION Spec
INVARIANTS
    IndexAgreesWithDisk
    FileInfoMatchesIndex
PROPERTIES
    LoadCompletes
