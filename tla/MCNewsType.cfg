CONSTANTS
    URLs <- MCURLs
    BlockHashes = {b1}
    BlockData = {d1, d2}
    NoURL = NoURL
    MaxTypes = 2
SPECIFICATION Spec
INVARIANTS
    TypeOK
    ShareRoundTrip
