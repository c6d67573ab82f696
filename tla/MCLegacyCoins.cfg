\* Every legacy record of up to twelve outputs: the bitmask then has two
\* bytes, and the first of them can be zero while the second is not.
CONSTANTS
    MaxOuts = 12
    Heights = {0, 1}
SPECIFICATION Spec
INVARIANTS
    UnserializeInvertsSerialize
