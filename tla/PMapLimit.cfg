CONSTANTS
    k1 = k1
    k2 = k2
    k3 = k3
    v1 = v1
    Empty = Empty
    ValLen <- MCValLen
    ValHash <- MCValHash
    Second = 10
    Keys <- MCKeys3
    Values = {Empty}
    KeyLen <- MCKeyLen
    Hash32 <- MCHash32
    Times = {1}
    StoreSize = 116
    InitSize = 2
    SizeLimit = 4
    MinCount = 0
SPECIFICATION Spec
SYMMETRY SymK
INVARIANTS ProbesEnd FindsStored
PROPERTIES SuccessKeepsChecksum
