CONSTANTS
    k1 = k1
    k2 = k2
    k3 = k3
    v1 = v1
    Empty = Empty
    ValLen <- MCValLen
    ValHash <- MCValHash
    Second = 10
    Keys <- MCKeys2
    Values = {Empty, v1}
    KeyLen <- MCKeyLen
    Hash32 <- MCHash32
    Times <- MCTimes
    StoreSize = 76
    InitSize = 2
    SizeLimit = 16
    MinCount = 0
SPECIFICATION Spec
SYMMETRY SymK
INVARIANTS TypeOK IterateComplete DeletedIsGarbage
PROPERTIES RefinesLWWMap SuccessKeepsChecksum
