CONSTANTS
    Second = 2
    Items = {a}
    Clock <- MCClock
    MaxCount = 1
SPECIFICATION WindowsSpec
INVARIANTS WindowsTypeOK TimeStable NothingAhead
PROPERTY WindowsOnlyAdvance
