SPECIFICATION Spec
CONSTANTS
    Char <- MCChar
    Values <- MCValues
    ShortChar = {"a", "=", ",", " ", "dq"}
    MaxLength = 6
    Words <- MCWords
    Contents <- MCContents
    ListCapacity = 1
    MaxFaults = 2
INVARIANTS ReadsBack EveryPairCounted
