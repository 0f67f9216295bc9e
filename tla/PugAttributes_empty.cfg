SPECIFICATION Spec
CONSTANTS
    Char <- MCChar
    Values <- MCValues
    ShortChar = {"a", "=", ",", " ", "dq"}
    MaxLength = 2
    Words <- MCWords
    Contents <- MCContents
    ListCapacity = 1
    MaxFaults = 0
INVARIANTS EmptyValuesIgnored
