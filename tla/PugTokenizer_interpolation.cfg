SPECIFICATION Spec
CONSTANTS
    Char <- MCChar
    Alpha <- Letters
    Digit <- Digits
    PieceChar = {}
    PieceLength = 0
    TextChar = {"a", "{", "}", "#"}
    TextLength = 3
    LineChar = {}
    LineLength = 0
    Documents <- MCDocuments
    ListCapacity = 1
    MaxFaults = 0
INVARIANTS InterpolationsSeen
