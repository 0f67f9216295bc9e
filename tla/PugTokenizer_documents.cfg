SPECIFICATION Spec
CONSTANTS
    Char <- MCChar
    Alpha <- Letters
    Digit <- Digits
    PieceChar = {"a", "_", "1", "#", ".", "(", ")", " "}
    PieceLength = 5
    TextChar = {"a", " ", "#", "{", "}", "."}
    TextLength = 4
    LineChar = {"a", " ", "tab", "doctype", "+", "/", "-"}
    LineLength = 2
    Documents <- MCDocuments
    ListCapacity = 1
    MaxFaults = 2
INVARIANTS TypeOK ProducesWellFormed CutInOrder LettersKept ParensBalanced
PROPERTIES Terminates
