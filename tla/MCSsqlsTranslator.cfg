SPECIFICATION Spec
CONSTANTS
    Piece <- MCPiece
    Tree <- MCTree
    Main <- MCMain
    Vocabularies <- MCVocabularies
    MaxOpen = 3
    MaxLine = 99
INVARIANTS
    IInv
    PrintedIsRead
PROPERTY Ends
CHECK_DEADLOCK FALSE
