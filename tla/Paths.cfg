CONSTANTS
    Letters = {"a"}
    MaxPath = 5
    Pieces <- MCPieces
    MaxPieces = 3
    Places <- MCPlaces
SPECIFICATION Spec
INVARIANTS TypeOK CombineJoinsNames UpUndoesDown SplitJoins
CHECK_DEADLOCK FALSE
