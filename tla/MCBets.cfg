SPECIFICATION Spec
CONSTANTS
    Numbers <- AllNumbers
    Values  <- FewValues
INVARIANTS
    HouseEdge
    BetsThatCannotWin
    ZeroPays
    ColoursPartition
    CornersFollowLayout
