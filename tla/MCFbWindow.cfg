SPECIFICATION FairSpec
CONSTANTS
    Width = 2
    Height = 3
    Extents <- LargeDocuments
    Steps <- RowsAndPages
    Marks = {0, 2}
    Rects <- Areas
    Far = 99
INVARIANTS WindowInv DamageBoxed
PROPERTIES BroughtUpToDate
CHECK_DEADLOCK FALSE
