SPECIFICATION FairSpec
CONSTANTS
    NumSlots = 2
    TrackingId = {0, 1, 2}
    Place = {0, 10, 40}
    DragThreshold = 20
    Nowhere = Nowhere
    StartPlace = 0
    MaxReports = 3
INVARIANTS InputInv ButtonsAlternate TapStaysPut
PROPERTIES NeverPromoted NoStuckButton
CHECK_DEADLOCK FALSE
