SPECIFICATION FairScreenSpec
CONSTANTS
    PhysWidth = 2
    PhysHeight = 3
    Landscape = TRUE
    Boxes <- LandscapeBoxes
    IntMax = 99
    IntMin <- Below
    IoctlMayFail = TRUE
INVARIANTS Exclusion DamageCovered
PROPERTIES ShownOnceStarted JoinReturns
CHECK_DEADLOCK FALSE
