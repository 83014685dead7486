SPECIFICATION Spec
CONSTANTS
    Item = {"a", "b", "c"}
    NoItem = NoItem
    Order <- MCOrder
    Saved <- MCSaved
    Columns0 = 3
    MaxRow = 16
    Spot <- MCSpot
    Handle = {{"l", "b"}}
    Pull <- MCPull
    Tallest = 2
    Menu = {"c"}
    Tab = {"b"}
    Stale = {2}
INVARIANTS TypeOK NoOverlap   SortedReload 
CHECK_DEADLOCK FALSE
