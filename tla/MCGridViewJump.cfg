SPECIFICATION Spec
CONSTANTS
    Modes = {"reloads"}
    Columns = {1}
    RowHeights = {4}
    Heights = {4}
    Scrolls = {0, 20}
    PadRow = 0
    PadTop = 0
    PadBottom = 0
    MaxItems = 6
    MaxViews = 6
    Later = {5}
INVARIANTS
    RecyclesOnlyInUse
