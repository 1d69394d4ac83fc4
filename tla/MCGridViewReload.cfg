SPECIFICATION Spec
CONSTANTS
    Modes = {"reloads"}
    Columns = {1}
    RowHeights = {4}
    Heights = {4}
    Scrolls = {0, 6}
    PadRow = 0
    PadTop = 0
    PadBottom = 0
    MaxItems = 4
    MaxViews = 3
    Later = {3}
INVARIANTS
    NoLeftovers
