SPECIFICATION GcdbSpec
CONSTANTS
    w1 = w1
    w2 = w2
    a1 = a1
    a2 = a2
    App = App
    Workers = {w1, w2}
    Owner = App
    Callers = {App}
    Addr = {a1, a2}
    NoTask = NoTask
    NoThread = NoThread
    MaxSubmit = 3
    MaxSpurious = 0
CHECK_DEADLOCK FALSE
INVARIANTS
    OneUpdate
    NoLateUse
    OthersAlone
