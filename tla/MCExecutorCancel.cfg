SPECIFICATION Spec
CONSTANTS
    w1 = w1
    w2 = w2
    own = own
    client = client
    a1 = a1
    a2 = a2
    a3 = a3
    Workers = {w1, w2}
    Owner = own
    Callers = {own}
    Addr = {a1, a2}
    NoTask = NoTask
    NoThread = NoThread
    MaxSubmit = 1
    MaxSpurious = 0
CHECK_DEADLOCK FALSE
PROPERTIES
    CancelFindsTaken
