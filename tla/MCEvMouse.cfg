SPECIFICATION FairSpec
CONSTANTS
    l1 = l1
    l2 = l2
    m1 = m1
    m2 = m2
    m3 = m3
    Listeners = {l1}
    Mice = {m1, m2, m3}
INVARIANTS
    TypeOK
    GrabsKnown
    AtMostARound
    NothingLeftBehind
PROPERTIES
    EarlyInterruptHeard
    InterruptEndsListen
