SPECIFICATION FairSpec
CONSTANTS
    l1 = l1
    l2 = l2
    m1 = m1
    m2 = m2
    m3 = m3
    Listeners = {l1, l2}
    Mice = {m1}
PROPERTIES
    InterruptEndsListen
