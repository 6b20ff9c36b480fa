SPECIFICATION FairSpec
CONSTANTS
    Threads = {t1, t2, t3}
    Items = {i1, i2}
    NoItem = NoItem
    MaxSize = 2
    Overwrite = TRUE
    Calls = {"put", "put_for", "get", "get_for", "clear_unwatched"}
INVARIANTS
    RingOK
    ItemsAreOffered
    SpaceIsOffered
PROPERTIES
    ImplementsBuffer
    TimedReturns
