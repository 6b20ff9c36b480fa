SPECIFICATION FairSpec
CONSTANTS
    Threads = {t1, t2, t3, t4}
    Count = 2
    InitCounts <- MCInitCounts
    Unit = Unit
    NoItem = NoItem
INVARIANTS
    UnitsConserved
PROPERTIES
    ImplementsCounting
    SomebodyGetsIn
