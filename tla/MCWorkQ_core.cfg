SPECIFICATION Spec
CONSTANTS
    Queues = {q1}
    Works = {w1, w2}
    Clients = {c1, c2, c3}
    NoQueue = NoQueue
    None = None
    Handlers = {h1}
    Calls = {"start", "run", "submit", "resubmit", "chained", "cancel", "cancel_sync", "flush", "drain", "plug", "unplug", "stop", "stop_for", "destroy"}
    Discipline = {"one_drainer", "one_canceller", "no_relaunch"}
SYMMETRY Symmetry
INVARIANTS
    TypeOK
    FlagsAgree
    WaitersAreServed
    PluggedIsEmpty
    NobodyIsForgotten
    GoneIsQuiet
    DestroyedIsUnused
PROPERTIES
    DrainSawEmpty
CHECK_DEADLOCK FALSE
