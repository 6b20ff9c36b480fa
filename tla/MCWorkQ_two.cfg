SPECIFICATION Spec
CONSTANTS
    Queues = {q1, q2}
    Works = {w1, w2}
    Clients = {c1, c2}
    NoQueue = NoQueue
    None = None
    Handlers = {h1, h2}
    Calls = {"start", "submit", "resubmit", "chained", "cancel", "cancel_sync", "flush", "set_handler", "plug", "stop", "throw"}
    Discipline = {"one_drainer", "one_canceller", "stop_after_drain", "no_drain_after_stop", "stay_plugged", "no_relaunch"}
SYMMETRY Symmetry
INVARIANTS
    OneHandlerRuns
    WaitersAreServed
PROPERTIES
    ImplementsService
CHECK_DEADLOCK FALSE
