SPECIFICATION FairSpec
CONSTANTS
    Queues = {q1}
    Works = {w1}
    Clients = {c1, c2, c3}
    NoQueue = NoQueue
    None = None
    Handlers = {h1}
    Calls = {"start", "submit", "cancel", "cancel_sync"}
    Discipline = {"one_drainer", "stop_after_drain", "no_drain_after_stop", "stay_plugged", "no_relaunch"}
PROPERTIES
    CancelReturns
CHECK_DEADLOCK FALSE
