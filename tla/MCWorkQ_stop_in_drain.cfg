SPECIFICATION FairSpec
CONSTANTS
    Queues = {q1}
    Works = {w1}
    Clients = {c1, c2}
    NoQueue = NoQueue
    None = None
    Handlers = {h1}
    Calls = {"start", "plug", "stop"}
    Discipline = {"one_drainer", "one_canceller", "no_drain_after_stop", "stay_plugged", "no_relaunch"}
PROPERTIES
    StopReturns
CHECK_DEADLOCK FALSE
