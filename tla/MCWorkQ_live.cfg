SPECIFICATION FairSpec
CONSTANTS
    Queues = {q1}
    Works = {w1, w2}
    Clients = {c1, c2}
    NoQueue = NoQueue
    None = None
    Handlers = {h1}
    Calls = {"start", "run", "submit", "resubmit", "chained", "cancel", "cancel_sync", "flush", "drain", "plug", "unplug", "stop", "stop_for", "destroy"}
    Discipline = {"one_drainer", "one_canceller", "stop_after_drain", "no_drain_after_stop", "stay_plugged", "no_relaunch"}
INVARIANTS
    StopIsHeard
PROPERTIES
    FlushReturns
    CancelReturns
    QueuedIsServed
    DrainReturns
    StopReturns
    DestroyReturns
CHECK_DEADLOCK FALSE
