SPECIFICATION Spec
CONSTANTS
    Queues = {q1, q2}
    Works = {w1, w2}
    Clients = {c1, c2}
    NoQueue = NoQueue
    None = None
    Handlers = {h1, h2}
    Calls = {"start", "run", "submit", "resubmit", "chained", "cancel", "cancel_sync", "flush", "set_handler", "throw"}
    Discipline = {"one_drainer", "one_canceller", "stop_after_drain", "no_drain_after_stop", "stay_plugged"}
SYMMETRY Symmetry
PROPERTY
    ThrownIsBound
CHECK_DEADLOCK FALSE
