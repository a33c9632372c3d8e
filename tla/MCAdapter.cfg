\* Delivery: one message, two request handlers and a retry worker, two POSTs
\* per call, three dedupe windows and every fault.  The way out: two processes,
\* one with two tasks, and a bucket of one token, refilled by one every tick.
SPECIFICATION AdapterSpec
CONSTANTS
    Messages = {m1}
    Handlers = {h1, h2}
    Retriers = {r1}
    Faults = {"crash", "redis", "database"}
    ReuseIds = TRUE
    MaxPosts = 2
    MaxWindows = 3
    NoMessage = NoMessage
    Tasks = {t1, t2, t3}
    Instances = {"a", "b"}
    Lone = t3
    Home <- MCHome
    Capacity = 1
    Token = 1
    Rate = 1
    Expiry = 1
    MaxSkew = 1
    MaxTime = 2
    MaxAcquires = 3
    MaxRestarts = 1
    None = None
    MaxRetries = 2
    FailureThreshold = 2
    ResetTimeout = 1
INVARIANTS
    TypeOK
    OneDelivererPerMessage
    EveryWindowRecordedOnce
    SentRowsWereAnswered
    DuplicatesBounded
    WorkspaceLoadBounded
PROPERTIES
    FailedIsRetriedNextWindow
    UsesBreaker
CHECK_DEADLOCK FALSE
