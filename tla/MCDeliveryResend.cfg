\* No fault but the workspace's refusals and timeouts, and the end of the keys.
SPECIFICATION SafeSpec
CONSTANTS
    Messages = {m1}
    Handlers = {h1}
    Retriers = {r1}
    Faults = {}
    ReuseIds = FALSE
    MaxPosts = 2
    MaxWindows = 3
    NoMessage = NoMessage
PROPERTY RetrySparesSent
CHECK_DEADLOCK FALSE
