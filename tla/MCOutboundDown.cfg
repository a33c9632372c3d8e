\* Enough deliveries of one process to fail in a row; no clock is skewed and
\* Redis keeps its data.
SPECIFICATION OutboundSpec
CONSTANTS
    Tasks = {t1, t3}
    Instances = {"a", "b"}
    Lone = t3
    Home <- MCHome
    Capacity = 1
    Token = 1
    Rate = 1
    Expiry = 1
    MaxSkew = 0
    MaxTime = 2
    MaxAcquires = 2
    MaxRestarts = 0
    None = None
    MaxRetries = 2
    FailureThreshold = 2
    ResetTimeout = 1
INVARIANT ConsecutiveFailuresOpen
CHECK_DEADLOCK FALSE
