\* Two permits, both taken by other jobs or by the job's first task, and a
\* third task that waits.
SPECIFICATION RunnerSafeSpec
CONSTANTS
    Jobs = {j1, j2, j3}
    Unknown = {}
    Permits = {p1, p2}
    ListLimit = 1
    MaxWaiting = 2
    NoJob = NoJob
PROPERTY SettledIsFinal
CHECK_DEADLOCK FALSE
