\* The queue: two messages, two consumers, every fault, and up to two grants of
\* each id: enough for a requeue after an expired key to meet a second producer.
\* The runner: three jobs, one without a handler, two permits, one job per poll
\* and up to two waiting tasks for each job.
SPECIFICATION WorkersSpec
CONSTANTS
    Ids = {i1, i2}
    Consumers = {k1, k2}
    Faults = {"crash", "redis", "expiry", "manual"}
    MaxGrants = 2
    NoCopy = NoCopy
    Jobs = {j1, j2, j3}
    Unknown = {j3}
    Permits = {p1, p2}
    ListLimit = 1
    MaxWaiting = 2
    NoJob = NoJob
INVARIANTS
    TypeOK
    OneCopyPerWindow
    OneHandlerPerCopy
    RunnerTypeOK
    RunningIsExecuting
    EarlyCancelHonoured
PROPERTIES
    ImplementsAtMostOnce
    QueuedIsTaken
    EveryJobSettles
