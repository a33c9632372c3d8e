\* Nothing goes wrong but a handler that raises.
SPECIFICATION Spec
CONSTANTS
    Ids = {i1, i2}
    Consumers = {k1, k2}
    Faults = {}
    MaxGrants = 2
    NoCopy = NoCopy
INVARIANT AcceptedWorkSurvives
CHECK_DEADLOCK FALSE
