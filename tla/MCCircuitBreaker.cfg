\* Three tasks and a threshold of two: two calls open the circuit while a
\* third, admitted before, is still in flight.
SPECIFICATION Spec
CONSTANTS
    Calls = {c1, c2, c3}
    FailureThreshold = 2
    ResetTimeout = 2
INVARIANTS
    TypeOK
    ClosedBelowThreshold
PROPERTIES
    OpenHolds
    RecoveryCloses
    DeadRemoteFencedOff
