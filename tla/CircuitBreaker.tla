--------------------------- MODULE CircuitBreaker ---------------------------
(***************************************************************************)
(* The circuit breaker that every HTTP client of the services shares       *)
(* (shared/common/http.py, class CircuitBreaker), called by any number of  *)
(* concurrent tasks of one event loop.                                     *)
(*                                                                         *)
(* The breaker's lock guards three critical sections and none of them      *)
(* awaits: a task that asks for the lock always finds it free, so each     *)
(* section runs without interleaving and is one action.  The guarded call  *)
(* `fn` runs outside the lock, between Admit(c) and Succeed(c), Fail(c) or *)
(* Cancel(c).                                                              *)
(*                                                                         *)
(* Time: `age` counts the ticks since the circuit last opened and stops at *)
(* ResetTimeout, the only comparison the code makes.  `failures` stops at  *)
(* FailureThreshold for the same reason.  Neither bound hides a behaviour. *)
(***************************************************************************)
EXTENDS Naturals

CONSTANTS Calls,             \* the tasks that share the breaker
          FailureThreshold,  \* consecutive failures that open the circuit
          ResetTimeout       \* ticks an open circuit refuses calls

ASSUME BreakerAssumption ==
    /\ FailureThreshold \in Nat \ {0}
    /\ ResetTimeout \in Nat

CLOSED == "closed"
OPEN == "open"
HALF_OPEN == "half_open"

VARIABLES state,     \* _state
          failures,  \* _failures, up to the threshold
          age,       \* monotonic() - _opened_at, up to the reset timeout
          running,   \* the calls whose fn has started and not returned
          remoteUp   \* does the remote service answer?

breakerVars == <<state, failures, age>>
vars == <<state, failures, age, running, remoteUp>>

Init == /\ state = CLOSED
        /\ failures = 0
        /\ age = 0
        /\ running = {}
        /\ remoteUp \in BOOLEAN

-----------------------------------------------------------------------------
(* The reset timeout has passed: the `>=` of the code.                     *)
WindowElapsed == age >= ResetTimeout

(* Faulty variant: an elapsed window closes the circuit at once.            *)
AdmitCloses(c) ==
    /\ c \notin running
    /\ state = OPEN => WindowElapsed
    /\ state' = CLOSED
    /\ running' = running \union {c}
    /\ UNCHANGED <<failures, age, remoteUp>>

(* call() up to `await fn()`.  An open circuit whose window has not        *)
(* elapsed raises CircuitOpenError, which changes nothing.                 *)
Admit(c) ==
    /\ c \notin running
    /\ state = OPEN => WindowElapsed
    /\ state' = IF state = OPEN THEN HALF_OPEN ELSE state
    /\ running' = running \union {c}
    /\ UNCHANGED <<failures, age, remoteUp>>

(* Faulty variant: the count is compared with = and passes the threshold   *)
(* when a call in flight fails after the circuit opened.                   *)
OnFailureEquals ==
    IF failures + 1 = FailureThreshold
      THEN /\ failures' = FailureThreshold
           /\ state' = OPEN
           /\ age' = 0
      ELSE /\ failures' = failures + 1
           /\ UNCHANGED <<state, age>>

(* _on_failure(): the count and the transition, under the lock.            *)
OnFailure ==
    IF failures + 1 >= FailureThreshold
      THEN /\ failures' = FailureThreshold
           /\ state' = OPEN
           /\ age' = 0
      ELSE /\ failures' = failures + 1
           /\ UNCHANGED <<state, age>>

(* Faulty variants of OnSuccess: closing keeps the count, any success      *)
(* closes, no success closes.                                              *)
OnSuccessKeepsCount ==
    /\ failures' = IF state = HALF_OPEN THEN failures ELSE 0
    /\ state' = IF state = HALF_OPEN THEN CLOSED ELSE state
    /\ UNCHANGED age

OnSuccessAlwaysCloses ==
    /\ failures' = 0
    /\ state' = CLOSED
    /\ UNCHANGED age

OnSuccessOnlyClears == failures' = 0 /\ UNCHANGED <<state, age>>

(* _on_success(): every success clears the count, whatever the state; only *)
(* a half-open circuit closes.                                             *)
OnSuccess ==
    /\ failures' = 0
    /\ state' = IF state = HALF_OPEN THEN CLOSED ELSE state
    /\ UNCHANGED age

(* fn returned.                                                            *)
Succeed(c) ==
    /\ c \in running
    /\ remoteUp
    /\ OnSuccess
    /\ running' = running \ {c}
    /\ UNCHANGED remoteUp

(* fn raised an Exception.                                                 *)
Fail(c) ==
    /\ c \in running
    /\ ~remoteUp
    /\ OnFailure
    /\ running' = running \ {c}
    /\ UNCHANGED remoteUp

(* The task was cancelled inside fn: CancelledError is no Exception, so    *)
(* neither handler runs.                                                   *)
Cancel(c) ==
    /\ c \in running
    /\ running' = running \ {c}
    /\ UNCHANGED <<breakerVars, remoteUp>>

(* Time passes while the circuit is open.                                  *)
Tick ==
    /\ state = OPEN
    /\ age < ResetTimeout
    /\ age' = age + 1
    /\ UNCHANGED <<state, failures, running, remoteUp>>

(* The remote service goes down or comes back.                             *)
RemoteFlips ==
    /\ remoteUp' = ~remoteUp
    /\ UNCHANGED <<breakerVars, running>>

Next == \/ \E c \in Calls : Admit(c) \/ Succeed(c) \/ Fail(c) \/ Cancel(c)
        \/ Tick
        \/ RemoteFlips

(* Callers keep calling, time passes, and a started call ends: httpx bounds *)
(* every request by a timeout.  The end is strongly fair because the only  *)
(* code that cancels a call, the retry worker's stop(), runs once, at      *)
(* shutdown.                                                               *)
Fairness == /\ WF_vars(Tick)
            /\ \A c \in Calls : /\ WF_vars(Admit(c))
                                /\ SF_vars(Succeed(c) \/ Fail(c))

SafeSpec == Init /\ [][Next]_vars
Spec == SafeSpec /\ Fairness

-----------------------------------------------------------------------------
TypeOK == /\ state \in {CLOSED, OPEN, HALF_OPEN}
          /\ failures \in 0..FailureThreshold
          /\ age \in 0..ResetTimeout
          /\ running \subseteq Calls
          /\ remoteUp \in BOOLEAN

(* A closed circuit never carries enough failures to be open: however      *)
(* results of overlapping calls interleave, the count that reaches the     *)
(* threshold opens the circuit and the success that closes it clears the   *)
(* count.                                                                  *)
ClosedBelowThreshold == state = CLOSED => failures < FailureThreshold

(* While the circuit stays open the calls in flight only drain, and no late*)
(* success of one that was admitted before closes it: it closes only after *)
(* a call was let through in half-open.                                    *)
OpenHolds ==
    [][state = OPEN => state' # CLOSED /\ (state' = OPEN => running' \subseteq running)]_vars

(* A remote service that stays up is trusted again, and for good: no order *)
(* of late results, cancelled trials and openings leaves the circuit stuck *)
(* open or half-open.                                                      *)
RecoveryCloses == <>[]remoteUp => <>[](state = CLOSED)

(* A remote service that stays down is fenced off for good, even when late *)
(* successes cleared the failure count of the open circuit.                *)
DeadRemoteFencedOff == <>[]~remoteUp => <>[](state # CLOSED)

(* "a single trial call moves the circuit to half-open; success closes it, *)
(* failure re-opens" (the class's docstring): a call that fails in         *)
(* half-open opens the circuit again.                                      *)
HalfOpenFailureReopens ==
    [][(state = HALF_OPEN /\ \E c \in Calls : Fail(c)) => state' = OPEN]_vars
=============================================================================
