------------------------ MODULE CircuitBreakerProofs ------------------------
(***************************************************************************)
(* What the circuit breaker guarantees for every number of callers, every  *)
(* threshold and every reset timeout.  The inductive invariant is type     *)
(* correctness with ClosedBelowThreshold; the action properties follow     *)
(* from type correctness and the cases of Next.                            *)
(***************************************************************************)
EXTENDS CircuitBreaker, TLAPS

BreakerInv == TypeOK /\ ClosedBelowThreshold

(* The breaker starts closed with no failure counted.                      *)
LEMMA InitBreakerInv == Init => BreakerInv
  BY BreakerAssumption
     DEF Init, BreakerInv, TypeOK, ClosedBelowThreshold, CLOSED, OPEN, HALF_OPEN

(* Every step of a call, of the clock and of the remote service keeps      *)
(* BreakerInv.                                                             *)
LEMMA NextBreakerInv == BreakerInv /\ [Next]_vars => BreakerInv'
<1> SUFFICES ASSUME BreakerInv, [Next]_vars PROVE BreakerInv'
  OBVIOUS
<1> USE BreakerAssumption
    DEF BreakerInv, TypeOK, ClosedBelowThreshold, CLOSED, OPEN, HALF_OPEN
<1>1. ASSUME NEW c \in Calls, Admit(c) PROVE BreakerInv'
  BY <1>1 DEF Admit
<1>2. ASSUME NEW c \in Calls, Succeed(c) PROVE BreakerInv'
  BY <1>2 DEF Succeed, OnSuccess
<1>3. ASSUME NEW c \in Calls, Fail(c) PROVE BreakerInv'
  BY <1>3 DEF Fail, OnFailure
<1>4. ASSUME NEW c \in Calls, Cancel(c) PROVE BreakerInv'
  BY <1>4 DEF Cancel, breakerVars
<1>5. CASE Tick
  BY <1>5 DEF Tick
<1>6. CASE RemoteFlips
  BY <1>6 DEF RemoteFlips, breakerVars
<1>7. CASE UNCHANGED vars
  BY <1>7 DEF vars
<1> QED
  BY <1>1, <1>2, <1>3, <1>4, <1>5, <1>6, <1>7 DEF Next

(* The breaker's fields keep their ranges.                                 *)
THEOREM BreakerTypeCorrect == SafeSpec => []TypeOK
<1>1. BreakerInv => TypeOK
  BY DEF BreakerInv
<1> QED
  BY InitBreakerInv, NextBreakerInv, <1>1, PTL DEF SafeSpec

(* A closed circuit never carries enough failures to be open, however the  *)
(* results of overlapping calls interleave (_on_failure, _on_success).     *)
THEOREM BreakerClosedBelowThreshold == SafeSpec => []ClosedBelowThreshold
<1>1. BreakerInv => ClosedBelowThreshold
  BY DEF BreakerInv
<1> QED
  BY InitBreakerInv, NextBreakerInv, <1>1, PTL DEF SafeSpec

(* No result of any call, late or not, takes the circuit from open to      *)
(* closed, and while it stays open the remote service sees no new call.    *)
THEOREM BreakerOpenHolds == SafeSpec => OpenHolds
<1>1. [Next]_vars => [state = OPEN => state' # CLOSED /\ (state' = OPEN => running' \subseteq running)]_vars
  <2> SUFFICES ASSUME Next, state = OPEN
               PROVE  state' # CLOSED /\ (state' = OPEN => running' \subseteq running)
    OBVIOUS
  <2> USE DEF CLOSED, OPEN, HALF_OPEN
  <2>1. ASSUME NEW c \in Calls, Admit(c) PROVE state' \notin {CLOSED, OPEN}
    BY <2>1 DEF Admit
  <2>2. ASSUME NEW c \in Calls, Succeed(c) \/ Fail(c)
        PROVE  state' # CLOSED /\ running' \subseteq running
    BY <2>2 DEF Succeed, Fail, OnSuccess, OnFailure
  <2>3. ASSUME NEW c \in Calls, Cancel(c) PROVE state' # CLOSED /\ running' \subseteq running
    BY <2>3 DEF Cancel, breakerVars
  <2>4. CASE Tick
    BY <2>4 DEF Tick
  <2>5. CASE RemoteFlips
    BY <2>5 DEF RemoteFlips, breakerVars
  <2> QED
    BY <2>1, <2>2, <2>3, <2>4, <2>5 DEF Next
<1> QED
  BY <1>1, PTL DEF SafeSpec, OpenHolds
=============================================================================
