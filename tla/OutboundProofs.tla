---------------------------- MODULE OutboundProofs ----------------------------
(***************************************************************************)
(* What the way out of the adapter guarantees for every number of          *)
(* instances, every skew of their clocks and every size of the bucket.     *)
(*                                                                         *)
(* The argument about the bucket: what was taken and what is left never    *)
(* exceed what the restarts and the time up to the stamp put in, where a   *)
(* stamp that goes back counts for `regress` what it loses.  A bucket that *)
(* is dropped had Expiry ticks to fill, so that a full one replaces it.    *)
(***************************************************************************)
EXTENDS Outbound, FiniteSetTheorems, TLAPS

(* The tasks that hold a permission and have not used it.                  *)
Pending == {t \in Tasks : phase[t] = "granted" /\ attempt[t] = 0}

Taken == granted * Token

BucketInv ==
    /\ used <= now
    /\ bucket = Absent => Taken <= Capacity * restarts + Rate * (now + regress)
    /\ bucket # Absent =>
         /\ bucket.updated <= used
         /\ Taken + bucket.tokens <= Capacity * (1 + restarts) + Rate * (bucket.updated + regress)

CountInv == /\ deliveries + Cardinality(Pending) <= granted + free
            /\ \A t \in Tasks : attempt[t] > 0 => phase[t] = "granted"

OutboundInv == OutboundTypeOK /\ BucketInv /\ CountInv

-----------------------------------------------------------------------------
(* Products of naturals, as the bucket's bound needs them.                 *)
LEMMA Distributes ==
    ASSUME NEW a \in Int, NEW b \in Int, NEW c \in Int
    PROVE  a * (b + c) = a * b + a * c
  OBVIOUS

LEMMA ProductGrows ==
    ASSUME NEW a \in Nat, NEW b \in Nat, NEW c \in Nat, b <= c
    PROVE  a * b <= a * c
  OBVIOUS

LEMMA ProductIsNat ==
    ASSUME NEW a \in Nat, NEW b \in Nat
    PROVE  a * b \in Nat
  OBVIOUS

-----------------------------------------------------------------------------
(* The types.                                                              *)
LEMMA InitType == OutboundInit => OutboundTypeOK
<1> SUFFICES ASSUME OutboundInit PROVE OutboundTypeOK
  OBVIOUS
<1>1. RateTypeOK
  <2>1. bucket = Absent /\ used = 0 /\ now = 0
    BY DEF OutboundInit, RateInit
  <2>2. /\ phase \in [Tasks -> {"idle", "acquiring", "granted", "limited", "raised"}]
        /\ reading \in [Tasks -> (0..MaxTime) \union {None}]
        /\ \A t \in Tasks : phase[t] # "acquiring"
    BY DEF OutboundInit, RateInit
  <2>3. /\ script \in BOOLEAN /\ cached \subseteq Instances
        /\ granted = 0 /\ free = 0 /\ regress = 0 /\ restarts = 0 /\ acquires = 0
    BY DEF OutboundInit, RateInit
  <2> QED
    BY <2>1, <2>2, <2>3, RateAssumption DEF RateTypeOK
<1>2. /\ circuit \in [Instances -> [state : {"closed", "open", "half_open"},
                                  failures : 0..FailureThreshold, age : 0..ResetTimeout]]
      /\ attempt \in [Tasks -> 0..MaxRetries]
      /\ deliveries \in Nat /\ failing \in [Instances -> 0..FailureThreshold]
  BY OutboundAssumption DEF OutboundInit
<1> QED
  BY <1>1, <1>2 DEF OutboundTypeOK

(* What Refilled() and GoesBack() return for a reading that is not ahead.  *)
LEMMA RefilledType ==
    ASSUME OutboundTypeOK, BucketInv, NEW r \in 0..now
    PROVE  /\ Refilled(r) \in 0..Capacity
           /\ GoesBack(r) \in Nat
  <1>1. CASE bucket = Absent
    BY <1>1, RateAssumption DEF OutboundTypeOK, RateTypeOK, Refilled, GoesBack
  <1>2. CASE bucket # Absent
    <2>1. bucket.tokens \in 0..Capacity /\ bucket.updated \in 0..MaxTime
      BY <1>2 DEF OutboundTypeOK, RateTypeOK
    <2>2. ASSUME NEW e \in Nat PROVE Rate * e \in Nat
      BY RateAssumption, ProductIsNat
    <2>3. r \in Nat
      BY DEF OutboundTypeOK, RateTypeOK
    <2> DEFINE e == IF r < bucket.updated THEN 0 ELSE r - bucket.updated
    <2>4. e \in Nat
      BY <2>1, <2>3
    <2>5. Rate * e \in Nat
      BY <2>2, <2>4
    <2>6. Refilled(r) \in 0..Capacity
      BY <1>2, <2>1, <2>5, RateAssumption DEF Refilled
    <2>7. GoesBack(r) \in Nat
      BY <1>2, <2>1, <2>3 DEF GoesBack
    <2> QED
      BY <2>6, <2>7
  <1> QED
    BY <1>1, <1>2

CircuitType == [state : {"closed", "open", "half_open"},
                failures : 0..FailureThreshold, age : 0..ResetTimeout]

(* What can become of a breaker is a breaker.                              *)
LEMMA CircuitMoves ==
    ASSUME OutboundTypeOK
    PROVE  /\ [i \in Instances |-> Aged(circuit[i])] \in [Instances -> CircuitType]
           /\ \A t \in Tasks :
                /\ [circuit EXCEPT ![Home[t]] = AfterAdmission(@)] \in [Instances -> CircuitType]
                /\ [circuit EXCEPT ![Home[t]] = AfterSuccess(@)] \in [Instances -> CircuitType]
                /\ [circuit EXCEPT ![Home[t]] = AfterFailure(@)] \in [Instances -> CircuitType]
<1>1. circuit \in [Instances -> CircuitType] /\ \A t \in Tasks : Home[t] \in Instances
  BY RateAssumption DEF OutboundTypeOK, CircuitType
<1>2. ASSUME NEW c \in CircuitType
      PROVE  /\ AfterAdmission(c) \in CircuitType /\ AfterSuccess(c) \in CircuitType
             /\ AfterFailure(c) \in CircuitType /\ Aged(c) \in CircuitType
  <2>1. /\ c.state \in {"closed", "open", "half_open"}
        /\ c.failures \in 0..FailureThreshold /\ c.age \in 0..ResetTimeout
        /\ FailureThreshold \in Nat \ {0} /\ ResetTimeout \in Nat
    BY OutboundAssumption DEF CircuitType
  <2>2. AfterAdmission(c) \in CircuitType
    BY DEF CircuitType, AfterAdmission
  <2>3. AfterSuccess(c) \in CircuitType
    <3>1. CASE c.state = "half_open"
      <4>1. AfterSuccess(c) = [c EXCEPT !.failures = 0, !.state = "closed"]
        BY <3>1 DEF AfterSuccess
      <4>2. AfterSuccess(c) = [state |-> "closed", failures |-> 0, age |-> c.age]
        BY <4>1 DEF CircuitType
      <4> QED
        BY <2>1, <4>2 DEF CircuitType
    <3>2. CASE c.state # "half_open"
      <4>1. AfterSuccess(c) = [c EXCEPT !.failures = 0]
        BY <3>2 DEF AfterSuccess, CircuitType
      <4> QED
        BY <2>1, <4>1 DEF CircuitType
    <3> QED
      BY <3>1, <3>2
  <2>4. AfterFailure(c) \in CircuitType
    <3>1. c.failures + 1 >= FailureThreshold \/ c.failures + 1 \in 0..FailureThreshold
      BY <2>1
    <3> QED
      BY <2>1, <3>1 DEF CircuitType, AfterFailure
  <2>5. Aged(c) \in CircuitType
    <3>1. c.age < ResetTimeout => c.age + 1 \in 0..ResetTimeout
      BY <2>1
    <3> QED
      BY <3>1 DEF CircuitType, Aged
  <2> QED
    BY <2>2, <2>3, <2>4, <2>5
<1> QED
  BY <1>1, <1>2

(* Every step keeps the types.                                             *)
LEMMA NextType == OutboundTypeOK /\ BucketInv /\ [OutboundNext]_outboundVars => OutboundTypeOK'
<1> SUFFICES ASSUME OutboundTypeOK, BucketInv, [OutboundNext]_outboundVars
             PROVE  OutboundTypeOK'
  OBVIOUS
<1> USE RateAssumption, OutboundAssumption DEF OutboundTypeOK, RateTypeOK
<1>1. ASSUME NEW t \in Tasks, NEW lag \in 0..MaxSkew, Begin(t, lag) PROVE OutboundTypeOK'
  BY <1>1 DEF Begin, BeginAcquire
<1>2. ASSUME NEW t \in Tasks, NEW heard \in BOOLEAN, Execute(t, heard), UNCHANGED sendVars
      PROVE  OutboundTypeOK'
  <2>1. reading[t] \in 0..now
    BY <1>2 DEF Execute
  <2>2. Refilled(reading[t]) \in 0..Capacity /\ GoesBack(reading[t]) \in Nat
    BY <2>1, RefilledType
  <2>3. bucket' \in [tokens : 0..Capacity, updated : 0..MaxTime]
    BY <1>2, <2>1, <2>2 DEF Execute
  <2>4. /\ granted' \in Nat /\ free' \in Nat /\ regress' \in Nat
        /\ used' = now /\ now' = now /\ restarts' = restarts /\ acquires' = acquires
        /\ script' = script /\ cached' = cached
    BY <1>2, <2>2 DEF Execute
  <2>5. \E how \in {"granted", "limited"} : Settle(t, how)
    BY <1>2 DEF Execute
  <2>6. /\ phase' \in [Tasks -> {"idle", "acquiring", "granted", "limited", "raised"}]
        /\ reading' \in [Tasks -> (0..MaxTime) \union {None}]
        /\ \A q \in Tasks : phase'[q] = "acquiring" => reading'[q] \in 0..now
    BY <2>5 DEF Settle
  <2> QED
    BY <1>2, <2>3, <2>4, <2>6 DEF sendVars
<1>3. ASSUME NEW t \in Tasks, Unavailable(t) \/ NoScript(t), UNCHANGED sendVars
      PROVE  OutboundTypeOK'
  <2>1. /\ bucket' = bucket /\ used' = used /\ now' = now /\ script' = script /\ cached' = cached
        /\ granted' = granted /\ free' \in Nat /\ regress' = regress
        /\ restarts' = restarts /\ acquires' = acquires
    BY <1>3 DEF Unavailable, NoScript
  <2>2. \E how \in {"granted", "raised"} : Settle(t, how)
    BY <1>3 DEF Unavailable, NoScript
  <2>3. /\ phase' \in [Tasks -> {"idle", "acquiring", "granted", "limited", "raised"}]
        /\ reading' \in [Tasks -> (0..MaxTime) \union {None}]
        /\ \A q \in Tasks : phase'[q] = "acquiring" => reading'[q] \in 0..now
    BY <2>2 DEF Settle
  <2> QED
    BY <1>3, <2>1, <2>3 DEF sendVars
<1>4. ASSUME NEW t \in Tasks, Admitted(t) PROVE OutboundTypeOK'
  <2>1. circuit' \in [Instances -> CircuitType]
    BY <1>4, CircuitMoves DEF Admitted
  <2> QED
    BY <1>4, <2>1 DEF Admitted, rateVars, CircuitType
<1>5. ASSUME NEW t \in Tasks, Refused(t) PROVE OutboundTypeOK'
  BY <1>5 DEF Refused, Leaves
<1>6. ASSUME NEW t \in Tasks, PostsAgain(t), phase[t] = "granted", attempt[t] < MaxRetries
      PROVE  OutboundTypeOK'
  BY <1>6 DEF PostsAgain, rateVars
<1>7. ASSUME NEW t \in Tasks, CallEnds(t),
             \/ circuit' = [circuit EXCEPT ![Home[t]] = AfterSuccess(@)]
             \/ circuit' = [circuit EXCEPT ![Home[t]] = AfterFailure(@)],
             FailsAgain(t) \/ failing' = [failing EXCEPT ![Home[t]] = 0]
      PROVE  OutboundTypeOK'
  <2>1. circuit' \in [Instances -> CircuitType]
    BY <1>7, CircuitMoves
  <2>2. failing' \in [Instances -> 0..FailureThreshold]
    BY <1>7 DEF FailsAgain
  <2> QED
    BY <1>7, <2>1, <2>2 DEF CallEnds, Leaves, CircuitType
<1>8. ASSUME NEW t \in Tasks, NEW down \in BOOLEAN, Response(t, down)
      PROVE  OutboundTypeOK'
  <2>1. CASE down /\ attempt[t] < MaxRetries
    BY <1>6, <1>8, <2>1 DEF Response
  <2>2. CASE ~(down /\ attempt[t] < MaxRetries)
    BY <1>7, <1>8, <2>2 DEF Response
  <2> QED
    BY <2>1, <2>2
<1>9. ASSUME NEW t \in Tasks, NoResponse(t) PROVE OutboundTypeOK'
  <2>1. CASE attempt[t] < MaxRetries
    BY <1>6, <1>9, <2>1 DEF NoResponse
  <2>2. CASE ~(attempt[t] < MaxRetries)
    BY <1>7, <1>9, <2>2 DEF NoResponse
  <2> QED
    BY <2>1, <2>2
<1>10. ASSUME RedisStep, UNCHANGED sendVars PROVE OutboundTypeOK'
  <2>1. CASE BucketExpires
    BY <1>10, <2>1 DEF BucketExpires, sendVars
  <2>2. ASSUME NEW keeps \in BOOLEAN, RedisRestarts(keeps) PROVE OutboundTypeOK'
    <3>1. bucket' \in {bucket, Absent} /\ script' = FALSE /\ restarts' \in 0..MaxRestarts
      BY <2>2 DEF RedisRestarts
    <3> QED
      BY <1>10, <2>2, <3>1 DEF RedisRestarts, sendVars
  <2> QED
    BY <1>10, <2>1, <2>2 DEF RedisStep
<1>11. CASE TimePasses
  <2>1. circuit' \in [Instances -> CircuitType]
    BY <1>11, CircuitMoves DEF TimePasses
  <2> QED
    BY <1>11, <2>1 DEF TimePasses, Tick, Passes, CircuitType
<1>12. CASE UNCHANGED outboundVars
  BY <1>12 DEF outboundVars, rateVars, sendVars
<1> QED
  BY <1>1, <1>2, <1>3, <1>4, <1>5, <1>8, <1>9, <1>10, <1>11, <1>12
     DEF OutboundNext, Goes, RedisAnswers, Answered

-----------------------------------------------------------------------------
(* The bucket.                                                             *)
LEMMA InitBucket == OutboundInit => BucketInv
  BY RateAssumption DEF OutboundInit, RateInit, BucketInv, Taken

(* What a run of the script does to the bound.                             *)
LEMMA ExecuteBucket ==
    ASSUME OutboundTypeOK, BucketInv, NEW t \in Tasks, NEW heard \in BOOLEAN, Execute(t, heard)
    PROVE  BucketInv'
<1> DEFINE r == reading[t]
           T == Refilled(r)
           one == IF T >= Token THEN 1 ELSE 0
<1>1. /\ r \in 0..now /\ now \in Nat /\ granted \in Nat /\ regress \in Nat /\ restarts \in Nat
      /\ Token \in Nat /\ Rate \in Nat /\ Capacity \in Nat
  BY RateAssumption DEF Execute, OutboundTypeOK, RateTypeOK
<1>2. T \in 0..Capacity /\ GoesBack(r) \in Nat
  BY <1>1, RefilledType
<1>3. /\ bucket' = [tokens |-> T - one * Token, updated |-> r]
      /\ granted' = granted + one
      /\ used' = now /\ now' = now /\ restarts' = restarts
      /\ regress' = regress + GoesBack(r)
  BY <1>1, <1>2 DEF Execute
<1>4. Taken' = Taken + one * Token
  BY <1>1, <1>3, Distributes DEF Taken
<1>5. bucket' # Absent
  BY <1>1, <1>3, RateAssumption DEF Absent
<1>6. Taken + T <= Capacity * (1 + restarts) + Rate * (r + regress + GoesBack(r))
  <2>1. CASE bucket = Absent
    <3>1. T = Capacity /\ r + regress + GoesBack(r) = now + regress
      BY <1>1, <2>1 DEF Refilled, GoesBack
    <3>2. Taken <= Capacity * restarts + Rate * (now + regress)
      BY <2>1 DEF BucketInv
    <3>3. Capacity * (1 + restarts) = Capacity + Capacity * restarts
      BY <1>1
    <3>4. Taken \in Nat /\ Capacity * restarts \in Nat /\ Rate * (now + regress) \in Nat
      BY <1>1, ProductIsNat DEF Taken
    <3> QED
      BY <1>1, <3>1, <3>2, <3>3, <3>4
  <2>2. CASE bucket # Absent
    <3> DEFINE u == bucket.updated
               e == IF r < u THEN 0 ELSE r - u
    <3>1. bucket.tokens \in 0..Capacity /\ u \in Nat
      BY <2>2 DEF OutboundTypeOK, RateTypeOK
    <3>2. e \in Nat /\ Rate * e \in Nat
      BY <1>1, <3>1, ProductIsNat
    <3>3. T <= bucket.tokens + Rate * e
      BY <1>1, <2>2, <3>1, <3>2 DEF Refilled
    <3>4. r + regress + GoesBack(r) = (u + regress) + e
      BY <1>1, <2>2, <3>1 DEF GoesBack
    <3>5. Rate * ((u + regress) + e) = Rate * (u + regress) + Rate * e
      BY <1>1, <3>1, <3>2, Distributes
    <3>6. Taken + bucket.tokens <= Capacity * (1 + restarts) + Rate * (u + regress)
      BY <2>2 DEF BucketInv
    <3>7. Taken \in Nat /\ Capacity * (1 + restarts) \in Nat /\ Rate * (u + regress) \in Nat
      BY <1>1, <3>1, ProductIsNat DEF Taken
    <3> HIDE DEF u, e, T
    <3> QED
      BY <1>1, <1>2, <3>1, <3>2, <3>3, <3>4, <3>5, <3>6, <3>7
  <2> QED
    BY <2>1, <2>2
<1>7. Taken \in Nat /\ one * Token \in Nat
  BY <1>1, ProductIsNat DEF Taken
<1>8. Taken' + bucket'.tokens = Taken + T
  BY <1>1, <1>2, <1>3, <1>4, <1>7
<1>9. r + regress + GoesBack(r) = bucket'.updated + regress'
  BY <1>1, <1>2, <1>3
<1> QED
  BY <1>1, <1>3, <1>5, <1>6, <1>8, <1>9 DEF BucketInv

(* Time and restarts only add to the bound.                                *)
LEMMA BoundGrows ==
    ASSUME OutboundTypeOK, BucketInv,
           bucket' = bucket, used' = used, granted' = granted, regress' = regress,
           NEW d \in Nat, now' = now + d, NEW e \in Nat, restarts' = restarts + e
    PROVE  BucketInv'
<1>1. /\ now \in Nat /\ granted \in Nat /\ regress \in Nat /\ restarts \in Nat /\ used \in Nat
      /\ Token \in Nat /\ Rate \in Nat /\ Capacity \in Nat
  BY RateAssumption DEF OutboundTypeOK, RateTypeOK
<1>2. /\ Capacity * restarts' = Capacity * restarts + Capacity * e
      /\ Capacity * (1 + restarts') = Capacity * (1 + restarts) + Capacity * e
      /\ Rate * (now' + regress) = Rate * (now + regress) + Rate * d
      /\ Capacity * e \in Nat /\ Rate * d \in Nat
  <2>1. 1 + restarts' = (1 + restarts) + e /\ now' + regress = (now + regress) + d
    BY <1>1
  <2> QED
    BY <1>1, <2>1, Distributes, ProductIsNat
<1>3. /\ Capacity * restarts \in Nat /\ Capacity * (1 + restarts) \in Nat
      /\ Rate * (now + regress) \in Nat
      /\ Taken \in Nat /\ Taken' = Taken
  BY <1>1, ProductIsNat DEF Taken
<1>4. CASE bucket = Absent
  <2>1. Taken <= Capacity * restarts + Rate * (now + regress)
    BY <1>4 DEF BucketInv
  <2> QED
    BY <1>1, <1>2, <1>3, <1>4, <2>1 DEF BucketInv
<1>5. CASE bucket # Absent
  <2>1. /\ bucket.tokens \in Nat /\ bucket.updated \in Nat
        /\ Rate * (bucket.updated + regress) \in Nat
    BY <1>1, <1>5, ProductIsNat DEF OutboundTypeOK, RateTypeOK
  <2>2. Taken + bucket.tokens <= Capacity * (1 + restarts) + Rate * (bucket.updated + regress)
    BY <1>5 DEF BucketInv
  <2>3. Taken' + bucket'.tokens <= Capacity * (1 + restarts') + Rate * (bucket'.updated + regress')
    BY <1>1, <1>2, <1>3, <2>1, <2>2
  <2> QED
    BY <1>1, <1>5, <2>3 DEF BucketInv
<1> QED
  BY <1>4, <1>5

(* Dropping a bucket is paid for by a restart, or by Expiry ticks.         *)
LEMMA DropBucket ==
    ASSUME OutboundTypeOK, BucketInv, bucket' = Absent,
           used' = used, granted' = granted, regress' = regress, now' = now,
           \/ restarts' = restarts + 1
           \/ restarts' = restarts /\ bucket # Absent /\ now >= used + Expiry
    PROVE  BucketInv'
<1>1. /\ now \in Nat /\ granted \in Nat /\ regress \in Nat /\ restarts \in Nat /\ used \in Nat
      /\ Token \in Nat /\ Rate \in Nat /\ Capacity \in Nat /\ Expiry \in Nat
  BY RateAssumption DEF OutboundTypeOK, RateTypeOK
<1>2. /\ Capacity * restarts \in Nat /\ Rate * (now + regress) \in Nat /\ Taken \in Nat
      /\ Capacity * (1 + restarts) = Capacity * restarts + Capacity
      /\ Taken' = Taken
  BY <1>1, ProductIsNat DEF Taken
<1>3. Taken <= Capacity * restarts' + Rate * (now + regress)
  <2>1. CASE bucket = Absent
    BY <1>1, <1>2, <2>1 DEF BucketInv
  <2>2. CASE bucket # Absent
    <3> DEFINE u == bucket.updated
    <3>1. bucket.tokens \in Nat /\ u \in Nat /\ u <= used /\ used <= now
      BY <2>2 DEF OutboundTypeOK, RateTypeOK, BucketInv
    <3>2. Taken + bucket.tokens <= Capacity * (1 + restarts) + Rate * (u + regress)
      BY <2>2 DEF BucketInv
    <3>3. Rate * (u + regress) \in Nat
      BY <1>1, <3>1, ProductIsNat
    <3>4. CASE restarts' = restarts + 1
      <4>1. Rate * (u + regress) <= Rate * (now + regress)
        <5>1. u + regress \in Nat /\ now + regress \in Nat /\ u + regress <= now + regress
          BY <1>1, <3>1
        <5> QED
          BY <1>1, <5>1, ProductGrows
      <4>2. Capacity * restarts' = Capacity * (1 + restarts)
        BY <1>1, <3>4
      <4> QED
        BY <1>1, <1>2, <3>1, <3>2, <3>3, <4>1, <4>2
    <3>5. CASE restarts' = restarts /\ now >= used + Expiry
      <4>1. Rate * (u + regress + Expiry) <= Rate * (now + regress)
        <5>1. /\ u + regress + Expiry \in Nat /\ now + regress \in Nat
              /\ u + regress + Expiry <= now + regress
          BY <1>1, <3>1, <3>5
        <5> QED
          BY <1>1, <5>1, ProductGrows
      <4>2. Rate * (u + regress + Expiry) = Rate * (u + regress) + Rate * Expiry
        BY <1>1, <3>1, Distributes
      <4>3. Rate * Expiry \in Nat /\ Rate * Expiry >= Capacity
        BY <1>1, ProductIsNat, RateAssumption
      <4> HIDE DEF u
      <4> QED
        BY <1>1, <1>2, <3>1, <3>2, <3>3, <3>5, <4>1, <4>2, <4>3
    <3> QED
      BY <3>4, <3>5
  <2> QED
    BY <2>1, <2>2
<1> QED
  BY <1>1, <1>3 DEF BucketInv, Taken

(* Every step keeps the bound.                                             *)
LEMMA NextBucket ==
    ASSUME OutboundTypeOK, BucketInv, [OutboundNext]_outboundVars
    PROVE  BucketInv'
<1>0. /\ now \in Nat /\ restarts \in Nat
      /\ now = now + 0 /\ restarts = restarts + 0
  BY RateAssumption DEF OutboundTypeOK, RateTypeOK
<1>1. ASSUME UNCHANGED <<bucket, used, granted, regress, now, restarts>> PROVE BucketInv'
  <2>1. /\ bucket' = bucket /\ used' = used /\ granted' = granted /\ regress' = regress
        /\ now' = now + 0 /\ restarts' = restarts + 0
    BY <1>0, <1>1
  <2> QED
    BY <2>1, BoundGrows
<1>2. ASSUME NEW t \in Tasks, Goes(t) PROVE BucketInv'
  <2>1. ASSUME NEW heard \in BOOLEAN, Execute(t, heard) PROVE BucketInv'
    BY <2>1, ExecuteBucket
  <2>2. CASE Unavailable(t) \/ NoScript(t)
    BY <1>1, <2>2 DEF Unavailable, NoScript
  <2>3. CASE Admitted(t)
    BY <1>1, <2>3 DEF Admitted, rateVars
  <2>4. CASE Refused(t)
    BY <1>1, <2>4 DEF Refused, Leaves
  <2>5. CASE PostsAgain(t)
    BY <1>1, <2>5 DEF PostsAgain, rateVars
  <2>6. ASSUME CallEnds(t) PROVE BucketInv'
    BY <1>1, <2>6 DEF CallEnds, Leaves
  <2>7. CASE NoResponse(t)
    BY <2>5, <2>6, <2>7 DEF NoResponse
  <2>8. ASSUME NEW down \in BOOLEAN, Response(t, down) PROVE BucketInv'
    BY <2>5, <2>6, <2>8 DEF Response
  <2> QED
    BY <1>2, <2>1, <2>2, <2>3, <2>4, <2>7, <2>8 DEF Goes, RedisAnswers, Answered
<1>3. ASSUME NEW t \in Tasks, NEW lag \in 0..MaxSkew, Begin(t, lag) PROVE BucketInv'
  BY <1>1, <1>3 DEF Begin, BeginAcquire
<1>4. ASSUME NEW keeps \in BOOLEAN, RedisRestarts(keeps) PROVE BucketInv'
  <2>1. /\ used' = used /\ granted' = granted /\ regress' = regress /\ now' = now
        /\ restarts' = restarts + 1
    BY <1>4 DEF RedisRestarts
  <2>2. CASE bucket' = Absent
    BY <2>1, <2>2, DropBucket
  <2>3. CASE bucket' = bucket
    <3>1. now' = now + 0
      BY <1>0, <2>1
    <3> QED
      BY <2>1, <2>3, <3>1, BoundGrows
  <2> QED
    BY <1>4, <2>2, <2>3 DEF RedisRestarts
<1>5. CASE BucketExpires
  BY <1>5, DropBucket DEF BucketExpires
<1>6. CASE TimePasses
  <2>1. /\ bucket' = bucket /\ used' = used /\ granted' = granted /\ regress' = regress
        /\ now' = now + 1 /\ restarts' = restarts + 0
    BY <1>0, <1>6 DEF TimePasses, Tick, Passes
  <2> QED
    BY <2>1, BoundGrows
<1>7. CASE UNCHANGED outboundVars
  BY <1>1, <1>7 DEF outboundVars, rateVars
<1> QED
  BY <1>2, <1>3, <1>4, <1>5, <1>6, <1>7 DEF OutboundNext, RedisStep

-----------------------------------------------------------------------------
(* The permissions.                                                        *)
LEMMA PendingFinite == IsFiniteSet(Pending) /\ Cardinality(Pending) \in Nat
<1>1. IsFiniteSet(Pending)
  BY RateAssumption, FS_Subset DEF Pending
<1> QED
  BY <1>1, FS_CardinalityType

LEMMA InitCount == OutboundInit => CountInv
<1> SUFFICES ASSUME OutboundInit PROVE CountInv
  OBVIOUS
<1>1. Pending = {}
  BY DEF Pending, OutboundInit, RateInit
<1>2. Cardinality(Pending) = 0
  BY <1>1, FS_EmptySet
<1> QED
  BY <1>2 DEF CountInv, OutboundInit, RateInit

(* A permission more, or one less, is one task more or less that holds one.*)
LEMMA Granting ==
    ASSUME OutboundTypeOK, CountInv, NEW t \in Tasks, phase[t] = "acquiring",
           NEW how \in {"granted", "limited", "raised"}, phase' = [phase EXCEPT ![t] = how],
           attempt' = attempt, deliveries' = deliveries,
           \/ how = "granted" /\ granted' = granted + 1 /\ free' = free
           \/ how = "granted" /\ granted' = granted /\ free' = free + 1
           \/ how # "granted" /\ granted' = granted /\ free' = free
    PROVE  CountInv'
<1>0. /\ granted \in Nat /\ free \in Nat /\ deliveries \in Nat
      /\ phase \in [Tasks -> {"idle", "acquiring", "granted", "limited", "raised"}]
      /\ attempt \in [Tasks -> 0..MaxRetries]
  BY DEF OutboundTypeOK, RateTypeOK
<1>1. attempt[t] = 0
  BY <1>0, OutboundAssumption DEF CountInv
<1>2. \A q \in Tasks : attempt'[q] > 0 => phase'[q] = "granted"
  BY <1>0, <1>1 DEF CountInv
<1>3. CASE how = "granted"
  <2>1. Pending' = Pending \union {t} /\ t \notin Pending
    BY <1>0, <1>1, <1>3 DEF Pending
  <2>2. Cardinality(Pending') = Cardinality(Pending) + 1
    BY <2>1, PendingFinite, FS_AddElement
  <2>3. Cardinality(Pending) \in Nat
    BY PendingFinite
  <2> QED
    BY <1>0, <1>2, <1>3, <2>2, <2>3 DEF CountInv
<1>4. CASE how # "granted"
  <2>1. Pending' = Pending
    BY <1>0, <1>4 DEF Pending
  <2>2. Cardinality(Pending) \in Nat
    BY PendingFinite
  <2> QED
    BY <1>0, <1>2, <1>4, <2>1, <2>2 DEF CountInv
<1> QED
  BY <1>3, <1>4

LEMMA Using ==
    ASSUME OutboundTypeOK, CountInv, NEW t \in Tasks, t \in Pending,
           \/ phase' = phase /\ attempt' = [attempt EXCEPT ![t] = 1] /\ deliveries' = deliveries + 1
           \/ /\ phase' = [phase EXCEPT ![t] = "idle"] /\ attempt' = attempt
              /\ deliveries' = deliveries,
           granted' = granted, free' = free
    PROVE  CountInv'
<1>0. /\ granted \in Nat /\ free \in Nat /\ deliveries \in Nat
      /\ phase \in [Tasks -> {"idle", "acquiring", "granted", "limited", "raised"}]
      /\ attempt \in [Tasks -> 0..MaxRetries]
  BY DEF OutboundTypeOK, RateTypeOK
<1>1. phase[t] = "granted" /\ attempt[t] = 0
  BY DEF Pending
<1>2. \A q \in Tasks : attempt'[q] > 0 => phase'[q] = "granted"
  BY <1>0, <1>1 DEF CountInv
<1>3. Pending' = Pending \ {t}
  BY <1>0, <1>1 DEF Pending
<1>4. Cardinality(Pending') = Cardinality(Pending) - 1
  BY <1>3, PendingFinite, FS_RemoveElement
<1>5. Cardinality(Pending) \in Nat /\ deliveries' \in {deliveries, deliveries + 1}
  BY PendingFinite
<1> QED
  BY <1>0, <1>2, <1>4, <1>5 DEF CountInv

(* The steps that neither give nor use a permission.                       *)
LEMMA Keeping ==
    ASSUME OutboundTypeOK, CountInv, Pending' = Pending,
           granted' = granted, free' = free, deliveries' = deliveries,
           \A t \in Tasks : attempt'[t] > 0 => phase'[t] = "granted"
    PROVE  CountInv'
  BY DEF CountInv

LEMMA NextCount ==
    ASSUME OutboundTypeOK, CountInv, [OutboundNext]_outboundVars
    PROVE  CountInv'
<1>0. /\ granted \in Nat /\ free \in Nat
      /\ phase \in [Tasks -> {"idle", "acquiring", "granted", "limited", "raised"}]
      /\ attempt \in [Tasks -> 0..MaxRetries]
      /\ \A t \in Tasks : attempt[t] > 0 => phase[t] = "granted"
  BY DEF OutboundTypeOK, RateTypeOK, CountInv
<1>1. ASSUME UNCHANGED <<granted, free, deliveries, phase, attempt>> PROVE CountInv'
  <2>1. Pending' = Pending /\ \A t \in Tasks : attempt'[t] > 0 => phase'[t] = "granted"
    BY <1>0, <1>1 DEF Pending
  <2> QED
    BY <1>1, <2>1, Keeping
<1>2. ASSUME NEW t \in Tasks, Goes(t) PROVE CountInv'
  <2>1. ASSUME NEW heard \in BOOLEAN, Execute(t, heard), UNCHANGED sendVars PROVE CountInv'
    <3>1. CASE Refilled(reading[t]) >= Token
      <4>1. /\ phase[t] = "acquiring" /\ phase' = [phase EXCEPT ![t] = "granted"]
            /\ attempt' = attempt /\ deliveries' = deliveries
            /\ granted' = granted + 1 /\ free' = free
        BY <2>1, <3>1 DEF Execute, Settle, sendVars
      <4> QED
        BY <4>1, Granting
    <3>2. CASE ~(Refilled(reading[t]) >= Token) /\ heard
      <4>1. /\ phase[t] = "acquiring" /\ phase' = [phase EXCEPT ![t] = "limited"]
            /\ attempt' = attempt /\ deliveries' = deliveries
            /\ granted' = granted /\ free' = free
        BY <2>1, <3>2 DEF Execute, Settle, sendVars
      <4> QED
        BY <4>1, Granting
    <3>3. CASE ~(Refilled(reading[t]) >= Token) /\ ~heard
      <4>1. /\ phase[t] = "acquiring" /\ phase' = [phase EXCEPT ![t] = "granted"]
            /\ attempt' = attempt /\ deliveries' = deliveries
            /\ granted' = granted /\ free' = free + 1
        BY <2>1, <3>3 DEF Execute, Settle, sendVars
      <4> QED
        BY <4>1, Granting
    <3> QED
      BY <3>1, <3>2, <3>3
  <2>2. CASE Unavailable(t) /\ UNCHANGED sendVars
    <3>1. /\ phase[t] = "acquiring" /\ phase' = [phase EXCEPT ![t] = "granted"]
          /\ attempt' = attempt /\ deliveries' = deliveries
          /\ granted' = granted /\ free' = free + 1
      BY <2>2 DEF Unavailable, Settle, sendVars
    <3> QED
      BY <3>1, Granting
  <2>3. CASE NoScript(t) /\ UNCHANGED sendVars
    <3>1. /\ phase[t] = "acquiring" /\ phase' = [phase EXCEPT ![t] = "raised"]
          /\ attempt' = attempt /\ deliveries' = deliveries
          /\ granted' = granted /\ free' = free
      BY <2>3 DEF NoScript, Settle, sendVars
    <3> QED
      BY <3>1, Granting
  <2>4. CASE Admitted(t)
    <3>1. /\ t \in Pending /\ phase' = phase /\ attempt' = [attempt EXCEPT ![t] = 1]
          /\ deliveries' = deliveries + 1 /\ granted' = granted /\ free' = free
      BY <2>4 DEF Admitted, Pending, rateVars
    <3> QED
      BY <3>1, Using
  <2>5. CASE Refused(t)
    <3>1. /\ t \in Pending /\ phase' = [phase EXCEPT ![t] = "idle"] /\ attempt' = attempt
          /\ deliveries' = deliveries /\ granted' = granted /\ free' = free
      BY <2>5 DEF Refused, Pending, Leaves
    <3> QED
      BY <3>1, Using
  <2>6. ASSUME PostsAgain(t), phase[t] = "granted", attempt[t] > 0 PROVE CountInv'
    <3>1. /\ attempt' = [attempt EXCEPT ![t] = @ + 1] /\ phase' = phase
          /\ deliveries' = deliveries /\ granted' = granted /\ free' = free
      BY <2>6 DEF PostsAgain, rateVars
    <3>2. Pending' = Pending /\ \A q \in Tasks : attempt'[q] > 0 => phase'[q] = "granted"
      BY <1>0, <2>6, <3>1 DEF Pending
    <3> QED
      BY <3>1, <3>2, Keeping
  <2>7. ASSUME CallEnds(t), attempt[t] > 0 PROVE CountInv'
    <3>1. /\ phase' = [phase EXCEPT ![t] = "idle"] /\ granted' = granted /\ free' = free
          /\ attempt' = [attempt EXCEPT ![t] = 0] /\ deliveries' = deliveries
      BY <2>7 DEF CallEnds, Leaves
    <3>2. Pending' = Pending /\ \A q \in Tasks : attempt'[q] > 0 => phase'[q] = "granted"
      BY <1>0, <2>7, <3>1 DEF Pending
    <3> QED
      BY <2>7, <3>1, <3>2, Keeping
  <2>8. CASE NoResponse(t)
    BY <2>6, <2>7, <2>8 DEF NoResponse
  <2>9. ASSUME NEW down \in BOOLEAN, Response(t, down) PROVE CountInv'
    BY <2>6, <2>7, <2>9 DEF Response
  <2> QED
    BY <1>2, <2>1, <2>2, <2>3, <2>4, <2>5, <2>8, <2>9 DEF Goes, RedisAnswers, Answered
<1>3. ASSUME NEW t \in Tasks, NEW lag \in 0..MaxSkew, Begin(t, lag) PROVE CountInv'
  <2>1. /\ phase[t] # "granted" /\ phase' = [phase EXCEPT ![t] = "acquiring"]
        /\ attempt' = attempt /\ attempt[t] = 0
        /\ deliveries' = deliveries /\ granted' = granted /\ free' = free
    BY <1>3 DEF Begin, BeginAcquire
  <2>2. Pending' = Pending /\ \A q \in Tasks : attempt'[q] > 0 => phase'[q] = "granted"
    BY <1>0, <2>1 DEF Pending
  <2> QED
    BY <2>1, <2>2, Keeping
<1>4. CASE RedisStep /\ UNCHANGED sendVars
  BY <1>1, <1>4 DEF RedisStep, RedisRestarts, BucketExpires, sendVars
<1>5. CASE TimePasses
  BY <1>1, <1>5 DEF TimePasses, Tick
<1>6. CASE UNCHANGED outboundVars
  BY <1>1, <1>6 DEF outboundVars, rateVars, sendVars
<1> QED
  BY <1>2, <1>3, <1>4, <1>5, <1>6 DEF OutboundNext

-----------------------------------------------------------------------------
LEMMA InitOutboundInv == OutboundInit => OutboundInv
  BY InitType, InitBucket, InitCount DEF OutboundInv

LEMMA NextOutboundInv == OutboundInv /\ [OutboundNext]_outboundVars => OutboundInv'
  BY NextType, NextBucket, NextCount DEF OutboundInv

(* The variables of the limiter, the breaker and the deliveries keep their *)
(* ranges: no delivery makes more than MaxRetries attempts, the bucket     *)
(* never holds less than nothing or more than Capacity.                    *)
THEOREM OutboundTypeCorrect == OutboundSpec => []OutboundTypeOK
<1>1. OutboundInv => OutboundTypeOK
  BY DEF OutboundInv
<1> QED
  BY InitOutboundInv, NextOutboundInv, <1>1, PTL DEF OutboundSpec

(* Whatever the instances' clocks say and in whatever order their readings *)
(* reach the script, the deliveries stay within the bucket's budget and    *)
(* the acquires Redis did not answer (rate_limiter.py's Lua script).       *)
THEOREM OutboundLoadBounded == OutboundSpec => []WorkspaceLoadBounded
<1>1. OutboundInv => WorkspaceLoadBounded
  <2> SUFFICES ASSUME OutboundInv PROVE WorkspaceLoadBounded
    OBVIOUS
  <2>1. /\ now \in Nat /\ granted \in Nat /\ free \in Nat /\ regress \in Nat
        /\ restarts \in Nat /\ used \in Nat /\ deliveries \in Nat
        /\ Token \in Nat /\ Rate \in Nat /\ Capacity \in Nat
    BY RateAssumption DEF OutboundInv, OutboundTypeOK, RateTypeOK
  <2>2. deliveries <= granted + free
    <3>1. Cardinality(Pending) \in Nat /\ deliveries + Cardinality(Pending) <= granted + free
      BY PendingFinite DEF OutboundInv, CountInv
    <3> QED
      BY <2>1, <3>1
  <2>3. deliveries * Token <= granted * Token + Token * free
    <3>1. Token * deliveries <= Token * (granted + free)
      <4>1. granted + free \in Nat
        BY <2>1
      <4> QED
        BY <2>1, <2>2, <4>1, ProductGrows
    <3>2. Token * (granted + free) = Token * granted + Token * free
      BY <2>1, Distributes
    <3> QED
      BY <2>1, <3>1, <3>2
  <2>4. Taken \in Nat /\ Capacity * restarts \in Nat /\ Rate * (now + regress) \in Nat
    BY <2>1, ProductIsNat DEF Taken
  <2>5. Capacity * (1 + restarts) = Capacity + Capacity * restarts
    BY <2>1
  <2>6. Taken <= Capacity * (1 + restarts) + Rate * (now + regress)
    <3>1. CASE bucket = Absent
      BY <2>1, <2>4, <2>5, <3>1 DEF OutboundInv, BucketInv
    <3>2. CASE bucket # Absent
      <4> DEFINE u == bucket.updated
      <4>1. bucket.tokens \in Nat /\ u \in Nat /\ u <= now
        BY <2>1, <3>2 DEF OutboundInv, OutboundTypeOK, RateTypeOK, BucketInv
      <4>2. Taken + bucket.tokens <= Capacity * (1 + restarts) + Rate * (u + regress)
        BY <3>2 DEF OutboundInv, BucketInv
      <4>3. Rate * (u + regress) \in Nat /\ Rate * (u + regress) <= Rate * (now + regress)
        <5>1. u + regress \in Nat /\ now + regress \in Nat /\ u + regress <= now + regress
          BY <2>1, <4>1
        <5> QED
          BY <2>1, <5>1, ProductGrows, ProductIsNat
      <4> HIDE DEF u
      <4> QED
        BY <2>4, <2>5, <2>1, <4>1, <4>2, <4>3
    <3> QED
      BY <3>1, <3>2
  <2>7. Taken = granted * Token /\ Token * free \in Nat /\ deliveries * Token \in Nat
    BY <2>1, ProductIsNat DEF Taken
  <2> QED
    BY <2>1, <2>3, <2>4, <2>5, <2>6, <2>7 DEF WorkspaceLoadBounded, Budget
<1> QED
  BY InitOutboundInv, NextOutboundInv, <1>1, PTL DEF OutboundSpec

-----------------------------------------------------------------------------
(* What the attempts of a task are to the breaker of its own process, and  *)
(* to any other.                                                           *)
LEMMA OneCallLess ==
    ASSUME OutboundTypeOK, NEW t \in Tasks, NEW i \in Instances,
           attempt[t] > 0, attempt' = [attempt EXCEPT ![t] = 0]
    PROVE  /\ Home[t] = i => t \in InCall(i) /\ InCall(i)' = InCall(i) \ {t}
           /\ Home[t] # i => InCall(i)' = InCall(i)
  BY DEF OutboundTypeOK, InCall, TasksOf

LEMMA SameCalls ==
    ASSUME OutboundTypeOK, NEW t \in Tasks, NEW i \in Instances,
           attempt[t] > 0, attempt' = [attempt EXCEPT ![t] = @ + 1]
    PROVE  InCall(i)' = InCall(i)
  BY DEF OutboundTypeOK, InCall, TasksOf

LEMMA OneCallMore ==
    ASSUME OutboundTypeOK, NEW t \in Tasks, NEW i \in Instances,
           attempt[t] = 0, attempt' = [attempt EXCEPT ![t] = 1]
    PROVE  /\ Home[t] = i => /\ t \in TasksOf(i) /\ t \notin InCall(i)
                             /\ InCall(i)' = InCall(i) \union {t}
           /\ Home[t] # i => InCall(i)' = InCall(i)
  BY DEF OutboundTypeOK, InCall, TasksOf

(* Every step is, to the breaker of every process, one of its operations.  *)
LEMMA CircuitSteps ==
    ASSUME OutboundTypeOK, [OutboundNext]_outboundVars, NEW i \in Instances
    PROVE  CallOf(i) \/ UNCHANGED <<circuit[i], InCall(i)>>
<1>0. /\ circuit \in [Instances -> CircuitType] /\ OutboundAssumption
      /\ \A t \in Tasks : Home[t] \in Instances
  BY RateAssumption, OutboundAssumption DEF OutboundTypeOK, CircuitType
<1>1. ASSUME UNCHANGED <<circuit, attempt>> PROVE UNCHANGED <<circuit[i], InCall(i)>>
  BY <1>1 DEF InCall, TasksOf
<1>2. ASSUME NEW t \in Tasks, attempt[t] > 0, attempt' = [attempt EXCEPT ![t] = 0],
             \/ circuit' = [circuit EXCEPT ![Home[t]] = AfterSuccess(@)]
             \/ circuit' = [circuit EXCEPT ![Home[t]] = AfterFailure(@)]
      PROVE  CallOf(i) \/ UNCHANGED <<circuit[i], InCall(i)>>
  <2>1. CASE Home[t] = i
    <3>1. t \in InCall(i) /\ InCall(i)' = InCall(i) \ {t}
      BY <1>2, <2>1, OneCallLess
    <3>2. circuit'[i] = AfterSuccess(circuit[i]) \/ circuit'[i] = AfterFailure(circuit[i])
      BY <1>0, <1>2, <2>1
    <3>3. circuit[i] \in CircuitType
      BY <1>0
    <3>4. CASE circuit'[i] = AfterSuccess(circuit[i])
      <4>1. Breaker(i)!OnSuccess
        BY <3>3, <3>4
           DEF CircuitType, AfterSuccess, Breaker!OnSuccess, Breaker!HALF_OPEN, Breaker!CLOSED
      <4> QED
        BY <3>1, <4>1 DEF CallOf
    <3>5. CASE circuit'[i] = AfterFailure(circuit[i])
      <4>1. Breaker(i)!OnFailure
        BY <3>3, <3>5 DEF CircuitType, AfterFailure, Breaker!OnFailure, Breaker!OPEN
      <4> QED
        BY <3>1, <4>1 DEF CallOf
    <3> QED
      BY <3>2, <3>4, <3>5
  <2>2. CASE Home[t] # i
    BY <1>0, <1>2, <2>2, OneCallLess
  <2> QED
    BY <2>1, <2>2
<1>3. ASSUME NEW t \in Tasks, PostsAgain(t), attempt[t] > 0
      PROVE  UNCHANGED <<circuit[i], InCall(i)>>
  BY <1>3, SameCalls DEF PostsAgain
<1>4. ASSUME NEW t \in Tasks, Admitted(t)
      PROVE  CallOf(i) \/ UNCHANGED <<circuit[i], InCall(i)>>
  <2>1. CASE Home[t] = i
    <3>1. t \in TasksOf(i) /\ t \notin InCall(i) /\ InCall(i)' = InCall(i) \union {t}
      BY <1>4, <2>1, OneCallMore DEF Admitted
    <3>2. /\ circuit'[i] = AfterAdmission(circuit[i])
          /\ circuit[i].state = "open" => Elapsed(circuit[i])
      BY <1>0, <1>4, <2>1 DEF Admitted
    <3>3. Breaker(i)!Admit(t)
      BY <1>0, <3>1, <3>2
         DEF CircuitType, AfterAdmission, Elapsed, Breaker!Admit, Breaker!WindowElapsed,
             Breaker!HALF_OPEN, Breaker!OPEN
    <3> QED
      BY <3>1, <3>3 DEF CallOf
  <2>2. CASE Home[t] # i
    BY <1>0, <1>4, <2>2, OneCallMore DEF Admitted
  <2> QED
    BY <2>1, <2>2
<1>5. CASE TimePasses
  <2>1. circuit'[i] = Aged(circuit[i]) /\ InCall(i)' = InCall(i)
    BY <1>5 DEF TimePasses, InCall, TasksOf
  <2>2. CASE circuit[i].state = "open" /\ circuit[i].age < ResetTimeout
    <3>1. Breaker(i)!Tick
      BY <1>0, <2>1, <2>2 DEF CircuitType, Aged, Breaker!Tick, Breaker!OPEN
    <3> QED
      BY <3>1 DEF CallOf
  <2>3. CASE ~(circuit[i].state = "open" /\ circuit[i].age < ResetTimeout)
    BY <2>1, <2>3 DEF Aged
  <2> QED
    BY <2>2, <2>3
<1>6. ASSUME NEW t \in Tasks, Goes(t)
      PROVE  CallOf(i) \/ UNCHANGED <<circuit[i], InCall(i)>>
  <2>1. CASE RedisAnswers(t) \/ Refused(t)
    BY <1>1, <2>1 DEF RedisAnswers, Refused, sendVars
  <2>2. CASE NoResponse(t)
    <3>1. CASE attempt[t] < MaxRetries
      BY <1>3, <2>2, <3>1 DEF NoResponse
    <3>2. CASE ~(attempt[t] < MaxRetries)
      BY <1>2, <2>2, <3>2 DEF NoResponse, CallEnds
    <3> QED
      BY <3>1, <3>2
  <2>3. ASSUME NEW down \in BOOLEAN, Response(t, down)
        PROVE  CallOf(i) \/ UNCHANGED <<circuit[i], InCall(i)>>
    <3>1. CASE down /\ attempt[t] < MaxRetries
      BY <1>3, <2>3, <3>1 DEF Response
    <3>2. CASE ~(down /\ attempt[t] < MaxRetries)
      BY <1>2, <2>3, <3>2 DEF Response, CallEnds
    <3> QED
      BY <3>1, <3>2
  <2> QED
    BY <1>4, <1>6, <2>1, <2>2, <2>3 DEF Goes
<1>7. CASE \E t \in Tasks, lag \in 0..MaxSkew : Begin(t, lag)
  BY <1>1, <1>7 DEF Begin
<1>8. CASE RedisStep /\ UNCHANGED sendVars
  BY <1>1, <1>8 DEF sendVars
<1>9. CASE UNCHANGED outboundVars
  BY <1>1, <1>9 DEF outboundVars, sendVars
<1> QED
  BY <1>5, <1>6, <1>7, <1>8, <1>9 DEF OutboundNext

(* The breaker of every process sees every delivery as one call, in any    *)
(* number of processes and tasks, for any number of attempts: one          *)
(* admission, one result, nothing else (workspace_client.py's deliver()    *)
(* through http.py's CircuitBreaker).                                      *)
THEOREM OutboundUsesBreaker == OutboundSpec => UsesBreaker
<1>1. ASSUME OutboundTypeOK, [OutboundNext]_outboundVars
      PROVE  [\A i \in Instances : [CallOf(i)]_<<circuit[i], InCall(i)>>]_<<circuit, attempt>>
  BY <1>1, CircuitSteps
<1> QED
  BY <1>1, OutboundTypeCorrect, PTL DEF OutboundSpec, UsesBreaker

(* In every process the breaker keeps its promise: while its circuit stays *)
(* open the deliveries in flight only drain, and no late answer closes it. *)
THEOREM OutboundCircuitHolds ==
    OutboundSpec =>
        [][\A i \in Instances : circuit[i].state = "open" =>
             /\ circuit'[i].state # "closed"
             /\ circuit'[i].state = "open" => InCall(i)' \subseteq InCall(i)]_outboundVars
<1>1. ASSUME OutboundTypeOK, [OutboundNext]_outboundVars,
             NEW i \in Instances, circuit[i].state = "open"
      PROVE  /\ circuit'[i].state # "closed"
             /\ circuit'[i].state = "open" => InCall(i)' \subseteq InCall(i)
  <2>1. CallOf(i) \/ UNCHANGED <<circuit[i], InCall(i)>>
    BY <1>1, CircuitSteps
  <2>2. CASE UNCHANGED <<circuit[i], InCall(i)>>
    BY <1>1, <2>2
  <2>3. ASSUME NEW t \in TasksOf(i), Breaker(i)!Admit(t)
        PROVE  circuit'[i].state = "half_open"
    BY <1>1, <2>3 DEF Breaker!Admit, Breaker!OPEN, Breaker!HALF_OPEN
  <2>4. ASSUME NEW t \in InCall(i), Breaker(i)!OnSuccess \/ Breaker(i)!OnFailure,
               InCall(i)' = InCall(i) \ {t}
        PROVE  circuit'[i].state = "open" /\ InCall(i)' \subseteq InCall(i)
    BY <1>1, <2>4
       DEF Breaker!OnSuccess, Breaker!OnFailure, Breaker!OPEN, Breaker!HALF_OPEN, Breaker!CLOSED
  <2>5. CASE Breaker(i)!Tick
    BY <1>1, <2>5 DEF Breaker!Tick
  <2> QED
    BY <2>1, <2>2, <2>3, <2>4, <2>5 DEF CallOf
<1>2. ASSUME OutboundTypeOK, [OutboundNext]_outboundVars
      PROVE  [\A i \in Instances : circuit[i].state = "open" =>
               /\ circuit'[i].state # "closed"
               /\ circuit'[i].state = "open" => InCall(i)' \subseteq InCall(i)]_outboundVars
  BY <1>1, <1>2
<1> QED
  BY <1>2, OutboundTypeCorrect, PTL DEF OutboundSpec
=============================================================================
