----------------------------- MODULE RateLimiter -----------------------------
(***************************************************************************)
(* The token bucket of one destination                                     *)
(* (whatsapp_adapter/app/core/rate_limiter.py): acquires of several        *)
(* adapter instances, the Lua script Redis runs for each of them, and      *)
(* Redis itself.                                                           *)
(*                                                                         *)
(* The instance reads its own clock before the request travels to Redis,   *)
(* so readings arrive out of order and with the instances' skew; `now` is  *)
(* the clock that is ahead of the others.  Tokens are counted in units of  *)
(* which a token has Token and a tick refills Rate.                        *)
(***************************************************************************)
EXTENDS Integers, FiniteSets

CONSTANTS Tasks,       \* request handlers and retry workers, one acquire each at a time
          Instances,   \* the adapter processes
          Home,        \* the process each task runs in
          Capacity,    \* of the bucket, in units
          Token, Rate,
          Expiry,      \* ticks without use after which Redis drops the bucket
          MaxSkew,     \* how far an instance's clock may lag
          MaxTime, MaxAcquires, MaxRestarts,   \* bounds of the model
          None

ASSUME RateAssumption ==
    /\ Token \in Nat \ {0} /\ Rate \in Nat /\ Capacity \in Nat /\ Expiry \in Nat
    /\ Rate * Expiry >= Capacity     \* 0.5/s for an hour against 5
    /\ IsFiniteSet(Tasks) /\ Home \in [Tasks -> Instances]
    /\ MaxSkew \in Nat /\ MaxTime \in Nat /\ MaxAcquires \in Nat /\ MaxRestarts \in Nat
    /\ None \notin Nat

VARIABLES bucket,    \* tokens and stamp of the bucket
          used,      \* when the bucket was last written, by Redis's clock
          script,    \* does Redis know the script?
          cached,    \* the instances that hold its digest
          phase,     \* what became of each task's acquire
          reading,   \* the clock reading a request carries
          now,
          granted,   \* history: tokens taken
          free,      \* history: acquires allowed without a token
          regress,   \* history: how far stamps went back, in all
          restarts,  \* history: restarts of Redis that lost the bucket
          acquires   \* bound: acquires begun

rateVars == <<bucket, used, script, cached, phase, reading, now,
              granted, free, regress, restarts, acquires>>

Absent == [tokens |-> None, updated |-> None]

RateInit == /\ bucket = Absent /\ used = 0
            /\ script = FALSE /\ cached = {}
            /\ phase = [t \in Tasks |-> "idle"]
            /\ reading = [t \in Tasks |-> None]
            /\ now = 0
            /\ granted = 0 /\ free = 0 /\ regress = 0 /\ restarts = 0 /\ acquires = 0

-----------------------------------------------------------------------------
(* Faulty variant: the time before the stamp is refilled again.            *)
RefillFromStart(r) ==
    LET full == bucket.tokens + Rate * r
    IN  IF bucket = Absent \/ full > Capacity THEN Capacity ELSE full

(* What the bucket holds at the time of the reading: a reading behind the  *)
(* stamp refills nothing.                                                  *)
Refilled(r) ==
    LET elapsed == IF r < bucket.updated THEN 0 ELSE r - bucket.updated
        full == bucket.tokens + Rate * elapsed
    IN  IF bucket = Absent \/ full > Capacity THEN Capacity ELSE full

(* How far the stamp goes back when the script writes the reading; a       *)
(* missing bucket is stamped with the reading, however late.               *)
GoesBack(r) ==
    IF bucket = Absent THEN now - r
    ELSE IF r < bucket.updated THEN bucket.updated - r ELSE 0

(* acquire() up to evalsha(): the script is loaded once per instance.      *)
BeginAcquire(t, lag) ==
    /\ phase[t] # "acquiring" /\ acquires < MaxAcquires
    /\ lag <= now
    /\ script' = (script \/ Home[t] \notin cached)
    /\ cached' = cached \union {Home[t]}
    /\ phase' = [phase EXCEPT ![t] = "acquiring"]
    /\ reading' = [reading EXCEPT ![t] = now - lag]
    /\ acquires' = acquires + 1
    /\ UNCHANGED <<bucket, used, now, granted, free, regress, restarts>>

Settle(t, outcome) ==
    /\ phase' = [phase EXCEPT ![t] = outcome]
    /\ reading' = [reading EXCEPT ![t] = None]

(* The script runs; a response that does not arrive counts as a yes.       *)
Execute(t, heard) ==
    LET tokens == Refilled(reading[t])
        taken == tokens >= Token
    IN  /\ phase[t] = "acquiring" /\ script
        /\ bucket' = [tokens |-> IF taken THEN tokens - Token ELSE tokens,
                      updated |-> reading[t]]
        /\ used' = now
        /\ granted' = IF taken THEN granted + 1 ELSE granted
        /\ free' = IF ~taken /\ ~heard THEN free + 1 ELSE free
        /\ regress' = regress + GoesBack(reading[t])
        /\ Settle(t, IF taken \/ ~heard THEN "granted" ELSE "limited")
        /\ UNCHANGED <<script, cached, now, restarts, acquires>>

(* Redis cannot be reached: fail open.                                     *)
Unavailable(t) ==
    /\ phase[t] = "acquiring"
    /\ free' = free + 1
    /\ Settle(t, "granted")
    /\ UNCHANGED <<bucket, used, script, cached, now, granted, regress, restarts, acquires>>

(* Redis does not know the script.  The error's text is without the code   *)
(* the handler looks for, so it raises, and so will every later acquire of *)
(* this instance.                                                          *)
NoScript(t) ==
    /\ phase[t] = "acquiring" /\ ~script
    /\ Settle(t, "raised")
    /\ UNCHANGED <<bucket, used, script, cached, now, granted, free, regress, restarts, acquires>>

-----------------------------------------------------------------------------
(* Redis: a restart forgets the scripts and perhaps the data; a bucket     *)
(* nobody used for Expiry is dropped.                                      *)
RedisRestarts(keepsData) ==
    /\ restarts < MaxRestarts
    /\ script' = FALSE
    /\ bucket' = IF keepsData THEN bucket ELSE Absent
    /\ restarts' = restarts + 1
    /\ UNCHANGED <<used, cached, phase, reading, now, granted, free, regress, acquires>>

BucketExpires ==
    /\ bucket # Absent /\ now >= used + Expiry
    /\ bucket' = Absent
    /\ UNCHANGED <<used, script, cached, phase, reading, now, granted, free, regress, restarts, acquires>>

Passes == now < MaxTime /\ now' = now + 1
Tick == /\ Passes
        /\ UNCHANGED <<bucket, used, script, cached, phase, reading, granted, free, regress, restarts, acquires>>

Answered(t) == NoScript(t) \/ Unavailable(t) \/ \E heard \in BOOLEAN : Execute(t, heard)
RedisStep == BucketExpires \/ \E keeps \in BOOLEAN : RedisRestarts(keeps)

-----------------------------------------------------------------------------
RateTypeOK ==
    /\ bucket \in [tokens : 0..Capacity, updated : 0..MaxTime] \union {Absent}
    /\ used \in 0..MaxTime /\ now \in 0..MaxTime
    /\ script \in BOOLEAN /\ cached \subseteq Instances
    /\ phase \in [Tasks -> {"idle", "acquiring", "granted", "limited", "raised"}]
    /\ reading \in [Tasks -> (0..MaxTime) \union {None}]
    /\ \A t \in Tasks : phase[t] = "acquiring" => reading[t] \in 0..now
    /\ granted \in Nat /\ free \in Nat /\ regress \in Nat
    /\ restarts \in 0..MaxRestarts /\ acquires \in 0..MaxAcquires

(* What all instances together may take since the start: a full bucket,    *)
(* once more for every restart of Redis, what the time refilled, and again *)
(* the time by which readings arrived behind the stamp.                    *)
Budget == Capacity * (1 + restarts) + Rate * (now + regress)
=============================================================================
