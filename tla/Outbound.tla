------------------------------- MODULE Outbound -------------------------------
(***************************************************************************)
(* The way of one message out of the WhatsApp adapter: the rate limiter's  *)
(* token, the circuit breaker of the process, and the attempts of          *)
(* WorkspaceClient.deliver() to post it to the workspace.                  *)
(*                                                                         *)
(* Redis is shared by all processes, the breaker only by the tasks of one. *)
(* The attempts run inside the breaker's call, so the breaker sees the     *)
(* outcome of the last one; a response, of whatever status, is a success   *)
(* to it, and only the code after the call looks at the status.            *)
(***************************************************************************)
EXTENDS RateLimiter

CONSTANTS MaxRetries,        \* attempts of a delivery (3)
          FailureThreshold, ResetTimeout

ASSUME OutboundAssumption ==
    /\ MaxRetries \in Nat \ {0}
    /\ FailureThreshold \in Nat \ {0} /\ ResetTimeout \in Nat

VARIABLES circuit,     \* the breaker of each process
          attempt,     \* the attempt of each task's delivery, 0 when none
          deliveries,  \* history: deliveries a breaker let through
          failing      \* history: deliveries of each process since the last other
                       \* one that got a 5xx or no response, up to the threshold

sendVars == <<circuit, attempt, deliveries, failing>>
outboundVars == <<rateVars, sendVars>>

TasksOf(i) == {t \in Tasks : Home[t] = i}

(* The tasks whose delivery the breaker of the process let through.        *)
InCall(i) == {t \in TasksOf(i) : attempt[t] > 0}

Breaker(i) == INSTANCE CircuitBreaker
                WITH state <- circuit[i].state, failures <- circuit[i].failures,
                     age <- circuit[i].age, Calls <- TasksOf(i),
                     running <- InCall(i), remoteUp <- TRUE

OutboundInit == /\ RateInit
                /\ circuit = [i \in Instances |-> [state |-> "closed", failures |-> 0, age |-> 0]]
                /\ attempt = [t \in Tasks |-> 0]
                /\ deliveries = 0
                /\ failing = [i \in Instances |-> 0]

-----------------------------------------------------------------------------
(* What becomes of a breaker: a call it lets through, the result of one,   *)
(* a tick.                                                                 *)
Elapsed(c) == c.age >= ResetTimeout

AfterAdmission(c) == [c EXCEPT !.state = IF @ = "open" THEN "half_open" ELSE @]

AfterSuccess(c) ==
    [c EXCEPT !.failures = 0, !.state = IF @ = "half_open" THEN "closed" ELSE @]

AfterFailure(c) ==
    IF c.failures + 1 >= FailureThreshold
      THEN [state |-> "open", failures |-> FailureThreshold, age |-> 0]
      ELSE [c EXCEPT !.failures = @ + 1]

Aged(c) == IF c.state = "open" /\ c.age < ResetTimeout THEN [c EXCEPT !.age = @ + 1] ELSE c

-----------------------------------------------------------------------------
(* deliver() asks for a token.                                             *)
Begin(t, lag) == /\ attempt[t] = 0 /\ phase[t] # "granted"
                 /\ BeginAcquire(t, lag)
                 /\ UNCHANGED <<circuit, attempt, deliveries, failing>>

RedisAnswers(t) == Answered(t) /\ UNCHANGED sendVars

(* The delivery is over: the task may take the next message.               *)
Leaves(t) == /\ phase' = [phase EXCEPT ![t] = "idle"]
             /\ UNCHANGED <<bucket, used, script, cached, reading, now, granted,
                            free, regress, restarts, acquires>>

(* The breaker lets the delivery through, and it posts.                    *)
Admitted(t) ==
    /\ phase[t] = "granted" /\ attempt[t] = 0
    /\ circuit[Home[t]].state = "open" => Elapsed(circuit[Home[t]])
    /\ circuit' = [circuit EXCEPT ![Home[t]] = AfterAdmission(@)]
    /\ attempt' = [attempt EXCEPT ![t] = 1]
    /\ deliveries' = deliveries + 1
    /\ UNCHANGED <<rateVars, failing>>

(* CircuitOpenError: nothing is posted, the token is gone.                 *)
Refused(t) ==
    /\ phase[t] = "granted" /\ attempt[t] = 0
    /\ circuit[Home[t]].state = "open" /\ ~Elapsed(circuit[Home[t]])
    /\ Leaves(t)
    /\ UNCHANGED <<circuit, attempt, deliveries, failing>>

PostsAgain(t) ==
    /\ attempt' = [attempt EXCEPT ![t] = @ + 1]
    /\ UNCHANGED <<rateVars, circuit, deliveries, failing>>

(* The breaker's call is over, and the delivery with it.                   *)
CallEnds(t) ==
    /\ attempt' = [attempt EXCEPT ![t] = 0]
    /\ Leaves(t)
    /\ UNCHANGED deliveries

FailsAgain(t) ==
    failing' = [failing EXCEPT ![Home[t]] = IF @ < FailureThreshold THEN @ + 1 ELSE @]

(* A response, a 5xx (`down`) or another.  A 5xx is tried again while      *)
(* attempts are left; the last one is returned to the breaker like any     *)
(* other response, and only the code behind the call tells them apart.     *)
Response(t, down) ==
    /\ phase[t] = "granted" /\ attempt[t] > 0
    /\ IF down /\ attempt[t] < MaxRetries
         THEN PostsAgain(t)
         ELSE /\ circuit' = [circuit EXCEPT ![Home[t]] = AfterSuccess(@)]
              /\ CallEnds(t)
              /\ IF down THEN FailsAgain(t) ELSE failing' = [failing EXCEPT ![Home[t]] = 0]

(* Faulty variant: the breaker's call is inside the loop.                  *)
NoResponseEachFails(t) ==
    /\ phase[t] = "granted" /\ attempt[t] > 0
    /\ circuit' = [circuit EXCEPT ![Home[t]] = AfterFailure(@)]
    /\ IF attempt[t] < MaxRetries
         THEN /\ attempt' = [attempt EXCEPT ![t] = @ + 1]
              /\ UNCHANGED <<rateVars, deliveries, failing>>
         ELSE CallEnds(t) /\ FailsAgain(t)

(* No response (httpx.HTTPError): raised into the breaker after the last   *)
(* attempt.                                                                *)
NoResponse(t) ==
    /\ phase[t] = "granted" /\ attempt[t] > 0
    /\ IF attempt[t] < MaxRetries
         THEN PostsAgain(t)
         ELSE /\ circuit' = [circuit EXCEPT ![Home[t]] = AfterFailure(@)]
              /\ CallEnds(t) /\ FailsAgain(t)

(* One clock for the bucket and for the breakers' windows.                 *)
TimePasses ==
    /\ Tick
    /\ circuit' = [i \in Instances |-> Aged(circuit[i])]
    /\ UNCHANGED <<attempt, deliveries, failing>>

Goes(t) == \/ RedisAnswers(t) \/ Admitted(t) \/ Refused(t)
           \/ NoResponse(t) \/ \E down \in BOOLEAN : Response(t, down)

OutboundNext == \/ \E t \in Tasks : Goes(t) \/ \E lag \in 0..MaxSkew : Begin(t, lag)
                \/ RedisStep /\ UNCHANGED sendVars
                \/ TimePasses

OutboundSpec == OutboundInit /\ [][OutboundNext]_outboundVars

-----------------------------------------------------------------------------
OutboundTypeOK ==
    /\ RateTypeOK
    /\ circuit \in [Instances -> [state : {"closed", "open", "half_open"},
                                failures : 0..FailureThreshold, age : 0..ResetTimeout]]
    /\ attempt \in [Tasks -> 0..MaxRetries]
    /\ deliveries \in Nat /\ failing \in [Instances -> 0..FailureThreshold]

(* However readings are delayed and clocks differ, the workspace gets at   *)
(* most one delivery for every token of the budget and every acquire that  *)
(* Redis did not answer: each of up to MaxRetries posts, which the limit   *)
(* does not count.                                                         *)
WorkspaceLoadBounded == deliveries * Token <= Budget + Token * free

(* Through limiter, attempts, time and the other processes every delivery  *)
(* is one call of its process's breaker: it is admitted as any call, ends  *)
(* with one result, and only an end or an admission moves the circuit.     *)
CallOf(i) == \/ \E t \in TasksOf(i) : Breaker(i)!Admit(t)
             \/ \E t \in InCall(i) : /\ Breaker(i)!OnSuccess \/ Breaker(i)!OnFailure
                                     /\ InCall(i)' = InCall(i) \ {t}
             \/ Breaker(i)!Tick

UsesBreaker ==
    [][\A i \in Instances : [CallOf(i)]_<<circuit[i], InCall(i)>>]_<<circuit, attempt>>

(* "Circuit breaker opens after 5 consecutive failures" and "5xx -         *)
(* workspace down" (the adapter's README): a process whose last            *)
(* FailureThreshold deliveries got a 5xx or no response has an open        *)
(* circuit, or a half-open one on trial.                                   *)
ConsecutiveFailuresOpen ==
    \A i \in Instances : failing[i] >= FailureThreshold => circuit[i].state # "closed"
=============================================================================
