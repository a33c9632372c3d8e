----------------------------- MODULE WorkQueue -----------------------------
(***************************************************************************)
(* One Redis work queue with its dedupe keys, the callers of               *)
(* enqueue_message() and the consume() loops that share it                 *)
(* (shared/messaging/queue_contract.py).                                   *)
(*                                                                         *)
(* enqueue_message() makes two Redis calls, SET NX and LPUSH; consume()    *)
(* makes BRPOP and, after a handler failed, enqueue_message() again.  Each *)
(* Redis call is one action, so tasks interleave and die between them.     *)
(*                                                                         *)
(* A copy is what one LPUSH puts on the list: the message's dedupe id and  *)
(* the number of the grant it was pushed under.  A grant is one successful *)
(* SET NX, or one LPUSH by an operator, which asks for no key.  The number *)
(* is not in the code: it tells apart the copies of one id.                *)
(***************************************************************************)
EXTENDS Naturals, Sequences

CONSTANTS Ids,        \* dedupe ids
          Consumers,  \* tasks that run consume() on the queue
          Faults,     \* what may go wrong besides a handler: see FaultKinds
          MaxGrants,  \* bound on the grants of one id
          NoCopy      \* a consumer's `msg` when it holds none

FaultKinds == {"crash",   \* a process dies between two steps
               "redis",   \* a Redis call raises
               "expiry",  \* the 24 h TTL of a dedupe key ends
               "manual"}  \* an operator pushes a message with redis-cli

Copies == [id : Ids, grant : 1..MaxGrants]

ASSUME QueueAssumption ==
    /\ Faults \subseteq FaultKinds
    /\ MaxGrants \in Nat \ {0}
    /\ NoCopy \notin Copies

VARIABLES claims,   \* ids with a live kman:dedupe:<id> key
          queue,    \* the Redis list, oldest message first
          pushing,  \* copies claimed by an enqueue_message() that has not pushed yet
          pc,       \* where each consumer is in its loop
          msg,      \* the message each consumer holds
          grants,   \* history: grants of each id so far
          ended,    \* history: keys of each id that expired, and pushes without a key
          accepted, \* history: ids enqueue_message() returned normally for
          started,  \* history: copies given to a handler
          done      \* history: copies whose handler returned

vars == <<claims, queue, pushing, pc, msg, grants, ended, accepted, started, done>>

Init == /\ claims = {}
        /\ queue = <<>>
        /\ pushing = {}
        /\ pc = [k \in Consumers |-> "poll"]
        /\ msg = [k \in Consumers |-> NoCopy]
        /\ grants = [i \in Ids |-> 0]
        /\ ended = [i \in Ids |-> 0]
        /\ accepted = {}
        /\ started = {}
        /\ done = {}

NextCopy(i) == [id |-> i, grant |-> grants[i] + 1]

Grant(i) == /\ grants[i] < MaxGrants
            /\ grants' = [grants EXCEPT ![i] = @ + 1]

-----------------------------------------------------------------------------
(* enqueue_message() called by a producer.                                 *)

(* Faulty variant: the key is only tested.                                 *)
ClaimTestsOnly(i) ==
    /\ i \notin claims
    /\ Grant(i)
    /\ pushing' = pushing \union {NextCopy(i)}
    /\ UNCHANGED <<claims, queue, pc, msg, ended, accepted, started, done>>

(* SET kman:dedupe:<id> NX EX 86400 succeeds.                              *)
Claim(i) ==
    /\ i \notin claims
    /\ Grant(i)
    /\ claims' = claims \union {i}
    /\ pushing' = pushing \union {NextCopy(i)}
    /\ UNCHANGED <<queue, pc, msg, ended, accepted, started, done>>

(* The key is held: the id is returned as if the message were pending.     *)
ClaimHeld(i) ==
    /\ i \in claims
    /\ accepted' = accepted \union {i}
    /\ UNCHANGED <<claims, queue, pushing, pc, msg, grants, ended, started, done>>

(* Faulty variant: the caller pushes again after LPUSH.                    *)
PushTwice(c) ==
    /\ c \in pushing
    /\ queue' = queue \o <<c, c>>
    /\ pushing' = pushing \ {c}
    /\ accepted' = accepted \union {c.id}
    /\ UNCHANGED <<claims, pc, msg, grants, ended, started, done>>

(* LPUSH, and the call returns.                                            *)
Push(c) ==
    /\ c \in pushing
    /\ queue' = Append(queue, c)
    /\ pushing' = pushing \ {c}
    /\ accepted' = accepted \union {c.id}
    /\ UNCHANGED <<claims, pc, msg, grants, ended, started, done>>

(* The producer dies, or LPUSH raises, after the claim: the key stays.     *)
PushLost(c) ==
    /\ {"crash", "redis"} \intersect Faults # {}
    /\ c \in pushing
    /\ pushing' = pushing \ {c}
    /\ UNCHANGED <<claims, queue, pc, msg, grants, ended, accepted, started, done>>

-----------------------------------------------------------------------------
(* consume().                                                              *)

(* Faulty variant: the message stays on the list while it is handled.      *)
DequeuePeeks(k) ==
    /\ pc[k] = "poll"
    /\ queue # <<>>
    /\ msg' = [msg EXCEPT ![k] = Head(queue)]
    /\ pc' = [pc EXCEPT ![k] = "handling"]
    /\ started' = started \union {Head(queue)}
    /\ UNCHANGED <<claims, queue, pushing, grants, ended, accepted, done>>

(* BRPOP pops the oldest message and the handler starts.  A poll that      *)
(* times out or raises changes nothing: the loop sleeps and polls again.   *)
Dequeue(k) ==
    /\ pc[k] = "poll"
    /\ queue # <<>>
    /\ msg' = [msg EXCEPT ![k] = Head(queue)]
    /\ queue' = Tail(queue)
    /\ pc' = [pc EXCEPT ![k] = "handling"]
    /\ started' = started \union {Head(queue)}
    /\ UNCHANGED <<claims, pushing, grants, ended, accepted, done>>

(* The pop took effect and dequeue_message() raised: the reply was lost,   *)
(* or from_json() rejected the body.  The loop goes on without it.         *)
DequeueRaises(k) ==
    /\ "redis" \in Faults
    /\ pc[k] = "poll"
    /\ queue # <<>>
    /\ queue' = Tail(queue)
    /\ UNCHANGED <<claims, pushing, pc, msg, grants, ended, accepted, started, done>>

HandlerReturns(k) ==
    /\ pc[k] = "handling"
    /\ done' = done \union {msg[k]}
    /\ pc' = [pc EXCEPT ![k] = "poll"]
    /\ msg' = [msg EXCEPT ![k] = NoCopy]
    /\ UNCHANGED <<claims, queue, pushing, grants, ended, accepted, started>>

HandlerRaises(k) ==
    /\ pc[k] = "handling"
    /\ pc' = [pc EXCEPT ![k] = "requeue"]
    /\ UNCHANGED <<claims, queue, pushing, msg, grants, ended, accepted, started, done>>

(* The except clause calls enqueue_message(msg) with the same dedupe id:   *)
(* its SET NX succeeds only when the key has expired or was never set.     *)
RequeueClaim(k) ==
    /\ pc[k] = "requeue"
    /\ msg[k].id \notin claims
    /\ Grant(msg[k].id)
    /\ claims' = claims \union {msg[k].id}
    /\ msg' = [msg EXCEPT ![k] = NextCopy(msg[k].id)]
    /\ pc' = [pc EXCEPT ![k] = "push"]
    /\ UNCHANGED <<queue, pushing, ended, accepted, started, done>>

(* Faulty variant: the consumer waits until it gets the key.               *)
RequeueWaits(k) ==
    /\ pc[k] = "requeue"
    /\ msg[k].id \in claims
    /\ UNCHANGED vars

(* The key is still held: nothing is pushed, the loop goes on.             *)
RequeueHeld(k) ==
    /\ pc[k] = "requeue"
    /\ msg[k].id \in claims
    /\ pc' = [pc EXCEPT ![k] = "poll"]
    /\ msg' = [msg EXCEPT ![k] = NoCopy]
    /\ UNCHANGED <<claims, queue, pushing, grants, ended, accepted, started, done>>

RequeuePush(k) ==
    /\ pc[k] = "push"
    /\ queue' = Append(queue, msg[k])
    /\ pc' = [pc EXCEPT ![k] = "poll"]
    /\ msg' = [msg EXCEPT ![k] = NoCopy]
    /\ UNCHANGED <<claims, pushing, grants, ended, accepted, started, done>>

(* The task ends: its process died, or enqueue_message() raised inside the *)
(* except clause, where nothing catches it.                                *)
ConsumerDies(k) ==
    /\ \/ "crash" \in Faults /\ pc[k] \in {"poll", "handling", "requeue", "push"}
       \/ "redis" \in Faults /\ pc[k] \in {"requeue", "push"}
    /\ pc' = [pc EXCEPT ![k] = "dead"]
    /\ msg' = [msg EXCEPT ![k] = NoCopy]
    /\ UNCHANGED <<claims, queue, pushing, grants, ended, accepted, started, done>>

(* An operator starts the service again: a fresh loop, holding nothing.    *)
Restart(k) ==
    /\ pc[k] = "dead"
    /\ pc' = [pc EXCEPT ![k] = "poll"]
    /\ UNCHANGED <<claims, queue, pushing, msg, grants, ended, accepted, started, done>>

(* stop_event is set: the loop ends where it tests it.                     *)
Stop(k) ==
    /\ pc[k] = "poll"
    /\ pc' = [pc EXCEPT ![k] = "stopped"]
    /\ UNCHANGED <<claims, queue, pushing, msg, grants, ended, accepted, started, done>>

-----------------------------------------------------------------------------
(* The bound: a key expires, and an operator pushes, only while a grant    *)
(* remains for the requeue that may follow.                                *)
Expire(i) ==
    /\ "expiry" \in Faults
    /\ i \in claims
    /\ grants[i] < MaxGrants
    /\ claims' = claims \ {i}
    /\ ended' = [ended EXCEPT ![i] = @ + 1]
    /\ UNCHANGED <<queue, pushing, pc, msg, grants, accepted, started, done>>

(* The runbook's "manually enqueue": LPUSH alone, no dedupe key.           *)
ManualPush(i) ==
    /\ "manual" \in Faults
    /\ grants[i] + 1 < MaxGrants
    /\ Grant(i)
    /\ queue' = Append(queue, NextCopy(i))
    /\ ended' = [ended EXCEPT ![i] = @ + 1]
    /\ UNCHANGED <<claims, pushing, pc, msg, accepted, started, done>>

ConsumerStep(k) == \/ Dequeue(k) \/ DequeueRaises(k)
                   \/ HandlerReturns(k) \/ HandlerRaises(k)
                   \/ RequeueClaim(k) \/ RequeueHeld(k) \/ RequeuePush(k)

Next == \/ \E i \in Ids : Claim(i) \/ ClaimHeld(i) \/ Expire(i) \/ ManualPush(i)
        \/ \E c \in pushing : Push(c) \/ PushLost(c)
        \/ \E k \in Consumers : ConsumerStep(k) \/ ConsumerDies(k) \/ Restart(k) \/ Stop(k)

(* A running loop takes its next step, and a loop that is restarted again  *)
(* and again some time gets to poll (strong fairness); an admitted enqueue *)
(* finishes.  Crashes, restarts, stops and new messages are owed to no one. *)
Fairness == /\ \A k \in Consumers : SF_vars(ConsumerStep(k))
            /\ WF_vars(\E c \in pushing : Push(c) \/ PushLost(c))

SafeSpec == Init /\ [][Next]_vars
Spec == SafeSpec /\ Fairness

-----------------------------------------------------------------------------
Busy(k) == pc[k] \in {"handling", "requeue", "push"}

InQueue(c) == \E n \in 1..Len(queue) : queue[n] = c

TypeOK == /\ claims \subseteq Ids
          /\ queue \in Seq(Copies)
          /\ pushing \subseteq Copies
          /\ pc \in [Consumers -> {"poll", "handling", "requeue", "push", "dead", "stopped"}]
          /\ msg \in [Consumers -> Copies \union {NoCopy}]
          /\ \A k \in Consumers : Busy(k) => msg[k] \in Copies
          /\ grants \in [Ids -> 0..MaxGrants]
          /\ \A i \in Ids \ claims : grants[i] < MaxGrants
          /\ ended \in [Ids -> 0..MaxGrants]
          /\ accepted \subseteq Ids
          /\ started \subseteq Copies
          /\ done \subseteq started

(* An id gets at most one copy per dedupe window, whoever enqueues it and  *)
(* however often: a second one needs an expired key or an operator.        *)
OneCopyPerWindow == \A i \in Ids : grants[i] <= ended[i] + 1

(* A copy that a handler was given is not on the list and not on its way   *)
(* there: the destructive pop and the fresh claim of every push together   *)
(* keep a handler from seeing the same grant twice.                        *)
NoCopyStartsTwice ==
    \A c \in started : ~InQueue(c) /\ c \notin pushing
                       /\ \A k \in Consumers : pc[k] = "push" => msg[k] # c

(* No two consumers work on the same copy at once, and no copy a consumer  *)
(* works on has already been finished.                                     *)
OneHandlerPerCopy ==
    \A k \in Consumers : pc[k] \in {"handling", "requeue"} =>
        /\ msg[k] \in started \ done
        /\ \A l \in Consumers \ {k} : Busy(l) => msg[l] # msg[k]

(* The queue is an at-most-once queue of copies: whatever interleaving of  *)
(* producers, consumers, crashes and expiring keys, no grant is handed to  *)
(* two handlers, or to one handler twice.  A consumer that requeues no     *)
(* longer works on its copy.                                               *)
Issued == {c \in Copies : c.grant <= grants[c.id]}
Holding == [k \in Consumers |-> IF pc[k] = "handling" THEN msg[k] ELSE NoCopy]
AtMostOnce == INSTANCE AtMostOnceQueue
                WITH Items <- Copies, Workers <- Consumers, NoItem <- NoCopy,
                     issued <- Issued, started <- started, finished <- done,
                     holding <- Holding
ImplementsAtMostOnce == AtMostOnce!Spec

(* Every message on the list is taken off it, unless no consume() loop is  *)
(* left: a failed handler, an unreadable body or a requeue that pushes     *)
(* nothing does not wedge the loop.                                        *)
NoLoopLeft == \A k \in Consumers : pc[k] \in {"dead", "stopped"}
QueuedIsTaken == \A c \in Copies : InQueue(c) ~> (~InQueue(c) \/ NoLoopLeft)

(* "On exception, the message is re-enqueued (with the same dedupe id)     *)
(* after a short backoff, so a transient error does not lose work"         *)
(* (consume's docstring): work that enqueue_message() accepted is finished *)
(* or still somewhere to be found.                                         *)
AcceptedWorkSurvives ==
    \A i \in accepted :
        \/ \E c \in done \union pushing : c.id = i
        \/ \E n \in 1..Len(queue) : queue[n].id = i
        \/ \E k \in Consumers : Busy(k) /\ msg[k].id = i
=============================================================================
