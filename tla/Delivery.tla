------------------------------ MODULE Delivery ------------------------------
(***************************************************************************)
(* The WhatsApp adapter's delivery path (services/whatsapp_adapter/app):   *)
(* DeliveryService.deliver() for the requests of POST /api/v1/deliver and  *)
(* for the rows the RetryWorker scans, with the dedupe keys in Redis, the  *)
(* rows of whatsapp_delivery_attempts and the workspace behind an HTTP     *)
(* call that may time out after the workspace took the message.            *)
(*                                                                         *)
(* A worker is one task inside deliver(): a request handler or a retry     *)
(* worker, of any adapter instance.  The code awaits Redis, the workspace  *)
(* and the database; each await is one action, so workers interleave and   *)
(* die between them.                                                       *)
(*                                                                         *)
(* Abstracted: the order of the messages of one batch (a batch is a set;   *)
(* an id repeated in it only meets its own dedupe key); the token bucket   *)
(* and the circuit breaker (either may refuse at any time: they have       *)
(* modules of their own); the number in `attempts`, which every insert     *)
(* sets to 1 and nothing updates, so MAX_ATTEMPTS excludes no row.         *)
(***************************************************************************)
EXTENDS Naturals

CONSTANTS Messages,    \* message ids, which are the dedupe ids
          Handlers,    \* tasks that serve POST /api/v1/deliver
          Retriers,    \* retry workers, one per adapter instance
          Faults,      \* what may go wrong besides the workspace: see FaultKinds
          ReuseIds,    \* do callers send an id again that was claimed before?
          MaxPosts,    \* max_retries of the service client: POSTs in one call
          MaxWindows,  \* bound on the dedupe windows of one message
          NoMessage    \* what an idle worker works on

FaultKinds == {"crash",   \* a worker's process dies, or its task is cancelled
               "redis",   \* SET NX raises, or the limiter's script gets an error reply
               "database"}  \* the insert of an attempt row raises

Workers == Handlers \union Retriers

SENT == "sent"
FAILED == "failed"
RATE_LIMITED == "rate_limited"
REJECTED == "rejected"
Statuses == {SENT, FAILED, RATE_LIMITED, REJECTED}

ASSUME DeliveryAssumption ==
    /\ Handlers \intersect Retriers = {}
    /\ Faults \subseteq FaultKinds
    /\ ReuseIds \in BOOLEAN
    /\ MaxPosts \in Nat \ {0}
    /\ MaxWindows \in Nat \ {0}
    /\ NoMessage \notin Messages

VARIABLES claimed,   \* messages with a live kman:dedupe:wa:<id> key
          rows,      \* rows[m][s]: attempt rows of m with status s
          pc,        \* where each worker is
          todo,      \* the messages of a worker's batch it has not come to yet
          cur,       \* the message a worker is delivering
          posts,     \* POSTs the current workspace call has made
          result,    \* the status the worker is about to persist
          received,  \* history: times the workspace took each message
          answered,  \* history: readable 200s to the POSTs of each message
          windows,   \* history: dedupe windows opened for each message
          lost       \* history: windows that ended a delivery without a row

worker == <<pc, todo, cur, posts, result>>
vars == <<claimed, rows, worker, received, answered, windows, lost>>

Init == /\ claimed = {}
        /\ rows = [m \in Messages |-> [s \in Statuses |-> 0]]
        /\ pc = [w \in Workers |-> "idle"]
        /\ todo = [w \in Workers |-> {}]
        /\ cur = [w \in Workers |-> NoMessage]
        /\ posts = [w \in Workers |-> 0]
        /\ result = [w \in Workers |-> SENT]
        /\ received = [m \in Messages |-> 0]
        /\ answered = [m \in Messages |-> 0]
        /\ windows = [m \in Messages |-> 0]
        /\ lost = [m \in Messages |-> 0]

InFlight(w) == pc[w] \in {"acquire", "post", "record"}
Delivering(m) == \E w \in Workers : InFlight(w) /\ cur[w] = m

(* What _scan_once() selects: any failed or rate-limited row.              *)
Due(m) == rows[m][FAILED] + rows[m][RATE_LIMITED] > 0

-----------------------------------------------------------------------------
(* deliver() starts on a batch.                                            *)
StartBatch(w, batch) ==
    /\ pc[w] = "idle"
    /\ batch # {}
    /\ pc' = [pc EXCEPT ![w] = "next"]
    /\ todo' = [todo EXCEPT ![w] = batch]
    /\ UNCHANGED <<claimed, rows, cur, posts, result, received, answered, windows, lost>>

(* POST /api/v1/deliver.                                                   *)
Request(h) ==
    \E batch \in SUBSET {m \in Messages : ReuseIds \/ windows[m] = 0} :
        StartBatch(h, batch)

(* Faulty variant: the scan forgets the rate-limited rows.                 *)
ScanFailedOnly(r) ==
    \E batch \in SUBSET {m \in Messages : rows[m][FAILED] > 0} : StartBatch(r, batch)

(* _scan_once(): the due rows whose backoff has passed.  Each is delivered *)
(* by the same deliver(), under the message's own dedupe id.               *)
Scan(r) == \E batch \in SUBSET {m \in Messages : Due(m)} : StartBatch(r, batch)

(* The worker stops working on cur[w] and comes to its next message.       *)
NextMessage(w) ==
    /\ pc' = [pc EXCEPT ![w] = "next"]
    /\ cur' = [cur EXCEPT ![w] = NoMessage]
    /\ posts' = [posts EXCEPT ![w] = 0]
    /\ result' = [result EXCEPT ![w] = SENT]

(* An exception or a crash ends the whole batch.                           *)
Abandon(w) ==
    /\ pc' = [pc EXCEPT ![w] = "idle"]
    /\ todo' = [todo EXCEPT ![w] = {}]
    /\ cur' = [cur EXCEPT ![w] = NoMessage]
    /\ posts' = [posts EXCEPT ![w] = 0]
    /\ result' = [result EXCEPT ![w] = SENT]

Finish(w) ==
    /\ pc[w] = "next"
    /\ todo[w] = {}
    /\ pc' = [pc EXCEPT ![w] = "idle"]
    /\ UNCHANGED <<claimed, rows, todo, cur, posts, result, received, answered, windows, lost>>

-----------------------------------------------------------------------------
(* _deliver_one().                                                         *)

(* Faulty variant: the claim is a plain SET.                               *)
ClaimAlways(w, m) ==
    /\ pc[w] = "next"
    /\ m \in todo[w]
    /\ todo' = [todo EXCEPT ![w] = @ \ {m}]
    /\ claimed' = claimed \union {m}
    /\ windows' = [windows EXCEPT ![m] = IF m \in claimed THEN @ ELSE @ + 1]
    /\ pc' = [pc EXCEPT ![w] = "acquire"]
    /\ cur' = [cur EXCEPT ![w] = m]
    /\ UNCHANGED <<rows, posts, result, received, answered, lost>>

(* dedupe.claim(): SET NX opens a window for the message.                  *)
Claim(w, m) ==
    /\ pc[w] = "next"
    /\ m \in todo[w] \ claimed
    /\ todo' = [todo EXCEPT ![w] = @ \ {m}]
    /\ claimed' = claimed \union {m}
    /\ windows' = [windows EXCEPT ![m] = @ + 1]
    /\ pc' = [pc EXCEPT ![w] = "acquire"]
    /\ cur' = [cur EXCEPT ![w] = m]
    /\ UNCHANGED <<rows, posts, result, received, answered, lost>>

(* The key is held: "skipped".                                             *)
Skip(w, m) ==
    /\ pc[w] = "next"
    /\ m \in todo[w] \intersect claimed
    /\ todo' = [todo EXCEPT ![w] = @ \ {m}]
    /\ UNCHANGED <<claimed, rows, pc, cur, posts, result, received, answered, windows, lost>>

(* SET NX raises.  (One that took effect and lost its reply is a Claim     *)
(* followed by a Crash.)                                                   *)
ClaimRaises(w) ==
    /\ "redis" \in Faults
    /\ pc[w] = "next"
    /\ todo[w] # {}
    /\ Abandon(w)
    /\ UNCHANGED <<claimed, rows, received, answered, windows, lost>>

(* The worker will persist this status for its message.                    *)
Outcome(w, s) ==
    /\ pc' = [pc EXCEPT ![w] = "record"]
    /\ result' = [result EXCEPT ![w] = s]
    /\ UNCHANGED <<claimed, rows, todo, cur, windows, lost>>

(* rate_limiter.acquire(): a token is free, or Redis failed and the        *)
(* limiter lets the message pass.                                          *)
Acquire(w) ==
    /\ pc[w] = "acquire"
    /\ pc' = [pc EXCEPT ![w] = "post"]
    /\ UNCHANGED <<claimed, rows, todo, cur, posts, result, received, answered, windows, lost>>

(* Faulty variant: the refusal is recorded and the message posted anyway.  *)
AcquireDeniedGoesOn(w) ==
    /\ pc[w] = "acquire"
    /\ rows' = [rows EXCEPT ![cur[w]][RATE_LIMITED] = @ + 1]
    /\ pc' = [pc EXCEPT ![w] = "post"]
    /\ UNCHANGED <<claimed, todo, cur, posts, result, received, answered, windows, lost>>

AcquireDenied(w) ==
    /\ pc[w] = "acquire"
    /\ Outcome(w, RATE_LIMITED)
    /\ UNCHANGED <<posts, received, answered>>

(* The limiter lets a message pass when Redis is out of reach, but raises  *)
(* an error reply again, outside the try: no row, and the batch ends.      *)
AcquireRaises(w) ==
    /\ "redis" \in Faults
    /\ pc[w] = "acquire"
    /\ Abandon(w)
    /\ lost' = [lost EXCEPT ![cur[w]] = @ + 1]
    /\ UNCHANGED <<claimed, rows, received, answered, windows>>

(* The open circuit breaker refuses the call: a failure like any other.    *)
CircuitRefuses(w) ==
    /\ pc[w] = "post"
    /\ posts[w] = 0
    /\ Outcome(w, FAILED)
    /\ UNCHANGED <<posts, received, answered>>

Posting(w) == /\ pc[w] = "post"
              /\ posts' = [posts EXCEPT ![w] = @ + 1]

(* What the workspace makes of a POST is its own affair.                   *)
MayReceive(m) == \/ received' = [received EXCEPT ![m] = @ + 1]
                 \/ UNCHANGED received

(* A 200 whose body parses.  Its `accepted`, `rejected` and `errors` are   *)
(* not looked at: the message counts as sent, also when the answer lists   *)
(* it as rejected.                                                         *)
PostAnswered(w) ==
    /\ Posting(w)
    /\ MayReceive(cur[w])
    /\ answered' = [answered EXCEPT ![cur[w]] = @ + 1]
    /\ Outcome(w, SENT)

(* A 200 with a body that does not parse: deliver() raises and the message *)
(* counts as failed.                                                       *)
PostUnreadable(w) ==
    /\ Posting(w)
    /\ MayReceive(cur[w])
    /\ UNCHANGED answered
    /\ Outcome(w, FAILED)

(* 429, 4xx, or a 429 whose Retry-After is not a number of seconds.        *)
PostRefused(w) ==
    /\ Posting(w)
    /\ \E s \in {RATE_LIMITED, REJECTED, FAILED} : Outcome(w, s)
    /\ UNCHANGED <<received, answered>>

(* Faulty variants: one attempt too many, and a last 5xx taken for success. *)
PostFailsOnceMore(w) ==
    /\ Posting(w)
    /\ MayReceive(cur[w])
    /\ UNCHANGED answered
    /\ IF posts[w] < MaxPosts
         THEN UNCHANGED <<claimed, rows, pc, todo, cur, result, windows, lost>>
         ELSE Outcome(w, FAILED)

PostFailsUnchecked(w) ==
    /\ Posting(w)
    /\ MayReceive(cur[w])
    /\ UNCHANGED answered
    /\ IF posts[w] + 1 < MaxPosts
         THEN UNCHANGED <<claimed, rows, pc, todo, cur, result, windows, lost>>
         ELSE Outcome(w, SENT)

(* 5xx, timeout or broken connection: the workspace may have taken the     *)
(* message.  The client posts again until its last attempt.                *)
PostFails(w) ==
    /\ Posting(w)
    /\ MayReceive(cur[w])
    /\ UNCHANGED answered
    /\ IF posts[w] + 1 < MaxPosts
         THEN UNCHANGED <<claimed, rows, pc, todo, cur, result, windows, lost>>
         ELSE Outcome(w, FAILED)

(* _persist_attempt(): always a new row.                                   *)
Record(w) ==
    /\ pc[w] = "record"
    /\ rows' = [rows EXCEPT ![cur[w]][result[w]] = @ + 1]
    /\ NextMessage(w)
    /\ UNCHANGED <<claimed, todo, received, answered, windows, lost>>

(* The insert raises.  After a successful POST it does so inside the try,  *)
(* and the message is recorded as failed; otherwise the batch ends.        *)
RecordRaises(w) ==
    /\ "database" \in Faults
    /\ pc[w] = "record"
    /\ IF result[w] = SENT
         THEN /\ Outcome(w, FAILED)
              /\ UNCHANGED posts
         ELSE /\ Abandon(w)
              /\ lost' = [lost EXCEPT ![cur[w]] = @ + 1]
              /\ UNCHANGED <<claimed, rows, windows>>
    /\ UNCHANGED <<received, answered>>

-----------------------------------------------------------------------------
Crash(w) ==
    /\ "crash" \in Faults
    /\ pc[w] # "idle"
    /\ lost' = IF InFlight(w) THEN [lost EXCEPT ![cur[w]] = @ + 1] ELSE lost
    /\ Abandon(w)
    /\ UNCHANGED <<claimed, rows, received, answered, windows>>

(* The key's 24 h end.  A delivery takes at most a minute (three POSTs of  *)
(* 10 s each and their backoff), so no key expires under one.              *)
Expire(m) ==
    /\ m \in claimed
    /\ ~Delivering(m)
    /\ windows[m] < MaxWindows
    /\ claimed' = claimed \ {m}
    /\ UNCHANGED <<rows, worker, received, answered, windows, lost>>

Attempt(w) == \/ Acquire(w) \/ AcquireDenied(w) \/ CircuitRefuses(w)
              \/ PostAnswered(w) \/ PostUnreadable(w) \/ PostRefused(w) \/ PostFails(w)
              \/ Record(w)

Next == \/ \E h \in Handlers : Request(h)
        \/ \E r \in Retriers : Scan(r)
        \/ \E w \in Workers : \/ \E m \in Messages : Claim(w, m) \/ Skip(w, m)
                              \/ Finish(w) \/ Attempt(w)
                              \/ ClaimRaises(w) \/ AcquireRaises(w) \/ RecordRaises(w)
                              \/ Crash(w)
        \/ \E m \in Messages : Expire(m)

(* A retry worker keeps scanning and its scans keep finding a row older    *)
(* than its backoff of seconds; every started step ends, by a timeout at   *)
(* the latest; keys expire.  Strong fairness: crashes, outages and other   *)
(* tasks' deliveries do not get in the way for ever.                       *)
ScanFinds(r, m) == /\ Scan(r)
                   /\ m \in todo'[r]

Fairness ==
    /\ \A r \in Retriers, m \in Messages : /\ SF_vars(ScanFinds(r, m))
                                           /\ SF_vars(Claim(r, m))
    /\ \A w \in Workers : /\ WF_vars(Finish(w) \/ \E m \in Messages : Claim(w, m) \/ Skip(w, m))
                          /\ WF_vars(Attempt(w))
    /\ \A m \in Messages : SF_vars(Expire(m))

SafeSpec == Init /\ [][Next]_vars
Spec == SafeSpec /\ Fairness

-----------------------------------------------------------------------------
TypeOK ==
    /\ claimed \subseteq Messages
    /\ rows \in [Messages -> [Statuses -> Nat]]
    /\ pc \in [Workers -> {"idle", "next", "acquire", "post", "record"}]
    /\ todo \in [Workers -> SUBSET Messages]
    /\ cur \in [Workers -> Messages \union {NoMessage}]
    /\ \A w \in Workers : InFlight(w) => cur[w] \in Messages
    /\ posts \in [Workers -> 0..MaxPosts]
    /\ result \in [Workers -> Statuses]
    /\ received \in [Messages -> Nat] /\ answered \in [Messages -> Nat]
    /\ windows \in [Messages -> 0..MaxWindows]
    /\ \A m \in Messages \ claimed : windows[m] < MaxWindows
    /\ lost \in [Messages -> Nat]

(* No two workers, of any adapter instance, deliver one message at the     *)
(* same time: a worker in flight holds the message's dedupe key.           *)
OneDelivererPerMessage ==
    \A w \in Workers : InFlight(w) =>
        /\ cur[w] \in claimed
        /\ \A v \in Workers \ {w} : InFlight(v) => cur[v] # cur[w]

RowsOf(m) == rows[m][SENT] + rows[m][FAILED] + rows[m][RATE_LIMITED] + rows[m][REJECTED]

(* Every dedupe window a message gets is accounted for by one attempt row, *)
(* by the delivery under way, or by a crash, a failed insert or an error   *)
(* of the limiter's script: only those make a message vanish without a     *)
(* row, and no window yields two rows.                                     *)
EveryWindowRecordedOnce ==
    \A m \in Messages :
        windows[m] = RowsOf(m) + lost[m] + (IF Delivering(m) THEN 1 ELSE 0)

(* No row says `sent` without an answer of its own: each stands for one    *)
(* readable 200, whatever was posted again, refused, failed to be inserted *)
(* or taken up by a retry in between.  It does not stand for a message the *)
(* workspace accepted: that is in the body, which the code does not read.  *)
SentRowsWereAnswered == \A m \in Messages : rows[m][SENT] <= answered[m]

(* The duplicates the workspace can see are bounded: the POSTs of one call *)
(* for each dedupe window.                                                 *)
DuplicatesBounded == \A m \in Messages : received[m] <= MaxPosts * windows[m]

(* A message recorded as failed or rate limited is taken up again in the   *)
(* next dedupe window, whatever crashes and outages happen.                *)
FailedIsRetriedNextWindow ==
    \A m \in Messages : \A n \in 1..(MaxWindows - 1) :
        (Due(m) /\ windows[m] = n) ~> (windows[m] > n)

(* "The adapter's dedupe store (SETNX with 24h TTL) ensures retries do not *)
(* produce duplicate deliveries." (the adapter's README): the retry worker *)
(* does not deliver a message again that a row says was sent.              *)
RetrySparesSent ==
    [][\A r \in Retriers, m \in Messages : Claim(r, m) => rows[m][SENT] = 0]_vars
=============================================================================
