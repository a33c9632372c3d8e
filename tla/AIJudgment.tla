------------------------------ MODULE AIJudgment ------------------------------
(***************************************************************************)
(* The AI judgment service (ai_judgment/app): calls of its endpoints and   *)
(* of its queue consumer, the adapter's retry loop around the provider,    *)
(* the result built from the reply, and the audit log.                     *)
(*                                                                         *)
(* A call suspends only while the provider works and between its attempts, *)
(* so building the result and logging it belong to the step in which the   *)
(* reply arrives.  The OpenAI and the Anthropic adapter are the same loop. *)
(* The consumer is modelled although no start-up code runs it.             *)
(***************************************************************************)
EXTENDS Integers, Sequences

CONSTANTS Calls,
          MaxRetries,   \* attempts of an adapter (3)
          Answers,      \* labels or verdicts a model may answer with
          Labels,       \* those of them a classification allows
          Confidences,  \* confidences a model may give
          Missing          \* a key the reply leaves out

ASSUME JudgmentAssumption ==
    /\ MaxRetries \in Nat \ {0}
    /\ Labels \subseteq Answers /\ Labels # {}
    /\ Missing \notin Answers /\ Missing \notin Confidences

VARIABLES provider,  \* the adapter's state since start-up
          call,      \* how far each call got
          audit      \* the audit entries of each call

judgmentVars == <<provider, call, audit>>

Tasks == {"judge", "freeform", "draft", "classify", "extract", "summarize"}
Entries == {"judgment", "own", "queue"}

(* The tasks with an endpoint of their own; the consumer only judges.      *)
OwnTasks == {"classify", "extract", "summarize"}
QueueTasks == {"judge"}

(* What json.loads() makes of the provider's text, if anything: an object, *)
(* another truthy or falsy value, or nothing.                              *)
Replies == [text : {"object"}, answer : Answers \union {Missing},
            confidence : Confidences \union {Missing}]
           \union [text : {"truthy", "falsy", "prose"}, answer : {Missing}, confidence : {Missing}]

NotCalled == [phase |-> "idle"]

(* What KMAN_AI_PROVIDER and the keys make of the adapter.                 *)
Providers == {"hosted", "keyless", "stub", "unknown"}

JudgmentInit == /\ provider \in Providers
                /\ call = [c \in Calls |-> NotCalled]
                /\ audit = [c \in Calls |-> <<>>]

-----------------------------------------------------------------------------
(* The adapters' parsed.get() fails on a list or a number.                 *)
AdapterReads(task, reply) == task \in {"classify", "extract"} => reply.text # "truthy"

(* Whether the reply becomes a result.  `parsed` of a result is an object  *)
(* or nothing, and the results of extract and summarize are built without  *)
(* their required id, so they never validate.                              *)
HasResult(task, reply) ==
    /\ AdapterReads(task, reply)
    /\ task \notin {"extract", "summarize"}
    /\ task = "judge" => reply.text \in {"object", "prose"}

(* What the result says.  A label outside the allowed ones is replaced by  *)
(* the first of them, and then put back by the merge of the raw reply.     *)
Result(task, reply) ==
    IF task = "classify" /\ reply.answer = Missing
      THEN [text |-> "object", answer |-> CHOOSE l \in Labels : TRUE, confidence |-> reply.confidence]
    ELSE IF task \in {"freeform", "draft"}
      THEN [text |-> "prose", answer |-> Missing, confidence |-> Missing]
    ELSE reply

(* The task an entry names: a draft is logged as a judgment.               *)
LoggedTask(task) == IF task \in {"freeform", "draft"} THEN "judge" ELSE task
RequestedTask(task) == IF task = "freeform" THEN "judge" ELSE task

(* The handler's except branch; the other endpoints and the consumer have  *)
(* none.                                                                   *)
LogError(c, entry, task) ==
    audit' = IF entry = "judgment"
               THEN [audit EXCEPT ![c] = Append(@, [task |-> RequestedTask(task), error |-> TRUE])]
               ELSE audit

(* Faulty variant: service and handler both log the result.                *)
LogResultTwice(c, entry, task) ==
    audit' = IF entry = "queue" THEN audit
             ELSE [audit EXCEPT ![c] = @ \o <<[task |-> LoggedTask(task), error |-> FALSE],
                                             [task |-> LoggedTask(task), error |-> FALSE]>>]

LogResult(c, entry, task) ==
    audit' = IF entry = "queue" THEN audit
             ELSE [audit EXCEPT ![c] = Append(@, [task |-> LoggedTask(task), error |-> FALSE])]

-----------------------------------------------------------------------------
(* A call reaches the service.  Without a key, or with a stub adapter, it  *)
(* fails before the provider is called.  With an unknown provider there is *)
(* no adapter: JudgmentService() raises, on every call and outside the try.*)
Ask(c, entry, task) ==
    /\ call[c] = NotCalled
    /\ entry = "own" => task \in OwnTasks
    /\ entry = "queue" => task \in QueueTasks
    /\ IF provider = "hosted"
         THEN /\ call' = [call EXCEPT ![c] = [phase |-> "waiting", entry |-> entry,
                                              task |-> task, attempt |-> 1]]
              /\ UNCHANGED audit
         ELSE /\ call' = [call EXCEPT ![c] = [phase |-> "failed", entry |-> entry,
                                              task |-> task, attempt |-> 0]]
              /\ IF provider = "unknown" THEN UNCHANGED audit ELSE LogError(c, entry, task)
    /\ UNCHANGED provider

(* The provider fails or times out, or its reply cannot be read.           *)
ProviderRaises(c) ==
    LET k == call[c]
    IN  /\ k.phase = "waiting"
        /\ IF k.attempt < MaxRetries
             THEN call' = [call EXCEPT ![c].attempt = @ + 1] /\ UNCHANGED audit
             ELSE /\ call' = [call EXCEPT ![c].phase = "failed"]
                  /\ LogError(c, k.entry, k.task)
        /\ UNCHANGED provider

(* The reply, paid for, becomes a result or an exception.                  *)
ProviderReplies(c, reply) ==
    LET k == call[c]
    IN  /\ k.phase = "waiting"
        /\ IF HasResult(k.task, reply)
             THEN /\ call' = [call EXCEPT ![c] = [phase |-> "answered", entry |-> k.entry,
                        task |-> k.task, attempt |-> k.attempt, result |-> Result(k.task, reply)]]
                  /\ LogResult(c, k.entry, k.task)
             ELSE /\ call' = [call EXCEPT ![c].phase = "rejected"]
                  /\ LogError(c, k.entry, k.task)
        /\ UNCHANGED provider

(* The process dies with the calls in flight.                              *)
ServiceDies ==
    /\ \E c \in Calls : call[c].phase = "waiting"
    /\ call' = [c \in Calls |-> IF call[c].phase = "waiting"
                                  THEN [call[c] EXCEPT !.phase = "lost"] ELSE call[c]]
    /\ UNCHANGED <<provider, audit>>

Serve(c) == ProviderRaises(c) \/ \E reply \in Replies : ProviderReplies(c, reply)

JudgmentNext ==
    \/ \E c \in Calls : \/ \E e \in Entries, t \in Tasks : Ask(c, e, t)
                        \/ Serve(c)
    \/ ServiceDies

(* Every attempt ends: the provider's client times out after 30 s.         *)
JudgmentFairness == \A c \in Calls : WF_judgmentVars(Serve(c))
JudgmentSpec == JudgmentInit /\ [][JudgmentNext]_judgmentVars /\ JudgmentFairness

-----------------------------------------------------------------------------
AsCalled == [entry : Entries, task : Tasks, attempt : 0..MaxRetries]
CallType ==
    {NotCalled}
    \union [phase : {"waiting", "failed", "rejected", "lost"}, entry : Entries, task : Tasks,
            attempt : 0..MaxRetries]
    \union [phase : {"answered"}, entry : Entries, task : Tasks, attempt : 0..MaxRetries,
            result : Replies]

JudgmentTypeOK ==
    /\ provider \in Providers
    /\ call \in [Calls -> CallType]
    /\ audit \in [Calls -> Seq([task : Tasks, error : BOOLEAN])]

(* What the log says of a call is what its caller was told, once: no call  *)
(* has two entries, none is logged as an error and answered, or with a cost*)
(* and failed, whatever the attempts before it did and whoever waits for   *)
(* it.  And the log is complete for the answers of the endpoints, which all*)
(* have their cost, and for the errors of /judgment once there is an       *)
(* adapter.  (Of the other errors, of the queue's calls and of calls that  *)
(* died with the process it demands nothing.)                              *)
AuditMatchesAnswers ==
    \A c \in Calls :
        LET answered == call[c].phase = "answered" /\ call[c].entry # "queue"
            refused == /\ call[c].phase \in {"failed", "rejected"}
                       /\ call[c].entry = "judgment" /\ provider # "unknown"
        IN  /\ Len(audit[c]) <= 1 /\ (answered \/ refused => Len(audit[c]) = 1)
            /\ \A i \in DOMAIN audit[c] :
                 \/ /\ call[c].phase = "answered"
                    /\ audit[c][i] = [task |-> LoggedTask(call[c].task), error |-> FALSE]
                 \/ /\ call[c].phase \in {"failed", "rejected"}
                    /\ audit[c][i] = [task |-> RequestedTask(call[c].task), error |-> TRUE]
=============================================================================
