---------------------------- MODULE DisputeTriage ----------------------------
(***************************************************************************)
(* Dispute triage (automation_engine/app/services/dispute_service.py): the *)
(* request, its attempts to reach the AI judgment service, the service's   *)
(* own work on each attempt, and the row of the dispute.                   *)
(*                                                                         *)
(* ServiceClient.request() sends up to ClientRetries attempts; its timeout *)
(* (8 s) is far below what the service may take, which goes on with a call *)
(* nobody waits for.  Every triage has a client, and so a breaker, of its  *)
(* own, which sees one outcome and never opens.  The columns rationale and *)
(* suggested_response go the way of confidence.                            *)
(***************************************************************************)
EXTENDS AIJudgment, AutomationRules

CONSTANTS Triages,
          Disputes,
          ClientRetries,   \* attempts of ServiceClient.request (3)
          Messages, OrderValues, Priors,   \* what the requests carry
          Malformed,       \* a confidence float() does not read
          NaN              \* a "nan", which it does

ASSUME TriageAssumption ==
    /\ ClientRetries \in Nat \ {0}
    /\ Triages \X (1..ClientRetries) \subseteq Calls
    /\ \A m \in Messages : m \subseteq Signals
    /\ OrderValues \subseteq Nat /\ Priors \subseteq Nat
    /\ Confidences \subseteq Int \union {Malformed, NaN}
    /\ Malformed \notin Int \union {NaN} /\ NaN \notin Int /\ Missing \notin Int

VARIABLES triage,   \* how far each request got
          row,      \* the row of each dispute
          decided,  \* history: the decisions taken on each dispute
          overlapped,  \* history: disputes with two overlapping writes
          lost    \* history: disputes a caller got an error for

triageVars == <<triage, row, decided, overlapped, lost>>
allVars == <<provider, call, audit, triage, row, decided, overlapped, lost>>

Verdicts == {"auto_resolve", "escalate", "needs_human"}

(* In percent.  A model's are not held to 0..100, neither here nor by the  *)
(* contract.                                                               *)
Decision == [verdict : Verdicts, confidence : Int \union {NaN}]
NoRow == [absent |-> TRUE]
NotSubmitted == [phase |-> "idle"]
RuleDecisions == {RuleBasedTriage(m, v, p) : m \in Messages, v \in OrderValues, p \in Priors}

(* A dispute may have a row from an earlier triage.                        *)
TriageInit == /\ JudgmentInit
              /\ triage = [r \in Triages |-> NotSubmitted]
              /\ row \in [Disputes -> RuleDecisions \union {NoRow}]
              /\ decided = [d \in Disputes |-> {row[d]} \ {NoRow}]
              /\ overlapped = {} /\ lost = {}

-----------------------------------------------------------------------------
(* What a result makes of the rules' decision.  A missing confidence is    *)
(* the rules' own, an empty one is 0, one that is no number discards the   *)
(* answer, one below 60 percent leaves the verdict to a human; a NaN is not*)
(* below.                                                                  *)
AiDecision(base, result) ==
    LET verdict == IF result.answer \in Verdicts THEN result.answer ELSE base.verdict
        confidence == IF result.confidence = Missing THEN base.confidence ELSE result.confidence
        doubtful == confidence # NaN /\ confidence < 60
    IN  IF confidence = Malformed THEN base
        ELSE [verdict |-> IF doubtful THEN "needs_human" ELSE verdict, confidence |-> confidence]

(* The request has its decision and goes on to persist it.                 *)
Settle(r, decision) ==
    LET t == triage[r]
    IN  /\ triage' = [triage EXCEPT ![r] =
                        [phase |-> "decided", dispute |-> t.dispute, decision |-> decision]]
        /\ decided' = [decided EXCEPT ![t.dispute] = @ \union {decision}]

(* triage_dispute(): without use_ai the rules decide at once.              *)
Submit(r, d, base, useAi) ==
    /\ triage[r] = NotSubmitted
    /\ triage' = [triage EXCEPT ![r] =
                    IF useAi THEN [phase |-> "sending", dispute |-> d, base |-> base, attempt |-> 1]
                    ELSE [phase |-> "decided", dispute |-> d, decision |-> base]]
    /\ decided' = [decided EXCEPT ![d] = IF useAi THEN @ ELSE @ \union {base}]
    /\ UNCHANGED <<provider, call, audit, row, overlapped, lost>>

(* The attempt in progress, as a call of the service.                      *)
Attempt(r) == <<r, triage[r].attempt>>

Send(r) ==
    /\ triage[r].phase = "sending"
    /\ Ask(Attempt(r), "judgment", "judge")
    /\ triage' = [triage EXCEPT ![r].phase = "waiting"]
    /\ UNCHANGED <<row, decided, overlapped, lost>>

(* Faulty variant: the last error is swallowed and the loop starts anew.   *)
FallBackOrRetryForever(r) ==
    /\ triage' = [triage EXCEPT ![r].phase = "sending",
                    ![r].attempt = IF @ < ClientRetries THEN @ + 1 ELSE @]
    /\ UNCHANGED decided

(* After an HTTPError or a 5xx: one more attempt, or, from the last one's  *)
(* exception or response, the rules' decision.                             *)
RetryOrFallBack(r) ==
    IF triage[r].attempt < ClientRetries
      THEN /\ triage' = [triage EXCEPT ![r].phase = "sending", ![r].attempt = @ + 1]
           /\ UNCHANGED decided
      ELSE Settle(r, triage[r].base)

(* The service cannot be reached.                                          *)
Unreachable(r) ==
    /\ triage[r].phase = "sending"
    /\ RetryOrFallBack(r)
    /\ UNCHANGED <<provider, call, audit, row, overlapped, lost>>

(* No response within the timeout; the service does not hear of it.        *)
TimesOut(r) ==
    /\ triage[r].phase = "waiting" /\ call[Attempt(r)].phase = "waiting"
    /\ RetryOrFallBack(r)
    /\ UNCHANGED <<provider, call, audit, row, overlapped, lost>>

(* The response arrives, or the connection breaks with the service.        *)
Receive(r) ==
    /\ triage[r].phase = "waiting" /\ call[Attempt(r)].phase # "waiting"
    /\ IF call[Attempt(r)].phase = "answered"
         THEN Settle(r, AiDecision(triage[r].base, call[Attempt(r)].result))
         ELSE RetryOrFallBack(r)
    /\ UNCHANGED <<provider, call, audit, row, overlapped, lost>>

-----------------------------------------------------------------------------
(* persist_triage() up to the select.                                      *)
Load(r) ==
    LET t == triage[r]
    IN  /\ t.phase = "decided"
        /\ triage' = [triage EXCEPT ![r] = [phase |-> "writing", dispute |-> t.dispute,
                                            decision |-> t.decision, found |-> row[t.dispute]]]
        /\ overlapped' = IF \E q \in Triages : /\ triage[q].phase = "writing"
                                             /\ triage[q].dispute = t.dispute
                        THEN overlapped \union {t.dispute} ELSE overlapped
        /\ UNCHANGED <<provider, call, audit, row, decided, lost>>

Finished == [phase |-> "finished"]

(* dispute_id is unique: a second insert raises and the triage is lost.    *)
Insert(r) ==
    LET t == triage[r]
    IN  /\ t.phase = "writing" /\ t.found = NoRow
        /\ IF row[t.dispute] = NoRow
             THEN row' = [row EXCEPT ![t.dispute] = t.decision] /\ UNCHANGED lost
             ELSE lost' = lost \union {t.dispute} /\ UNCHANGED row
        /\ triage' = [triage EXCEPT ![r] = Finished]
        /\ UNCHANGED <<provider, call, audit, decided, overlapped>>

(* Faulty variant: the update sets the verdict only.                       *)
UpdateVerdict(r) ==
    LET t == triage[r]
    IN  /\ t.phase = "writing" /\ t.found # NoRow
        /\ row' = [row EXCEPT ![t.dispute].verdict = t.decision.verdict]
        /\ triage' = [triage EXCEPT ![r] = Finished]
        /\ UNCHANGED <<provider, call, audit, decided, overlapped, lost>>

Update(r) ==
    LET t == triage[r]
    IN  /\ t.phase = "writing" /\ t.found # NoRow
        /\ row' = [row EXCEPT ![t.dispute] = Flush(t.found, t.decision, @)]
        /\ triage' = [triage EXCEPT ![r] = Finished]
        /\ UNCHANGED <<provider, call, audit, decided, overlapped, lost>>

(* The database fails or the engine dies: the caller gets an error, or     *)
(* none, and nothing is stored.                                            *)
Abort(r) ==
    /\ triage[r].phase \in {"sending", "waiting", "decided", "writing"}
    /\ triage' = [triage EXCEPT ![r] = Finished]
    /\ UNCHANGED <<provider, call, audit, row, decided, overlapped, lost>>

-----------------------------------------------------------------------------
Reach(r) == Send(r) \/ Unreachable(r)
Await(r) == TimesOut(r) \/ Receive(r)
Persist(r) == Load(r) \/ Insert(r) \/ Update(r)

(* The service's steps leave the engine alone.                             *)
ServiceStep == /\ \/ \E c \in Calls : Serve(c)
                  \/ ServiceDies
               /\ UNCHANGED triageVars

TriageNext ==
    \/ \E r \in Triages :
         \/ \E d \in Disputes, base \in RuleDecisions, ai \in BOOLEAN : Submit(r, d, base, ai)
         \/ Reach(r) \/ Await(r) \/ Persist(r) \/ Abort(r)
    \/ ServiceStep

(* The engine's own steps are taken: the back-off ends, the timeout fires, *)
(* the database answers.  Nothing is assumed of the AI service.            *)
TriageFairness ==
    \A r \in Triages : WF_allVars(Reach(r)) /\ WF_allVars(Await(r)) /\ WF_allVars(Persist(r))
TriageSpec == TriageInit /\ [][TriageNext]_allVars /\ TriageFairness

-----------------------------------------------------------------------------
Triage ==
    {NotSubmitted, Finished}
    \union [phase : {"sending", "waiting"}, dispute : Disputes, base : Decision,
            attempt : 1..ClientRetries]
    \union [phase : {"decided"}, dispute : Disputes, decision : Decision]
    \union [phase : {"writing"}, dispute : Disputes, decision : Decision,
            found : Decision \union {NoRow}]

TriageTypeOK == /\ JudgmentTypeOK
                /\ triage \in [Triages -> Triage]
                /\ row \in [Disputes -> Decision \union {NoRow}]
                /\ decided \in [Disputes -> SUBSET Decision]
                /\ overlapped \subseteq Disputes /\ lost \subseteq Disputes

(* Unless two writes of a dispute overlapped, its row is one decision as a *)
(* whole and no triage is lost to the unique key, however the waits for the*)
(* AI service went: no verdict of one triage stands with the confidence of *)
(* another.  (Two overlapping updates write only the columns they changed, *)
(* and may leave exactly that.)                                            *)
RowIsOneDecision ==
    /\ lost \subseteq overlapped
    /\ \A d \in Disputes : row[d] # NoRow /\ d \notin overlapped => row[d] \in decided[d]

(* Every triage that is submitted ends, whatever becomes of the AI service:*)
(* a provider that hangs, errors, or a service that dies.                  *)
EveryTriageEnds ==
    \A r \in Triages : triage[r].phase = "sending" ~> triage[r] = Finished

(* The steps a submitted triage has left, two for an attempt and two for   *)
(* its row.                                                                *)
StepsLeft(t) ==
    CASE t.phase = "sending" -> 4 + 2 * (ClientRetries - t.attempt)
      [] t.phase = "waiting" -> 3 + 2 * (ClientRetries - t.attempt)
      [] t.phase = "decided" -> 2
      [] t.phase = "writing" -> 1
      [] t.phase = "finished" -> 0

(* No timeout, refusal, error or late answer takes a triage back: each step*)
(* leaves it fewer, so it reaches the service at most ClientRetries times  *)
(* and waits for it no more often.                                         *)
TriageOnlyAdvances ==
    [][\A r \in Triages : triage[r] # NotSubmitted /\ triage'[r] # triage[r]
                             => StepsLeft(triage'[r]) < StepsLeft(triage[r])]_allVars
=============================================================================
