---------------------------- MODULE DecisionsProofs ----------------------------
(***************************************************************************)
(* The automation engine's decisions.                                      *)
(*                                                                         *)
(* The compensation table, for every set of delays, values and tiers: what *)
(* a decision gives depends on its inputs only (DecidedByRule), and the    *)
(* rules are monotonic and agree with the delay check.                     *)
(*                                                                         *)
(* The AI service, for any calls and any answers: the log of a call is     *)
(* what its attempts left Due (AuditIsDue).                                *)
(*                                                                         *)
(* Dispute triage, for any triages and disputes: its steps are steps of    *)
(* the service, and while no two writes of a dispute overlapped the one    *)
(* that writes has read the row as it is (FoundHolds).                     *)
(***************************************************************************)
EXTENDS Decisions, DisputeTriage, SequenceTheorems, TLAPS

Kinds == {"reject", "coupon", "refund_partial", "refund_full"}
TableRow == [delay : Nat, value : Nat, tier : Tiers, decision : Kinds, amount : Nat]

(* Every row is what the rules make of its inputs.                         *)
DecidedByRule ==
    \A i \in DOMAIN compensations :
       LET c == compensations[i]
           d == DecideCompensation(c.delay, c.value, c.tier)
       IN  c.decision = d.decision /\ c.amount = d.amount

TableInv == compensations \in Seq(TableRow) /\ DecidedByRule

-----------------------------------------------------------------------------
(* A partial refund is at least nothing and at most the value.             *)
LEMMA PartialWithinValue ==
  ASSUME NEW value \in Nat
  PROVE  PartialRefund(value) \in Nat /\ PartialRefund(value) <= value
<1>1. value \div 5 \in Nat
  OBVIOUS
<1>. QED
  BY <1>1 DEF PartialRefund

(* What a decision is, its kind and its amount, in the words of the rules. *)
LEMMA DecisionCases ==
  ASSUME NEW delay \in Nat, NEW value \in Nat, NEW tier,
         NEW kind, NEW amount,
         kind = DecideCompensation(delay, value, tier).decision,
         amount = DecideCompensation(delay, value, tier).amount
  PROVE  \/ ~IsCompensationEligible(delay, value, tier) /\ kind = "reject" /\ amount = 0
         \/ IsCompensationEligible(delay, value, tier) /\ delay >= 10
              /\ kind = "refund_full" /\ amount = value
         \/ IsCompensationEligible(delay, value, tier) /\ delay < 10
              /\ (delay >= 5 \/ value >= 10000)
              /\ kind = "refund_partial" /\ amount = PartialRefund(value)
         \/ IsCompensationEligible(delay, value, tier) /\ delay < 5 /\ value < 10000
              /\ kind = "coupon" /\ amount = 0
<1>1. CASE ~IsCompensationEligible(delay, value, tier)
  BY <1>1 DEF DecideCompensation
<1>2. CASE IsCompensationEligible(delay, value, tier) /\ delay >= 10
  BY <1>2 DEF DecideCompensation
<1>3. CASE /\ IsCompensationEligible(delay, value, tier) /\ delay < 10
           /\ delay >= 5 \/ value >= 10000
  BY <1>3 DEF DecideCompensation
<1>4. CASE IsCompensationEligible(delay, value, tier) /\ delay < 5 /\ value < 10000
  BY <1>4 DEF DecideCompensation
<1>. QED
  BY <1>1, <1>2, <1>3, <1>4

LEMMA DecisionType ==
  ASSUME NEW delay \in Nat, NEW value \in Nat, NEW tier
  PROVE  LET d == DecideCompensation(delay, value, tier)
         IN  d.decision \in Kinds /\ d.amount \in Nat /\ d.amount <= value
<1>. DEFINE d == DecideCompensation(delay, value, tier)
<1>1. PartialRefund(value) \in Nat /\ PartialRefund(value) <= value
  BY PartialWithinValue
<1>. QED
  BY <1>1, DecisionCases DEF Kinds

-----------------------------------------------------------------------------
(* The invariant: the table only grows, by rows the rules decide.          *)
LEMMA TableInitInv == TableInit => TableInv
BY DEF TableInit, TableInv, DecidedByRule

LEMMA TableNextInv == TableInv /\ [TableNext]_compensations => TableInv'
<1>. SUFFICES ASSUME TableInv, [TableNext]_compensations PROVE TableInv'
  OBVIOUS
<1>1. CASE UNCHANGED compensations
  BY <1>1 DEF TableInv, DecidedByRule
<1>2. ASSUME NEW delay \in Delays, NEW value \in Prices, NEW tier \in Tiers,
             Decide(delay, value, tier)
      PROVE  TableInv'
  <2>. DEFINE d == DecideCompensation(delay, value, tier)
              new == [delay |-> delay, value |-> value, tier |-> tier,
                      decision |-> d.decision, amount |-> d.amount]
  <2>1. compensations' = Append(compensations, new)
    BY <1>2 DEF Decide
  <2>2. delay \in Nat /\ value \in Nat
    BY DecisionsAssumption
  <2>3. d.decision \in Kinds /\ d.amount \in Nat
    BY <2>2, DecisionType
  <2>4. new \in TableRow
    BY <2>2, <2>3 DEF TableRow
  <2>. HIDE DEF d
  <2>5. compensations' \in Seq(TableRow)
    BY <2>1, <2>4 DEF TableInv
  <2>6. ASSUME NEW i \in DOMAIN compensations'
        PROVE  LET c == compensations'[i]
                   e == DecideCompensation(c.delay, c.value, c.tier)
               IN  c.decision = e.decision /\ c.amount = e.amount
    <3>1. CASE i \in DOMAIN compensations
      <4>1. compensations'[i] = compensations[i]
        BY <2>1, <2>4, <3>1 DEF TableInv
      <4>. QED
        BY <4>1, <3>1 DEF TableInv, DecidedByRule
    <3>2. CASE i \notin DOMAIN compensations
      <4>1. compensations'[i] = new
        BY <2>1, <2>4, <2>6, <3>2 DEF TableInv
      <4>. QED
        BY <4>1 DEF d
    <3>. QED
      BY <3>1, <3>2
  <2>. QED
    BY <2>5, <2>6 DEF TableInv, DecidedByRule
<1>. QED
  BY <1>1, <1>2 DEF TableNext

LEMMA TableInvariant == TableSpec => []TableInv
BY TableInitInv, TableNextInv, PTL DEF TableSpec

(* For any table: no refund exceeds the value, only a refund has an amount.*)
THEOREM TableRefundWithinValue == TableSpec => []RefundWithinValue
<1>1. TableInv => RefundWithinValue
  <2>. SUFFICES ASSUME TableInv, NEW i \in DOMAIN compensations
                PROVE  /\ compensations[i].amount \in 0..compensations[i].value
                       /\ compensations[i].amount > 0 => Rank(compensations[i].decision) >= 2
    BY DEF RefundWithinValue
  <2>. DEFINE c == compensations[i]
  <2>1. c \in TableRow
    BY DEF TableInv
  <2>2. /\ c.decision = DecideCompensation(c.delay, c.value, c.tier).decision
        /\ c.amount = DecideCompensation(c.delay, c.value, c.tier).amount
    BY DEF TableInv, DecidedByRule
  <2>3. c.delay \in Nat /\ c.value \in Nat /\ c.amount \in Nat
    BY <2>1 DEF TableRow
  <2>. HIDE DEF c
  <2>4. PartialRefund(c.value) \in Nat /\ PartialRefund(c.value) <= c.value
    BY <2>3, PartialWithinValue
  <2>5. \/ c.decision = "reject" /\ c.amount = 0
        \/ c.decision = "refund_full" /\ c.amount = c.value
        \/ c.decision = "refund_partial" /\ c.amount = PartialRefund(c.value)
        \/ c.decision = "coupon" /\ c.amount = 0
    BY <2>2, <2>3, DecisionCases
  <2>6. c.amount \in 0..c.value /\ (c.amount > 0 => Rank(c.decision) >= 2)
    BY <2>3, <2>4, <2>5 DEF Rank
  <2>. QED
    BY <2>6 DEF c
<1>. QED
  BY <1>1, TableInvariant, PTL

-----------------------------------------------------------------------------
(* A longer delay, and the vip tier, never make an order ineligible.       *)
LEMMA EligibleStays ==
  ASSUME NEW early \in Nat, NEW late \in Nat, NEW value \in Nat, NEW tier, NEW other,
         early <= late, tier = other \/ other = "vip",
         IsCompensationEligible(early, value, tier)
  PROVE  IsCompensationEligible(late, value, other)
BY DEF IsCompensationEligible

(* The rules are monotonic: in the kind of the decision and its amount.    *)
LEMMA DecisionMonotonic ==
  ASSUME NEW early \in Nat, NEW late \in Nat, NEW value \in Nat, NEW tier, NEW other,
         early <= late, tier = other \/ other = "vip",
         NEW k, NEW a, k = DecideCompensation(early, value, tier).decision,
         a = DecideCompensation(early, value, tier).amount,
         NEW l, NEW b, l = DecideCompensation(late, value, other).decision,
         b = DecideCompensation(late, value, other).amount
  PROVE  Rank(k) <= Rank(l) /\ a <= b
<1>1. PartialRefund(value) \in Nat /\ PartialRefund(value) <= value
  BY PartialWithinValue
<1>2. IsCompensationEligible(early, value, tier) => IsCompensationEligible(late, value, other)
  BY EligibleStays
<1>3. \/ ~IsCompensationEligible(early, value, tier) /\ k = "reject" /\ a = 0
      \/ IsCompensationEligible(early, value, tier) /\ early >= 10
           /\ k = "refund_full" /\ a = value
      \/ IsCompensationEligible(early, value, tier) /\ early < 10
           /\ (early >= 5 \/ value >= 10000)
           /\ k = "refund_partial" /\ a = PartialRefund(value)
      \/ IsCompensationEligible(early, value, tier) /\ early < 5 /\ value < 10000
           /\ k = "coupon" /\ a = 0
  BY DecisionCases
<1>4. \/ ~IsCompensationEligible(late, value, other) /\ l = "reject" /\ b = 0
      \/ IsCompensationEligible(late, value, other) /\ late >= 10
           /\ l = "refund_full" /\ b = value
      \/ IsCompensationEligible(late, value, other) /\ late < 10
           /\ (late >= 5 \/ value >= 10000)
           /\ l = "refund_partial" /\ b = PartialRefund(value)
      \/ IsCompensationEligible(late, value, other) /\ late < 5 /\ value < 10000
           /\ l = "coupon" /\ b = 0
  BY DecisionCases
<1>5. /\ Rank("reject") = 0 /\ Rank("coupon") = 1
      /\ Rank("refund_partial") = 2 /\ Rank("refund_full") = 3
  BY DEF Rank
<1>. QED
  BY <1>1, <1>2, <1>3, <1>4, <1>5

(* What a check suggests, the decision on the same delay gives.            *)
LEMMA SuggestionMet ==
  ASSUME NEW delay \in Nat, NEW value \in Nat, NEW tier,
         NEW service \in {"express", "standard", "economy"},
         NEW k, k = DecideCompensation(delay, value, tier).decision
  PROVE  /\ Promise(DelayResult(delay, service).action) <= Rank(k)
         /\ DelayResult(delay, service).eligible /\ value >= 2000 => k # "reject"
<1>. DEFINE r == DelayResult(delay, service)
<1>1. \/ ~IsCompensationEligible(delay, value, tier) /\ k = "reject"
      \/ IsCompensationEligible(delay, value, tier) /\ delay >= 10 /\ k = "refund_full"
      \/ IsCompensationEligible(delay, value, tier) /\ delay < 10 /\ k = "refund_partial"
      \/ IsCompensationEligible(delay, value, tier) /\ delay < 5 /\ k = "coupon"
  BY DecisionCases
<1>2. /\ Rank("reject") = 0 /\ Rank("coupon") = 1
      /\ Rank("refund_partial") = 2 /\ Rank("refund_full") = 3
  BY DEF Rank
<1>3. ThresholdFor(service) \in {2, 3, 5}
  BY DEF ThresholdFor
<1>4. r.eligible => delay >= ThresholdFor(service)
  <2>1. ASSUME NEW a, NEW b, NEW e, NEW d
        PROVE  [days |-> a, delayed |-> b, eligible |-> e, action |-> d].eligible = e
    OBVIOUS
  <2>. DEFINE e == /\ delay >= ThresholdFor(service)
                   /\ IsCompensationEligible(delay, 5000, "standard")
  <2>2. r.eligible = e
    BY <2>1, Zenon DEF DelayResult
  <2>3. e => delay >= ThresholdFor(service)
    OBVIOUS
  <2>. HIDE DEF r, e
  <2>4. r.eligible => e
    BY <2>2, Zenon
  <2>. QED
    BY <2>3, <2>4
<1>5. \/ r.action \in {"none", "monitor"}
      \/ r.action = "coupon" /\ delay >= 5
      \/ r.action = "refund" /\ delay >= 10
  BY <1>3 DEF DelayResult
<1>. HIDE DEF r
<1>6. \/ Promise(r.action) = 0
      \/ Promise(r.action) = 1 /\ delay >= 5
      \/ Promise(r.action) = 3 /\ delay >= 10
  BY <1>5 DEF Promise
<1>7. delay >= 5 => IsCompensationEligible(delay, value, tier)
  BY DEF IsCompensationEligible
<1>8. r.eligible /\ value >= 2000 => IsCompensationEligible(delay, value, tier)
  <2>1. r.eligible => delay >= 2
    BY <1>3, <1>4
  <2>. QED
    BY <2>1 DEF IsCompensationEligible
<1>9. Promise(r.action) <= Rank(k)
  BY <1>1, <1>2, <1>6, <1>7
<1>10. r.eligible /\ value >= 2000 => k # "reject"
  BY <1>1, <1>8
<1>. QED
  BY <1>9, <1>10 DEF r

(* For any table: whoever waits longer never gets less, and what a check   *)
(* suggests is kept.                                                       *)
THEOREM TableOffersConsistent == TableSpec => []OffersConsistent
<1>1. ASSUME TableInv, NEW i \in DOMAIN compensations
      PROVE  LET c == compensations[i]
             IN  /\ c.delay \in Nat /\ c.value \in Nat
                 /\ c.decision = DecideCompensation(c.delay, c.value, c.tier).decision
                 /\ c.amount = DecideCompensation(c.delay, c.value, c.tier).amount
  <2>1. compensations[i] \in TableRow
    BY <1>1 DEF TableInv
  <2>. QED
    BY <1>1, <2>1 DEF TableInv, DecidedByRule, TableRow
<1>2. TableInv => LaterNeverCheaper
  <2>. SUFFICES ASSUME TableInv, NEW i \in DOMAIN compensations, NEW j \in DOMAIN compensations,
                       compensations[i].value = compensations[j].value,
                       compensations[i].delay <= compensations[j].delay,
                       \/ compensations[i].tier = compensations[j].tier
                       \/ compensations[j].tier = "vip"
                PROVE  /\ Rank(compensations[i].decision) <= Rank(compensations[j].decision)
                       /\ compensations[i].amount <= compensations[j].amount
    BY DEF LaterNeverCheaper
  <2>. QED
    BY <1>1, DecisionMonotonic
<1>3. TableInv => SuggestionIsKept
  <2>. SUFFICES ASSUME TableInv, NEW i \in DOMAIN compensations,
                       NEW s \in {"express", "standard", "economy"}
                PROVE  LET c == compensations[i]
                           r == DelayResult(c.delay, s)
                       IN  /\ Promise(r.action) <= Rank(c.decision)
                           /\ r.eligible /\ c.value >= 2000 => c.decision # "reject"
    BY DEF SuggestionIsKept
  <2>. QED
    BY <1>1, SuggestionMet
<1>4. TableInv => OffersConsistent
  BY <1>2, <1>3 DEF OffersConsistent
<1>. QED
  BY <1>4, TableInvariant, PTL

-----------------------------------------------------------------------------
(* What an entry of the log says is a task, and a rejected or failed call  *)
(* still is a call.                                                        *)
LEMMA CallCases ==
  ASSUME JudgmentTypeOK, NEW c \in Calls
  PROVE  /\ call[c] \in CallType
         /\ call[c].phase \in {"idle", "waiting", "failed", "rejected", "lost", "answered"}
         /\ call[c].phase # "idle" => /\ call[c].entry \in Entries /\ call[c].task \in Tasks
                                      /\ call[c].attempt \in 0..MaxRetries
         /\ call[c].phase = "idle" => call[c] = NotCalled
         /\ call[c].phase = "answered" => call[c].result \in Replies
<1>1. call[c] \in CallType
  BY DEF JudgmentTypeOK
<1>. QED
  BY <1>1 DEF CallType, NotCalled

LEMMA LoggedTasks ==
  ASSUME NEW t \in Tasks
  PROVE  LoggedTask(t) \in Tasks /\ RequestedTask(t) \in Tasks
BY DEF LoggedTask, RequestedTask, Tasks

(* A result is a reply, whatever was replaced in it.                       *)
LEMMA ResultType ==
  ASSUME NEW task, NEW reply \in Replies
  PROVE  Result(task, reply) \in Replies
<1>1. (CHOOSE l \in Labels : TRUE) \in Answers
  BY JudgmentAssumption
<1>2. reply.confidence \in Confidences \union {Missing}
  BY DEF Replies
<1>. QED
  BY <1>1, <1>2 DEF Result, Replies

(* An entry joins the log of one call.                                     *)
LEMMA AuditAppended ==
  ASSUME JudgmentTypeOK, NEW c \in Calls, NEW x \in [task : Tasks, error : BOOLEAN],
         audit' = [audit EXCEPT ![c] = Append(@, x)]
  PROVE  /\ audit' \in [Calls -> Seq([task : Tasks, error : BOOLEAN])]
         /\ audit'[c] = Append(audit[c], x)
         /\ \A d \in Calls \ {c} : audit'[d] = audit[d]
<1>. DEFINE E == [task : Tasks, error : BOOLEAN]
<1>1. audit \in [Calls -> Seq(E)] /\ x \in E
  BY DEF JudgmentTypeOK
<1>. HIDE DEF E
<1>2. Append(audit[c], x) \in Seq(E)
  BY <1>1
<1>. QED
  BY <1>1, <1>2 DEF E

LEMMA AppendedToNothing == ASSUME NEW x PROVE Append(<<>>, x) = <<x>>
<1>1. <<>> \in Seq({x}) /\ <<x>> \in Seq({x}) /\ Len(<<x>>) = 1 /\ <<x>>[1] = x
  OBVIOUS
<1>2. Append(<<>>, x) \in Seq({x}) /\ Len(Append(<<>>, x)) = 1 /\ Append(<<>>, x)[1] = x
  BY <1>1, AppendProperties
<1>. QED
  BY <1>1, <1>2, SeqEqual

(* The entries that a call has by its state, with the adapter's.           *)
Due(p, k) == IF k.phase = "answered" /\ k.entry # "queue"
               THEN <<[task |-> LoggedTask(k.task), error |-> FALSE]>>
             ELSE IF k.phase \in {"failed", "rejected"} /\ k.entry = "judgment" /\ p # "unknown"
               THEN <<[task |-> RequestedTask(k.task), error |-> TRUE]>>
             ELSE << >>

(* Only an adapter with a key and a client makes a call wait.              *)
JudgmentInv == /\ JudgmentTypeOK
               /\ \A c \in Calls : /\ audit[c] = Due(provider, call[c])
                                   /\ call[c].phase = "waiting" => provider = "hosted"

LEMMA AuditIsDue == JudgmentInv => AuditMatchesAnswers
<1>. SUFFICES ASSUME JudgmentInv, NEW c \in Calls
              PROVE  LET answered == call[c].phase = "answered" /\ call[c].entry # "queue"
                         refused == /\ call[c].phase \in {"failed", "rejected"}
                                    /\ call[c].entry = "judgment" /\ provider # "unknown"
                     IN  /\ Len(audit[c]) <= 1 /\ (answered \/ refused => Len(audit[c]) = 1)
                         /\ \A i \in DOMAIN audit[c] :
                              \/ /\ call[c].phase = "answered"
                                 /\ audit[c][i] = [task |-> LoggedTask(call[c].task), error |-> FALSE]
                              \/ /\ call[c].phase \in {"failed", "rejected"}
                                 /\ audit[c][i] = [task |-> RequestedTask(call[c].task), error |-> TRUE]
  BY DEF AuditMatchesAnswers
<1>. DEFINE k == call[c]
            x == [task |-> LoggedTask(k.task), error |-> FALSE]
            y == [task |-> RequestedTask(k.task), error |-> TRUE]
            answered == k.phase = "answered" /\ k.entry # "queue"
            refused == k.phase \in {"failed", "rejected"} /\ k.entry = "judgment" /\ provider # "unknown"
<1>1. audit[c] = IF answered THEN <<x>> ELSE IF refused THEN <<y>> ELSE << >>
  BY DEF JudgmentInv, Due
<1>. HIDE DEF x, y
<1>2. ASSUME NEW z PROVE Len(<<z>>) = 1 /\ \A i \in DOMAIN <<z>> : <<z>>[i] = z
  OBVIOUS
<1>3. Len(<< >>) = 0 /\ DOMAIN << >> = {}
  OBVIOUS
<1>4. CASE answered
  <2>1. audit[c] = <<x>>
    BY <1>1, <1>4
  <2>2. Len(audit[c]) = 1 /\ \A i \in DOMAIN audit[c] : audit[c][i] = x
    BY <1>2, <2>1, Zenon
  <2>3. Len(audit[c]) <= 1
    BY <2>2
  <2>. QED
    BY <1>4, <2>2, <2>3, Zenon DEF x
<1>5. CASE ~answered /\ refused
  <2>1. audit[c] = <<y>>
    BY <1>1, <1>5
  <2>2. Len(audit[c]) = 1 /\ \A i \in DOMAIN audit[c] : audit[c][i] = y
    BY <1>2, <2>1, Zenon
  <2>3. Len(audit[c]) <= 1
    BY <2>2
  <2>. QED
    BY <1>5, <2>2, <2>3, Zenon DEF y
<1>6. CASE ~answered /\ ~refused
  <2>1. audit[c] = << >>
    BY <1>1, <1>6
  <2>. QED
    BY <1>3, <1>6, <2>1
<1>. QED
  BY <1>4, <1>5, <1>6

LEMMA JudgmentInitInv == JudgmentInit => JudgmentInv
BY DEF JudgmentInit, JudgmentInv, JudgmentTypeOK, CallType, NotCalled, Due

(* Logging an error, or a result, leaves the call what is due to it.       *)
LEMMA ErrorLogged ==
  ASSUME JudgmentInv, NEW c \in Calls, NEW k, k.phase = "failed" \/ k.phase = "rejected",
         NEW e \in Entries, NEW t \in Tasks, k.entry = e, k.task = t, Due(provider, call[c]) = <<>>,
         k \in CallType, call' = [call EXCEPT ![c] = k], UNCHANGED provider,
         IF provider = "unknown" THEN UNCHANGED audit ELSE LogError(c, e, t)
  PROVE  JudgmentInv'
<1>. DEFINE x == [task |-> RequestedTask(k.task), error |-> TRUE]
<1>1. x \in [task : Tasks, error : BOOLEAN]
  BY LoggedTasks
<1>2. call' \in [Calls -> CallType] /\ call'[c] = k /\ \A d \in Calls \ {c} : call'[d] = call[d]
  BY DEF JudgmentInv, JudgmentTypeOK
<1>3. Due(provider, k) = IF k.entry = "judgment" /\ provider # "unknown" THEN <<x>> ELSE <<>>
  BY DEF Due
<1>. HIDE DEF x
<1>4. CASE k.entry = "judgment" /\ provider # "unknown"
  <2>1. audit' = [audit EXCEPT ![c] = Append(@, x)]
    BY <1>4 DEF LogError, x
  <2>2. /\ audit' \in [Calls -> Seq([task : Tasks, error : BOOLEAN])]
        /\ audit'[c] = Append(audit[c], x)
        /\ \A d \in Calls \ {c} : audit'[d] = audit[d]
    BY <1>1, <2>1, AuditAppended DEF JudgmentInv
  <2>3. audit'[c] = <<x>>
    BY <2>2, AppendedToNothing DEF JudgmentInv
  <2>. QED
    BY <1>2, <1>3, <1>4, <2>2, <2>3 DEF JudgmentInv, JudgmentTypeOK
<1>5. CASE ~(k.entry = "judgment" /\ provider # "unknown")
  <2>1. audit' = audit
    BY <1>5 DEF LogError
  <2>. QED
    BY <1>2, <1>3, <1>5, <2>1 DEF JudgmentInv, JudgmentTypeOK
<1>. QED
  BY <1>4, <1>5

LEMMA ResultLogged ==
  ASSUME JudgmentInv, NEW c \in Calls, NEW k, k.phase = "answered",
         k.entry \in Entries, k.task \in Tasks, Due(provider, call[c]) = <<>>,
         k \in CallType, call' = [call EXCEPT ![c] = k], LogResult(c, k.entry, k.task), UNCHANGED provider
  PROVE  JudgmentInv'
<1>. DEFINE x == [task |-> LoggedTask(k.task), error |-> FALSE]
<1>1. x \in [task : Tasks, error : BOOLEAN]
  BY LoggedTasks
<1>2. call' \in [Calls -> CallType] /\ call'[c] = k /\ \A d \in Calls \ {c} : call'[d] = call[d]
  BY DEF JudgmentInv, JudgmentTypeOK
<1>3. Due(provider, k) = IF k.entry # "queue" THEN <<x>> ELSE <<>>
  BY DEF Due
<1>. HIDE DEF x
<1>4. CASE k.entry # "queue"
  <2>1. audit' = [audit EXCEPT ![c] = Append(@, x)]
    BY <1>4 DEF LogResult, x
  <2>2. /\ audit' \in [Calls -> Seq([task : Tasks, error : BOOLEAN])]
        /\ audit'[c] = Append(audit[c], x)
        /\ \A d \in Calls \ {c} : audit'[d] = audit[d]
    BY <1>1, <2>1, AuditAppended DEF JudgmentInv
  <2>3. audit'[c] = <<x>>
    BY <2>2, AppendedToNothing DEF JudgmentInv
  <2>. QED
    BY <1>2, <1>3, <1>4, <2>2, <2>3 DEF JudgmentInv, JudgmentTypeOK
<1>5. CASE k.entry = "queue"
  <2>1. audit' = audit
    BY <1>5 DEF LogResult
  <2>. QED
    BY <1>2, <1>3, <1>5, <2>1 DEF JudgmentInv, JudgmentTypeOK
<1>. QED
  BY <1>4, <1>5

LEMMA JudgmentNextInv == JudgmentInv /\ [JudgmentNext]_judgmentVars => JudgmentInv'
<1>. SUFFICES ASSUME JudgmentInv, [JudgmentNext]_judgmentVars PROVE JudgmentInv'
  OBVIOUS
<1>0. \A c \in Calls : call[c].phase \in {"idle", "waiting"} => Due(provider, call[c]) = <<>>
  BY DEF Due
<1>1. ASSUME NEW c \in Calls, NEW e \in Entries, NEW t \in Tasks, Ask(c, e, t) PROVE JudgmentInv'
  <2>. DEFINE k == [phase |-> "waiting", entry |-> e, task |-> t, attempt |-> 1]
              f == [phase |-> "failed", entry |-> e, task |-> t, attempt |-> 0]
  <2>1. Due(provider, call[c]) = <<>>
    BY <1>0, <1>1 DEF Ask, NotCalled
  <2>2. CASE provider = "hosted"
    <3>1. call' = [call EXCEPT ![c] = k] /\ UNCHANGED <<audit, provider>>
      BY <1>1, <2>2 DEF Ask
    <3>2. k \in CallType
      BY JudgmentAssumption DEF CallType
    <3>3. Due(provider, k) = <<>>
      BY DEF Due
    <3>. HIDE DEF k
    <3>. QED
      BY <2>1, <2>2, <3>1, <3>2, <3>3 DEF JudgmentInv, JudgmentTypeOK
  <2>3. CASE provider # "hosted"
    <3>1. /\ call' = [call EXCEPT ![c] = f] /\ UNCHANGED provider
          /\ IF provider = "unknown" THEN UNCHANGED audit ELSE LogError(c, e, t)
      BY <1>1, <2>3 DEF Ask
    <3>2. f \in CallType /\ f.phase = "failed" /\ f.entry = e /\ f.task = t
      BY JudgmentAssumption DEF CallType
    <3>. HIDE DEF f
    <3>. QED
      BY <2>1, <3>1, <3>2, ErrorLogged
  <2>. QED
    BY <2>2, <2>3
<1>2. ASSUME NEW c \in Calls, call[c].phase = "waiting"
      PROVE  /\ call[c].entry \in Entries /\ call[c].task \in Tasks
             /\ call[c].attempt \in 0..MaxRetries /\ Due(provider, call[c]) = <<>>
             /\ provider = "hosted"
             /\ call[c] \in [phase : {"waiting", "failed", "rejected", "lost"}, entry : Entries,
                             task : Tasks, attempt : 0..MaxRetries]
  <2>1. call[c] \in CallType
    BY DEF JudgmentInv, JudgmentTypeOK
  <2>. QED
    BY <1>0, <1>2, <2>1 DEF CallType, NotCalled, JudgmentInv
<1>3. ASSUME NEW c \in Calls, ProviderRaises(c) PROVE JudgmentInv'
  <2>1. call[c].phase = "waiting"
    BY <1>3 DEF ProviderRaises
  <2>2. CASE call[c].attempt < MaxRetries
    <3>. DEFINE k == [call[c] EXCEPT !.attempt = @ + 1]
    <3>1. call' = [call EXCEPT ![c] = k] /\ UNCHANGED <<audit, provider>>
      BY <1>3, <2>2 DEF ProviderRaises
    <3>2. k \in CallType /\ k.phase = "waiting"
      BY <1>2, <2>1, <2>2, JudgmentAssumption DEF CallType
    <3>3. Due(provider, k) = <<>>
      BY <3>2 DEF Due
    <3>. HIDE DEF k
    <3>. QED
      BY <1>2, <2>1, <3>1, <3>2, <3>3 DEF JudgmentInv, JudgmentTypeOK
  <2>3. CASE ~(call[c].attempt < MaxRetries)
    <3>. DEFINE k == [call[c] EXCEPT !.phase = "failed"]
    <3>1. call' = [call EXCEPT ![c] = k] /\ LogError(c, call[c].entry, call[c].task) /\ UNCHANGED provider
      BY <1>3, <2>3 DEF ProviderRaises
    <3>2. /\ k \in CallType /\ k.phase = "failed"
          /\ k.entry = call[c].entry /\ k.task = call[c].task
      BY <1>2, <2>1 DEF CallType
    <3>. HIDE DEF k
    <3>. QED
      BY <1>2, <2>1, <3>1, <3>2, ErrorLogged
  <2>. QED
    BY <2>2, <2>3
<1>4. ASSUME NEW c \in Calls, NEW reply \in Replies, ProviderReplies(c, reply) PROVE JudgmentInv'
  <2>1. call[c].phase = "waiting"
    BY <1>4 DEF ProviderReplies
  <2>2. CASE HasResult(call[c].task, reply)
    <3>. DEFINE k == [phase |-> "answered", entry |-> call[c].entry, task |-> call[c].task,
                      attempt |-> call[c].attempt, result |-> Result(call[c].task, reply)]
    <3>1. call' = [call EXCEPT ![c] = k] /\ LogResult(c, k.entry, k.task) /\ UNCHANGED provider
      BY <1>4, <2>2 DEF ProviderReplies
    <3>2. /\ k \in CallType /\ k.phase = "answered"
          /\ k.entry = call[c].entry /\ k.task = call[c].task
      <4>1. Result(call[c].task, reply) \in Replies
        BY ResultType
      <4>. QED
        BY <1>2, <2>1, <4>1 DEF CallType
    <3>. HIDE DEF k
    <3>. QED
      BY <1>2, <2>1, <3>1, <3>2, ResultLogged
  <2>3. CASE ~HasResult(call[c].task, reply)
    <3>. DEFINE k == [call[c] EXCEPT !.phase = "rejected"]
    <3>1. call' = [call EXCEPT ![c] = k] /\ LogError(c, call[c].entry, call[c].task) /\ UNCHANGED provider
      BY <1>4, <2>3 DEF ProviderReplies
    <3>2. /\ k \in CallType /\ k.phase = "rejected"
          /\ k.entry = call[c].entry /\ k.task = call[c].task
      BY <1>2, <2>1 DEF CallType
    <3>. HIDE DEF k
    <3>. QED
      BY <1>2, <2>1, <3>1, <3>2, ErrorLogged
  <2>. QED
    BY <2>2, <2>3
<1>5. CASE ServiceDies
  <2>. DEFINE k(c) == IF call[c].phase = "waiting" THEN [call[c] EXCEPT !.phase = "lost"] ELSE call[c]
  <2>1. call' = [c \in Calls |-> k(c)] /\ UNCHANGED <<audit, provider>>
    BY <1>5 DEF ServiceDies
  <2>2. ASSUME NEW c \in Calls
        PROVE  /\ k(c) \in CallType /\ Due(provider, k(c)) = Due(provider, call[c])
               /\ k(c).phase # "waiting"
    <3>1. CASE call[c].phase = "waiting"
      <4>. DEFINE l == [call[c] EXCEPT !.phase = "lost"]
      <4>1. l \in CallType /\ l.phase = "lost"
        BY <1>2, <3>1 DEF CallType
      <4>2. Due(provider, l) = <<>>
        BY <4>1 DEF Due
      <4>. QED
        BY <1>2, <3>1, <4>1, <4>2
    <3>2. CASE call[c].phase # "waiting"
      BY <3>2 DEF JudgmentInv, JudgmentTypeOK
    <3>. QED
      BY <3>1, <3>2
  <2>. HIDE DEF k
  <2>. QED
    BY <2>1, <2>2 DEF JudgmentInv, JudgmentTypeOK
<1>6. CASE UNCHANGED judgmentVars
  BY <1>6 DEF judgmentVars, JudgmentInv, JudgmentTypeOK
<1>. QED
  BY <1>1, <1>3, <1>4, <1>5, <1>6 DEF JudgmentNext, Serve

LEMMA JudgmentInvariant == JudgmentInit /\ [][JudgmentNext]_judgmentVars => []JudgmentInv
BY JudgmentInitInv, JudgmentNextInv, PTL

(* For any number of calls and attempts, any adapter and any answers of the*)
(* providers, a caller's answer or error and the audit log agree           *)
(* (judgment_service.py, api/judgment.py).                                 *)
THEOREM JudgmentAuditMatches ==
  JudgmentInit /\ [][JudgmentNext]_judgmentVars => []AuditMatchesAnswers
BY AuditIsDue, JudgmentInvariant, PTL

-----------------------------------------------------------------------------
(* Dispute triage.                                                         *)
CarriesWell(t, known) ==
    /\ t.phase \in {"sending", "waiting"} => t.base \in Decision
    /\ t.phase \in {"decided", "writing"} => t.decision \in known[t.dispute]

Carried == \A r \in Triages : CarriesWell(triage[r], decided)

(* Two triages that write one dispute overlap, and the one that writes     *)
(* alone has read the row as it is.                                        *)
WritesKnown ==
    \A r, q \in Triages :
        r # q /\ triage[r].phase = "writing" /\ triage[q].phase = "writing"
              /\ triage[r].dispute = triage[q].dispute => triage[r].dispute \in overlapped
FoundHolds ==
    \A r \in Triages : triage[r].phase = "writing" /\ triage[r].dispute \notin overlapped
                         => triage[r].found = row[triage[r].dispute]
(* A row that was found does not go away before the write.                 *)
FoundStays ==
    \A r \in Triages : triage[r].phase = "writing" /\ triage[r].found # NoRow
                         => row[triage[r].dispute] # NoRow

RowDecided ==
    \A d \in Disputes \ overlapped : row[d] # NoRow => row[d] \in decided[d]

TriageInv ==
    /\ JudgmentInv /\ TriageTypeOK
    /\ decided \in [Disputes -> SUBSET Decision]
    /\ Carried /\ WritesKnown /\ FoundHolds /\ FoundStays /\ RowDecided
    /\ lost \subseteq overlapped

LEMMA NoRowIsNoDecision == ASSUME NEW x \in Decision PROVE x # NoRow
BY DEF Decision, NoRow

(* The rules take decisions.                                               *)
LEMMA RulesDecide == RuleDecisions \subseteq Decision
<1>1. ASSUME NEW m, NEW v, NEW p PROVE RuleBasedTriage(m, v, p) \in Decision
  <2>1. \/ RuleBasedTriage(m, v, p) = [verdict |-> "escalate", confidence |-> 95]
        \/ RuleBasedTriage(m, v, p) = [verdict |-> "escalate", confidence |-> 80]
        \/ RuleBasedTriage(m, v, p) = [verdict |-> "auto_resolve", confidence |-> 70]
        \/ RuleBasedTriage(m, v, p) = [verdict |-> "needs_human", confidence |-> 0]
    BY DEF RuleBasedTriage
  <2>. QED
    BY <2>1 DEF Decision, Verdicts
<1>. QED
  BY <1>1 DEF RuleDecisions

(* So does what the model's answer makes of them: whatever number it gives,*)
(* it takes one of the three verdicts.                                     *)
LEMMA AnswersDecide ==
  ASSUME NEW base \in Decision, NEW result \in Replies
  PROVE  AiDecision(base, result) \in Decision
<1>. DEFINE v == IF result.answer \in Verdicts THEN result.answer ELSE base.verdict
            c == IF result.confidence = Missing THEN base.confidence ELSE result.confidence
            w == IF c # NaN /\ c < 60 THEN "needs_human" ELSE v
<1>1. base.verdict \in Verdicts /\ base.confidence \in Int \union {NaN}
  BY DEF Decision
<1>2. w \in Verdicts
  BY <1>1 DEF Verdicts
<1>3. CASE c = Malformed
  BY <1>3 DEF AiDecision
<1>4. CASE c # Malformed
  <2>1. c \in Int \union {NaN}
    <3>1. result.confidence \in Confidences \union {Missing}
      BY DEF Replies
    <3>. QED
      BY <1>1, <1>4, <3>1, TriageAssumption
  <2>2. AiDecision(base, result) = [verdict |-> w, confidence |-> c]
    BY <1>4 DEF AiDecision
  <2>. HIDE DEF w, c
  <2>. QED
    BY <1>2, <2>1, <2>2 DEF Decision
<1>. QED
  BY <1>3, <1>4

(* Writing over the row that was read leaves the decision as a whole; in   *)
(* any case a row stays a row.                                             *)
LEMMA FlushDecision ==
  ASSUME NEW l \in Decision, NEW w \in Decision, NEW c \in Decision
  PROVE  Flush(l, w, c) \in Decision /\ (l = c => Flush(l, w, c) = w)
<1>1. DOMAIN w = {"verdict", "confidence"}
  BY DEF Decision
<1>2. Flush(l, w, c) = [x \in {"verdict", "confidence"} |-> IF w[x] # l[x] THEN w[x] ELSE c[x]]
  BY <1>1 DEF Flush
<1>3. Flush(l, w, c) \in Decision
  BY <1>2 DEF Decision
<1>4. l = c => Flush(l, w, c) = w
  BY <1>2 DEF Decision
<1>. QED
  BY <1>3, <1>4

(* What a triage carries, by its phase.                                    *)
LEMMA TriageCases ==
  ASSUME TriageTypeOK, NEW r \in Triages
  PROVE  /\ triage[r] \in Triage
         /\ triage[r].phase \in {"idle", "sending", "waiting", "decided", "writing", "finished"}
         /\ triage[r].phase \in {"sending", "waiting"} =>
              /\ triage[r].dispute \in Disputes /\ triage[r].base \in Decision
              /\ triage[r].attempt \in 1..ClientRetries
              /\ triage[r] \in [phase : {"sending", "waiting"}, dispute : Disputes,
                                base : Decision, attempt : 1..ClientRetries]
         /\ triage[r].phase = "decided" =>
              triage[r].dispute \in Disputes /\ triage[r].decision \in Decision
         /\ triage[r].phase = "writing" =>
              /\ triage[r].dispute \in Disputes /\ triage[r].decision \in Decision
              /\ triage[r].found \in Decision \union {NoRow}
<1>1. triage[r] \in Triage
  BY DEF TriageTypeOK
<1>. QED
  BY <1>1 DEF Triage, NotSubmitted, Finished

(* A triage makes the service take its own steps only.                     *)
LEMMA TriageStepsJudgment ==
  ASSUME TriageTypeOK, [TriageNext]_allVars
  PROVE  [JudgmentNext]_judgmentVars
<1>1. ASSUME NEW r \in Triages, Send(r) PROVE JudgmentNext
  <2>1. Attempt(r) \in Calls
    BY <1>1, TriageCases, TriageAssumption DEF Send, Attempt
  <2>. QED
    BY <1>1, <2>1 DEF Send, JudgmentNext, Entries, Tasks
<1>2. ASSUME NEW r \in Triages, NEW d \in Disputes, NEW base \in RuleDecisions, NEW ai \in BOOLEAN,
             Submit(r, d, base, ai)
      PROVE  UNCHANGED judgmentVars
  BY <1>2 DEF Submit, judgmentVars
<1>3. ASSUME NEW r \in Triages, Unreachable(r) \/ Await(r) \/ Persist(r) \/ Abort(r)
      PROVE  UNCHANGED judgmentVars
  BY <1>3 DEF Unreachable, Await, TimesOut, Receive, Persist, Load, Insert, Update, Abort, judgmentVars
<1>4. ASSUME ServiceStep PROVE JudgmentNext
  BY <1>4 DEF ServiceStep, JudgmentNext
<1>5. CASE UNCHANGED allVars
  BY <1>5 DEF allVars, judgmentVars
<1>. QED
  BY <1>1, <1>2, <1>3, <1>4, <1>5 DEF TriageNext, Reach

LEMMA TriageInitInv == TriageInit => TriageInv
<1>. SUFFICES ASSUME TriageInit PROVE TriageInv
  OBVIOUS
<1>1. JudgmentInv
  BY JudgmentInitInv DEF TriageInit
<1>2. \A d \in Disputes : row[d] \in Decision \union {NoRow}
  BY RulesDecide DEF TriageInit
<1>3. decided \in [Disputes -> SUBSET Decision]
  BY <1>2 DEF TriageInit
<1>4. TriageTypeOK
  BY <1>1, <1>2, <1>3 DEF TriageInit, TriageTypeOK, JudgmentInv, Triage
<1>5. Carried /\ WritesKnown /\ FoundHolds /\ FoundStays
  <2>1. \A r \in Triages : triage[r].phase = "idle"
    BY DEF TriageInit, NotSubmitted
  <2>2. Carried
    BY <2>1 DEF Carried, CarriesWell
  <2>3. WritesKnown
    BY <2>1 DEF WritesKnown
  <2>4. FoundHolds /\ FoundStays
    BY <2>1 DEF FoundHolds, FoundStays
  <2>. QED
    BY <2>2, <2>3, <2>4
<1>6. RowDecided /\ lost \subseteq overlapped
  BY DEF TriageInit, RowDecided
<1>. QED
  BY <1>1, <1>3, <1>4, <1>5, <1>6 DEF TriageInv

(* A triage that does not come to its write leaves the rows alone.         *)
LEMMA NoWrite ==
  ASSUME TriageInv, JudgmentInv', NEW r \in Triages, NEW t \in Triage, t.phase # "writing",
         triage' = [triage EXCEPT ![r] = t],
         decided' \in [Disputes -> SUBSET Decision],
         \A d \in Disputes : decided[d] \subseteq decided'[d],
         CarriesWell(t, decided'), UNCHANGED <<row, overlapped, lost>>
  PROVE  TriageInv'
<1>. USE DEF TriageInv
<1>1. triage' \in [Triages -> Triage] /\ triage'[r] = t /\ \A q \in Triages \ {r} : triage'[q] = triage[q]
  BY DEF TriageTypeOK
<1>2. TriageTypeOK'
  BY <1>1 DEF TriageTypeOK, JudgmentInv
<1>3. Carried'
  <2>1. ASSUME NEW q \in Triages \ {r} PROVE CarriesWell(triage[q], decided')
    <3>1. CarriesWell(triage[q], decided)
      BY DEF Carried
    <3>. QED
      BY <3>1, TriageCases DEF CarriesWell
  <2>. QED
    BY <1>1, <2>1 DEF Carried
<1>4. WritesKnown' /\ FoundHolds' /\ FoundStays'
  BY <1>1 DEF WritesKnown, FoundHolds, FoundStays
<1>5. RowDecided'
  BY DEF RowDecided
<1>. QED
  BY <1>2, <1>3, <1>4, <1>5

LEMMA Settled ==
  ASSUME TriageInv, JudgmentInv', NEW r \in Triages, triage[r].phase \in {"sending", "waiting"},
         NEW x \in Decision, Settle(r, x), UNCHANGED <<row, overlapped, lost>>
  PROVE  TriageInv'
<1>. DEFINE d == triage[r].dispute
            t == [phase |-> "decided", dispute |-> d, decision |-> x]
<1>1. d \in Disputes
  BY TriageCases DEF TriageInv
<1>2. t \in Triage /\ t.phase = "decided" /\ t.dispute = d /\ t.decision = x
  BY <1>1 DEF Triage
<1>3. triage' = [triage EXCEPT ![r] = t] /\ decided' = [decided EXCEPT ![d] = decided[d] \union {x}]
  BY DEF Settle
<1>. HIDE DEF d, t
<1>4. decided' \in [Disputes -> SUBSET Decision] /\ \A e \in Disputes : decided[e] \subseteq decided'[e]
  BY <1>1, <1>3 DEF TriageInv
<1>5. CarriesWell(t, decided')
  BY <1>1, <1>2, <1>3 DEF CarriesWell, TriageInv
<1>. QED
  BY <1>2, <1>3, <1>4, <1>5, NoWrite

LEMMA Retried ==
  ASSUME TriageInv, JudgmentInv', NEW r \in Triages, triage[r].phase \in {"sending", "waiting"},
         RetryOrFallBack(r), UNCHANGED <<row, overlapped, lost>>
  PROVE  TriageInv'
<1>1. triage[r].base \in Decision
  BY DEF TriageInv, Carried, CarriesWell
<1>2. CASE triage[r].attempt < ClientRetries
  <2>. DEFINE t == [triage[r] EXCEPT !.phase = "sending", !.attempt = @ + 1]
  <2>1. triage' = [triage EXCEPT ![r] = t] /\ UNCHANGED decided
    BY <1>2 DEF RetryOrFallBack
  <2>2. t \in Triage /\ t.phase = "sending" /\ t.base = triage[r].base
    <3>. DEFINE Asking == [phase : {"sending", "waiting"}, dispute : Disputes, base : Decision,
                           attempt : 1..ClientRetries]
    <3>1. triage[r] \in Asking
      BY DEF TriageInv, TriageTypeOK, Triage, NotSubmitted, Finished
    <3>2. triage[r].attempt + 1 \in 1..ClientRetries
      BY <1>2, <3>1, TriageAssumption
    <3>3. t \in Asking /\ t.phase = "sending" /\ t.base = triage[r].base
      BY <3>1, <3>2
    <3>. QED
      BY <3>3 DEF Triage
  <2>. HIDE DEF t
  <2>3. CarriesWell(t, decided')
    BY <1>1, <2>2 DEF CarriesWell
  <2>. QED
    BY <2>1, <2>2, <2>3, NoWrite DEF TriageInv
<1>3. CASE ~(triage[r].attempt < ClientRetries)
  BY <1>1, <1>3, Settled DEF RetryOrFallBack
<1>. QED
  BY <1>2, <1>3

LEMMA TriageNextInv == TriageInv /\ [TriageNext]_allVars => TriageInv'
<1>. SUFFICES ASSUME TriageInv, [TriageNext]_allVars PROVE TriageInv'
  OBVIOUS
<1>0. JudgmentInv'
  BY TriageStepsJudgment, JudgmentNextInv DEF TriageInv
<1>1. ASSUME NEW r \in Triages, NEW d \in Disputes, NEW base \in RuleDecisions, NEW ai \in BOOLEAN,
             Submit(r, d, base, ai)
      PROVE  TriageInv'
  <2>0. base \in Decision
    BY RulesDecide
  <2>1. CASE ai
    <3>. DEFINE t == [phase |-> "sending", dispute |-> d, base |-> base, attempt |-> 1]
    <3>1. /\ triage' = [triage EXCEPT ![r] = t] /\ decided' = decided
          /\ UNCHANGED <<row, overlapped, lost>>
      BY <1>1, <2>1 DEF Submit, TriageInv
    <3>2. t \in Triage /\ t.phase = "sending" /\ t.base = base
      BY <2>0, TriageAssumption DEF Triage
    <3>. HIDE DEF t
    <3>3. CarriesWell(t, decided')
      BY <2>0, <3>2 DEF CarriesWell
    <3>. QED
      BY <1>0, <3>1, <3>2, <3>3, NoWrite DEF TriageInv
  <2>2. CASE ~ai
    <3>. DEFINE t == [phase |-> "decided", dispute |-> d, decision |-> base]
    <3>1. /\ triage' = [triage EXCEPT ![r] = t] /\ decided' = [decided EXCEPT ![d] = decided[d] \union {base}]
          /\ UNCHANGED <<row, overlapped, lost>>
      BY <1>1, <2>2 DEF Submit
    <3>2. t \in Triage /\ t.phase = "decided" /\ t.dispute = d /\ t.decision = base
      BY <2>0 DEF Triage
    <3>. HIDE DEF t
    <3>3. decided' \in [Disputes -> SUBSET Decision] /\ \A e \in Disputes : decided[e] \subseteq decided'[e]
      BY <2>0, <3>1 DEF TriageInv
    <3>4. CarriesWell(t, decided')
      BY <3>1, <3>2 DEF CarriesWell, TriageInv
    <3>. QED
      BY <1>0, <3>1, <3>2, <3>3, <3>4, NoWrite
  <2>. QED
    BY <2>1, <2>2
<1>2. ASSUME NEW r \in Triages, Send(r) PROVE TriageInv'
  <2>. DEFINE t == [triage[r] EXCEPT !.phase = "waiting"]
  <2>1. /\ triage[r].phase = "sending"
        /\ triage' = [triage EXCEPT ![r] = t]
        /\ UNCHANGED <<row, decided, overlapped, lost>>
    BY <1>2 DEF Send
  <2>2. t \in Triage /\ t.phase = "waiting" /\ t.base = triage[r].base
    BY <2>1, TriageCases DEF TriageInv, Triage
  <2>. HIDE DEF t
  <2>3. CarriesWell(t, decided')
    BY <2>1, <2>2 DEF CarriesWell, TriageInv, Carried
  <2>. QED
    BY <1>0, <2>1, <2>2, <2>3, NoWrite DEF TriageInv
<1>3. ASSUME NEW r \in Triages, Unreachable(r) \/ TimesOut(r) PROVE TriageInv'
  BY <1>0, <1>3, Retried DEF Unreachable, TimesOut
<1>4. ASSUME NEW r \in Triages, Receive(r) PROVE TriageInv'
  <2>. DEFINE k == call[Attempt(r)]
  <2>1. triage[r].phase = "waiting" /\ UNCHANGED <<row, overlapped, lost>>
    BY <1>4 DEF Receive
  <2>2. CASE k.phase = "answered"
    <3>1. Attempt(r) \in Calls
      BY <2>1, TriageCases, TriageAssumption DEF TriageInv, Attempt
    <3>2. k.result \in Replies
      BY <2>2, <3>1, CallCases DEF TriageInv, JudgmentInv
    <3>3. triage[r].base \in Decision
      BY <2>1 DEF TriageInv, Carried, CarriesWell
    <3>4. Settle(r, AiDecision(triage[r].base, k.result))
      BY <1>4, <2>2 DEF Receive
    <3>5. AiDecision(triage[r].base, k.result) \in Decision
      BY <3>2, <3>3, AnswersDecide
    <3>. QED
      BY <1>0, <2>1, <3>4, <3>5, Settled
  <2>3. CASE k.phase # "answered"
    BY <1>0, <1>4, <2>1, <2>3, Retried DEF Receive
  <2>. QED
    BY <2>2, <2>3
<1>5. ASSUME NEW r \in Triages, Abort(r) PROVE TriageInv'
  <2>1. Finished \in Triage /\ Finished.phase = "finished"
    BY DEF Triage, Finished
  <2>2. CarriesWell(Finished, decided')
    BY <2>1 DEF CarriesWell
  <2>3. triage' = [triage EXCEPT ![r] = Finished] /\ UNCHANGED <<row, decided, overlapped, lost>>
    BY <1>5 DEF Abort
  <2>. QED
    BY <1>0, <2>1, <2>2, <2>3, NoWrite DEF TriageInv
<1>6. ASSUME NEW r \in Triages, Load(r) PROVE TriageInv'
  <2>. DEFINE d == triage[r].dispute
              t == [phase |-> "writing", dispute |-> d, decision |-> triage[r].decision, found |-> row[d]]
  <2>1. /\ triage[r].phase = "decided"
        /\ triage' = [triage EXCEPT ![r] = t]
        /\ UNCHANGED <<row, decided, lost>>
        /\ overlapped' = IF \E q \in Triages : triage[q].phase = "writing" /\ triage[q].dispute = d
                           THEN overlapped \union {d} ELSE overlapped
    BY <1>6 DEF Load
  <2>2. d \in Disputes /\ triage[r].decision \in Decision /\ triage[r].decision \in decided[d]
    BY <2>1, TriageCases DEF TriageInv, Carried, CarriesWell
  <2>3. /\ t \in Triage /\ t.phase = "writing" /\ t.dispute = d
        /\ t.decision = triage[r].decision /\ t.found = row[d]
    BY <2>2 DEF TriageInv, TriageTypeOK, Triage
  <2>. HIDE DEF d, t
  <2>4. triage' \in [Triages -> Triage] /\ triage'[r] = t /\ \A q \in Triages \ {r} : triage'[q] = triage[q]
    BY <2>1, <2>3 DEF TriageInv, TriageTypeOK
  <2>5. overlapped \subseteq overlapped' /\ overlapped' \subseteq Disputes
    BY <2>1, <2>2 DEF TriageInv, TriageTypeOK
  <2>6. TriageTypeOK'
    BY <1>0, <2>1, <2>4, <2>5 DEF TriageInv, TriageTypeOK, JudgmentInv
  <2>7. Carried'
    BY <2>1, <2>2, <2>3, <2>4 DEF TriageInv, Carried, CarriesWell
  <2>8. WritesKnown'
    <3>1. ASSUME NEW q \in Triages \ {r}, triage[q].phase = "writing", triage[q].dispute = d
          PROVE  d \in overlapped'
      BY <2>1, <3>1
    <3>. QED
      BY <2>3, <2>4, <2>5, <3>1 DEF TriageInv, WritesKnown
  <2>9. FoundHolds' /\ FoundStays'
    BY <2>1, <2>3, <2>4, <2>5 DEF TriageInv, FoundHolds, FoundStays
  <2>10. RowDecided' /\ lost' \subseteq overlapped'
    BY <2>1, <2>5 DEF TriageInv, RowDecided
  <2>. QED
    BY <1>0, <2>1, <2>6, <2>7, <2>8, <2>9, <2>10 DEF TriageInv
<1>7. ASSUME NEW r \in Triages, Insert(r) \/ Update(r) PROVE TriageInv'
  <2>. DEFINE t == triage[r]
              d == t.dispute
  <2>1. /\ t.phase = "writing"
        /\ triage' = [triage EXCEPT ![r] = Finished]
        /\ UNCHANGED <<decided, overlapped>>
    BY <1>7 DEF Insert, Update
  <2>2. d \in Disputes /\ t.decision \in Decision /\ t.decision \in decided[d]
        /\ t.found \in Decision \union {NoRow} /\ row[d] \in Decision \union {NoRow}
    BY <2>1, TriageCases DEF TriageInv, Carried, CarriesWell, TriageTypeOK
  <2>3. (d \notin overlapped => t.found = row[d]) /\ (t.found # NoRow => row[d] # NoRow)
    BY <2>1 DEF TriageInv, FoundHolds, FoundStays
  <2>4. \/ UNCHANGED row /\ lost' = lost \union {d} /\ t.found = NoRow /\ row[d] # NoRow
        \/ row' = [row EXCEPT ![d] = t.decision] /\ UNCHANGED lost
        \/ row' = [row EXCEPT ![d] = Flush(t.found, t.decision, row[d])] /\ UNCHANGED lost /\ t.found # NoRow
    BY <1>7 DEF Insert, Update
  <2>5. triage' \in [Triages -> Triage] /\ triage'[r] = Finished
        /\ \A q \in Triages \ {r} : triage'[q] = triage[q]
    BY <2>1 DEF TriageInv, TriageTypeOK, Triage
  <2>6. ASSUME NEW q \in Triages \ {r}, triage[q].phase = "writing", triage[q].dispute = d
        PROVE  d \in overlapped
    BY <2>1, <2>6 DEF TriageInv, WritesKnown
  <2>. HIDE DEF t, d
  <2>7. lost' \subseteq overlapped'
    BY <2>1, <2>3, <2>4 DEF TriageInv
  <2>8. PICK x : /\ row' = [row EXCEPT ![d] = x]
                 /\ x \in Decision
                 /\ d \notin overlapped => x \in decided[d]
    <3>1. CASE UNCHANGED row /\ t.found = NoRow /\ row[d] # NoRow
      <4>1. row' = [row EXCEPT ![d] = row[d]]
        BY <3>1 DEF TriageInv, TriageTypeOK
      <4>. QED
        BY <2>2, <2>3, <3>1, <4>1
    <3>2. CASE row' = [row EXCEPT ![d] = t.decision]
      BY <2>2, <3>2
    <3>3. CASE row' = [row EXCEPT ![d] = Flush(t.found, t.decision, row[d])] /\ t.found # NoRow
      <4>1. CASE row[d] # NoRow
        BY <2>2, <2>3, <3>3, <4>1, FlushDecision
      <4>2. CASE row[d] = NoRow
        <5>1. FALSE
          BY <2>3, <3>3, <4>2
        <5>. QED
          BY <5>1
      <4>. QED
        BY <4>1, <4>2
    <3>. QED
      BY <2>4, <3>1, <3>2, <3>3
  <2>9. row' \in [Disputes -> Decision \union {NoRow}] /\ row'[d] = x
        /\ \A e \in Disputes \ {d} : row'[e] = row[e]
    BY <2>2, <2>8 DEF TriageInv, TriageTypeOK
  <2>10. TriageTypeOK'
    BY <1>0, <2>1, <2>5, <2>7, <2>9 DEF TriageInv, TriageTypeOK, JudgmentInv
  <2>11. Carried' /\ WritesKnown'
    BY <2>1, <2>5 DEF TriageInv, Carried, CarriesWell, WritesKnown, Finished
  <2>12. FoundHolds' /\ FoundStays'
    <3>1. \A q \in Triages : triage[q].phase = "writing" => triage[q].dispute \in Disputes
      BY TriageCases DEF TriageInv
    <3>. QED
      BY <2>1, <2>5, <2>6, <2>8, <2>9, <3>1, NoRowIsNoDecision
         DEF TriageInv, FoundHolds, FoundStays, Finished
  <2>13. RowDecided'
    BY <2>1, <2>8, <2>9 DEF TriageInv, RowDecided
  <2>. QED
    BY <1>0, <2>1, <2>7, <2>10, <2>11, <2>12, <2>13 DEF TriageInv
<1>8. ASSUME ServiceStep \/ UNCHANGED allVars PROVE TriageInv'
  <2>1. UNCHANGED triageVars
    BY <1>8 DEF ServiceStep, allVars, triageVars
  <2>. QED
    BY <1>0, <2>1 DEF triageVars, TriageInv, TriageTypeOK, JudgmentInv, Carried, CarriesWell,
                      WritesKnown, FoundHolds, FoundStays, RowDecided
<1>. QED
  BY <1>1, <1>2, <1>3, <1>4, <1>5, <1>6, <1>7, <1>8 DEF TriageNext, Reach, Await, Persist
LEMMA TriageInvariant == TriageInit /\ [][TriageNext]_allVars => []TriageInv
BY TriageInitInv, TriageNextInv, PTL

(* Whatever the AI service answers and whenever it dies, a dispute's row,  *)
(* the decisions taken on it and the requests keep their types.            *)
THEOREM TriageTypeCorrect == TriageInit /\ [][TriageNext]_allVars => []TriageTypeOK
BY TriageInvariant, PTL DEF TriageInv

(* A dispute's row is one decision as a whole, unless writes overlapped.   *)
THEOREM TriageRowIsOneDecision == TriageInit /\ [][TriageNext]_allVars => []RowIsOneDecision
<1>1. TriageInv => RowIsOneDecision
  BY DEF TriageInv, TriageTypeOK, RowDecided, RowIsOneDecision
<1>. QED
  BY <1>1, TriageInvariant, PTL

(* The steps left, by the phase of a request.                              *)
LEMMA StepsLeftOf ==
  ASSUME NEW t
  PROVE  /\ t.phase = "sending" => StepsLeft(t) = 4 + 2 * (ClientRetries - t.attempt)
         /\ t.phase = "waiting" => StepsLeft(t) = 3 + 2 * (ClientRetries - t.attempt)
         /\ t.phase = "decided" => StepsLeft(t) = 2
         /\ t.phase = "writing" => StepsLeft(t) = 1
         /\ t.phase = "finished" => StepsLeft(t) = 0
BY DEF StepsLeft

LEMMA RetryAdvances ==
  ASSUME TriageTypeOK, NEW r \in Triages, triage[r].phase \in {"sending", "waiting"},
         \/ RetryOrFallBack(r)
         \/ \E decision : Settle(r, decision)
  PROVE  StepsLeft(triage'[r]) < StepsLeft(triage[r])
<1>1. triage[r].attempt \in 1..ClientRetries /\ ClientRetries \in Nat
  BY TriageCases, TriageAssumption
<1>. DEFINE a == triage[r].attempt
<1>2. StepsLeft(triage[r]) >= 3 + 2 * (ClientRetries - a) /\ StepsLeft(triage[r]) \in Int
  BY <1>1, StepsLeftOf
<1>3. ASSUME NEW decision, Settle(r, decision) PROVE StepsLeft(triage'[r]) = 2
  <2>1. triage'[r].phase = "decided"
    BY <1>3 DEF Settle, TriageTypeOK
  <2>. QED
    BY <2>1, StepsLeftOf
<1>4. CASE a < ClientRetries /\ triage' = [triage EXCEPT ![r].phase = "sending", ![r].attempt = @ + 1]
  <2>. DEFINE t == triage[r]
  <2>1. triage'[r] = [[t EXCEPT !.phase = "sending"] EXCEPT !.attempt = @ + 1]
    BY <1>4 DEF TriageTypeOK
  <2>2. t \in [phase : {"sending", "waiting"}, dispute : Disputes, base : Decision,
               attempt : 1..ClientRetries]
    BY TriageCases
  <2>. HIDE DEF t
  <2>3. triage'[r].phase = "sending" /\ triage'[r].attempt = t.attempt + 1
    BY <2>1, <2>2
  <2>4. StepsLeft(triage'[r]) = 4 + 2 * (ClientRetries - (a + 1))
    BY <2>3, StepsLeftOf DEF t
  <2>. HIDE DEF a
  <2>. QED
    BY <1>1, <1>2, <2>4 DEF a
<1>5. CASE \E decision : Settle(r, decision)
  BY <1>1, <1>2, <1>3, <1>5
<1>. QED
  BY <1>4, <1>5 DEF RetryOrFallBack

LEMMA AdvanceSteps ==
  ASSUME TriageTypeOK, NEW r \in Triages,
         Send(r) \/ Unreachable(r) \/ Await(r) \/ Persist(r) \/ Abort(r)
  PROVE  StepsLeft(triage'[r]) < StepsLeft(triage[r])
<1>1. CASE Send(r)
  <2>1. triage[r].attempt \in 1..ClientRetries /\ ClientRetries \in Nat
    BY <1>1, TriageCases, TriageAssumption DEF Send
  <2>. DEFINE t == triage[r]
  <2>2. t \in [phase : {"sending", "waiting"}, dispute : Disputes, base : Decision,
               attempt : 1..ClientRetries]
    BY <1>1, TriageCases DEF Send
  <2>3. triage'[r] = [t EXCEPT !.phase = "waiting"]
    BY <1>1 DEF Send, TriageTypeOK
  <2>. HIDE DEF t
  <2>4. triage'[r].phase = "waiting" /\ triage'[r].attempt = t.attempt
    BY <2>2, <2>3
  <2>5. StepsLeft(triage'[r]) = 3 + 2 * (ClientRetries - triage[r].attempt)
    BY <2>4, StepsLeftOf DEF t
  <2>6. StepsLeft(triage[r]) = 4 + 2 * (ClientRetries - triage[r].attempt)
    BY <1>1, StepsLeftOf DEF Send
  <2>. QED
    BY <2>1, <2>5, <2>6
<1>2. CASE Unreachable(r) \/ Await(r)
  <2>1. triage[r].phase \in {"sending", "waiting"}
    BY <1>2 DEF Unreachable, Await, TimesOut, Receive
  <2>2. RetryOrFallBack(r) \/ \E decision : Settle(r, decision)
    BY <1>2 DEF Unreachable, Await, TimesOut, Receive
  <2>. QED
    BY <2>1, <2>2, RetryAdvances
<1>3. CASE Load(r)
  <2>1. triage[r].phase = "decided" /\ triage'[r].phase = "writing"
    BY <1>3 DEF Load, TriageTypeOK
  <2>. QED
    BY <2>1, StepsLeftOf
<1>4. CASE Insert(r) \/ Update(r)
  <2>1. triage[r].phase = "writing" /\ triage'[r].phase = "finished"
    BY <1>4 DEF Insert, Update, Finished, TriageTypeOK
  <2>. QED
    BY <2>1, StepsLeftOf
<1>5. CASE Abort(r)
  <2>1. triage'[r].phase = "finished"
    BY <1>5 DEF Abort, Finished, TriageTypeOK
  <2>2. StepsLeft(triage'[r]) = 0
    BY <2>1, StepsLeftOf
  <2>3. CASE triage[r].phase \in {"sending", "waiting"}
    <3>1. triage[r].attempt \in 1..ClientRetries /\ ClientRetries \in Nat
      BY <2>3, TriageCases, TriageAssumption
    <3>. QED
      BY <2>2, <2>3, <3>1, StepsLeftOf
  <2>4. CASE triage[r].phase \in {"decided", "writing"}
    BY <2>2, <2>4, StepsLeftOf
  <2>. QED
    BY <1>5, <2>3, <2>4 DEF Abort
<1>. QED
  BY <1>1, <1>2, <1>3, <1>4, <1>5 DEF Persist

LEMMA OnlyAdvances ==
  ASSUME TriageTypeOK, TriageNext, NEW q \in Triages, triage[q] # NotSubmitted, triage'[q] # triage[q]
  PROVE  StepsLeft(triage'[q]) < StepsLeft(triage[q])
<1>1. ASSUME NEW r \in Triages, NEW d, NEW base, NEW ai, Submit(r, d, base, ai) PROVE FALSE
  BY <1>1 DEF Submit, TriageTypeOK
<1>2. ASSUME NEW r \in Triages, Send(r) \/ Unreachable(r) \/ Await(r) \/ Persist(r) \/ Abort(r)
      PROVE  q = r
  BY <1>2 DEF Send, Unreachable, Await, TimesOut, Receive, RetryOrFallBack, Settle,
              Persist, Load, Insert, Update, Abort, TriageTypeOK
<1>3. ASSUME ServiceStep PROVE FALSE
  BY <1>3 DEF ServiceStep, triageVars
<1>. QED
  BY <1>1, <1>2, <1>3, AdvanceSteps DEF TriageNext, Reach

(* For any number of retries, a triage makes at most that many attempts:   *)
(* nothing, early or late, takes it back (ServiceClient.request()'s loop). *)
THEOREM TriageNeverGoesBack == TriageInit /\ [][TriageNext]_allVars => TriageOnlyAdvances
<1>1. TriageTypeOK /\ [TriageNext]_allVars
        => [\A r \in Triages : triage[r] # NotSubmitted /\ triage'[r] # triage[r]
                                 => StepsLeft(triage'[r]) < StepsLeft(triage[r])]_allVars
  BY OnlyAdvances
<1>. QED
  BY <1>1, TriageTypeCorrect, PTL DEF TriageOnlyAdvances

(* A triage is one use of the AI service as AIJudgment states it: whatever *)
(* the requests do, the service's part of every step is one of its own     *)
(* steps or none (ServiceClient.request() sends, the service serves).      *)
THEOREM TriageUsesJudgment ==
  TriageInit /\ [][TriageNext]_allVars => JudgmentInit /\ [][JudgmentNext]_judgmentVars
<1>1. TriageInit => JudgmentInit
  BY DEF TriageInit
<1>2. TriageInv /\ [TriageNext]_allVars => [JudgmentNext]_judgmentVars
  BY TriageStepsJudgment DEF TriageInv
<1>. QED
  BY <1>1, <1>2, TriageInvariant, PTL

(* So the audit log is also true of the answers when the calls are the     *)
(* attempts of triages, those nobody waits for included.                   *)
THEOREM TriageAuditMatches == TriageInit /\ [][TriageNext]_allVars => []AuditMatchesAnswers
BY TriageUsesJudgment, JudgmentAuditMatches, PTL
================================================================================
