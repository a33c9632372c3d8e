------------------------------ MODULE Decisions ------------------------------
(***************************************************************************)
(* The compensation table (automation_engine/app/services/delay_service.py *)
(* and api/delays.py): every call of decide() inserts its decision, also   *)
(* for an order that has one.                                              *)
(***************************************************************************)
EXTENDS AutomationRules

CONSTANTS Delays, Prices, Tiers,
          MaxRows    \* bound on the table

ASSUME DecisionsAssumption == Delays \subseteq Nat /\ Prices \subseteq Nat /\ MaxRows \in Nat

VARIABLE compensations  \* the rows, without their orders, each with the inputs
                        \* it was decided on

TableInit == compensations = <<>>

(* Faulty variant: days and value change places in the call.               *)
DecideSwapped(delay, value, tier) ==
    /\ Len(compensations) < MaxRows
    /\ LET d == DecideCompensation(value, delay, tier)
       IN  compensations' = Append(compensations,
             [delay |-> delay, value |-> value, tier |-> tier,
              decision |-> d.decision, amount |-> d.amount])

Decide(delay, value, tier) ==
    /\ Len(compensations) < MaxRows
    /\ LET d == DecideCompensation(delay, value, tier)
       IN  compensations' = Append(compensations,
             [delay |-> delay, value |-> value, tier |-> tier,
              decision |-> d.decision, amount |-> d.amount])

TableNext == \E d \in Delays, v \in Prices, t \in Tiers : Decide(d, v, t)

TableSpec == TableInit /\ [][TableNext]_compensations

-----------------------------------------------------------------------------
Rank(decision) == CASE decision = "reject" -> 0 [] decision = "coupon" -> 1
                    [] decision = "refund_partial" -> 2 [] OTHER -> 3

(* No refund exceeds what the order cost, whichever branch computed it,    *)
(* and only a refund carries an amount.                                    *)
RefundWithinValue ==
    \A i \in DOMAIN compensations :
       LET c == compensations[i]
       IN  /\ c.amount \in 0..c.value
           /\ c.amount > 0 => Rank(c.decision) >= 2

(* Waiting longer never gets a customer less: of two decisions on the same *)
(* value, the one for the longer delay is at least as good in kind and in  *)
(* amount, and so is the one for a vip of the same delay.                  *)
LaterNeverCheaper ==
    \A i, j \in DOMAIN compensations :
       LET c == compensations[i]
           d == compensations[j]
       IN  (/\ c.value = d.value /\ c.delay <= d.delay
            /\ c.tier = d.tier \/ d.tier = "vip")
             => Rank(c.decision) <= Rank(d.decision) /\ c.amount <= d.amount

Promise(action) == CASE action = "none" -> 0 [] action = "monitor" -> 0
                     [] action = "coupon" -> 1 [] OTHER -> 3

(* The delay check promises no more than the decision gives: whatever      *)
(* carrier the check was made for, a suggested coupon or refund is met by  *)
(* a decision on the same delay, and an order of 20.00 or more that the    *)
(* check calls eligible is not rejected.                                   *)
SuggestionIsKept ==
    \A i \in DOMAIN compensations, s \in {"express", "standard", "economy"} :
       LET c == compensations[i]
           r == DelayResult(c.delay, s)
       IN  /\ Promise(r.action) <= Rank(c.decision)
           /\ r.eligible /\ c.value >= 2000 => c.decision # "reject"

(* What customers are told and given fits together, over time and between  *)
(* the check and the decision.                                             *)
OffersConsistent == LaterNeverCheaper /\ SuggestionIsKept
=============================================================================
