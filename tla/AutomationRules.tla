--------------------------- MODULE AutomationRules ---------------------------
(***************************************************************************)
(* The automation engine's pure rules (automation_engine/app/core/rules.py *)
(* and the pure parts of its services).                                    *)
(*                                                                         *)
(* Times are natural numbers of a unit that divides a day; amounts are     *)
(* cents.  Means and percentages are compared by cross-multiplication, so  *)
(* without the rounding of the code's floats.  Texts are sets of the       *)
(* signals the patterns look for.                                          *)
(***************************************************************************)
EXTENDS Integers, Sequences, Functions

(* Whole days past the expected delivery.                                  *)
DetectDelay(now, expected, day) ==
    IF now < expected THEN 0 ELSE (now - expected) \div day

(* Days of delay from which a check acts, by the carrier's service.        *)
ThresholdFor(service) == CASE service = "express" -> 2
                           [] service = "economy" -> 5
                           [] OTHER -> 3

IsCompensationEligible(delay, value, tier) ==
    /\ delay >= 2
    /\ tier = "vip" \/ delay >= 5 \/ value >= 2000

(* min(value, max(1000, a fifth of it)).                                   *)
PartialRefund(value) ==
    LET fifth == value \div 5
        least == IF fifth < 1000 THEN 1000 ELSE fifth
    IN  IF value < least THEN value ELSE least

(* Faulty variant: the fixed minimum is not capped by the order's value    *)
(* and the full refund starts only after the tenth day.                    *)
CompensationUncapped(delay, value, tier) ==
    CASE ~IsCompensationEligible(delay, value, tier) -> [decision |-> "reject", amount |-> 0]
      [] IsCompensationEligible(delay, value, tier) /\ delay >= 10 -> [decision |-> "refund_full", amount |-> value]
      [] OTHER -> [decision |-> "refund_partial", amount |-> 1000]

DecideCompensation(delay, value, tier) ==
    IF ~IsCompensationEligible(delay, value, tier)
      THEN [decision |-> "reject", amount |-> 0]
    ELSE IF delay >= 10
      THEN [decision |-> "refund_full", amount |-> value]
    ELSE IF delay >= 5 \/ value >= 10000
      THEN [decision |-> "refund_partial", amount |-> PartialRefund(value)]
    ELSE [decision |-> "coupon", amount |-> 0]

(* A delay check: eligibility is computed for a fixed order value and the  *)
(* standard tier.                                                          *)
DelayResult(delay, service) ==
    LET delayed == delay >= ThresholdFor(service)
    IN  [days |-> delay,
         delayed |-> delayed,
         eligible |-> delayed /\ IsCompensationEligible(delay, 5000, "standard"),
         action |-> CASE ~delayed -> "none"
                      [] delayed /\ delay >= 10 -> "refund"
                      [] delayed /\ delay < 10 /\ delay >= 5 -> "coupon"
                      [] OTHER -> "monitor"]


(* Mean of the older half against the mean of the newer one, 10% either    *)
(* way of the older mean or of 1.                                          *)
StockTrend(qtys) ==
    LET mid == Len(qtys) \div 2
        rest == Len(qtys) - mid
        older == SumFunctionOnSet(qtys, 1..mid) * rest
        newer == SumFunctionOnSet(qtys, (mid + 1)..Len(qtys)) * mid
        base == IF older < mid * rest THEN mid * rest ELSE older
    IN  IF Len(qtys) < 2 THEN "stable"
        ELSE IF 10 * (newer - older) <= -base THEN "dropping"
        ELSE IF 10 * (newer - older) >= base THEN "rising"
        ELSE "stable"

(* The patterns a dispute message is searched for.  Every legal word but   *)
(* "attorney" also counts as aggressive.                                   *)
Signals == {"insult", "rage", "exclamation", "legal", "attorney", "refund"}

PreScreen(message) ==
    [aggressive |-> message \intersect {"insult", "rage", "exclamation", "legal"} # {},
     refund |-> "refund" \in message,
     legal |-> message \intersect {"legal", "attorney"} # {}]

(* Confidence in percent.                                                  *)
RuleBasedTriage(message, value, prior) ==
    LET flags == PreScreen(message)
    IN  CASE flags.legal -> [verdict |-> "escalate", confidence |-> 95]
          [] ~flags.legal /\ flags.aggressive /\ value >= 10000 ->
               [verdict |-> "escalate", confidence |-> 80]
          [] ~flags.legal /\ ~(flags.aggressive /\ value >= 10000)
               /\ flags.refund /\ prior = 0 ->
               [verdict |-> "auto_resolve", confidence |-> 70]
          [] OTHER -> [verdict |-> "needs_human", confidence |-> 0]

(* Faulty variant: the whole row is written back.                          *)
FlushAll(loaded, wanted, current) == wanted

(* What an UPDATE leaves in a row: the columns the session changed, over   *)
(* the row as it is by now.                                                *)
Flush(loaded, wanted, current) ==
    [c \in DOMAIN wanted |-> IF wanted[c] # loaded[c] THEN wanted[c] ELSE current[c]]
=============================================================================
