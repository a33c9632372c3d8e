------------------------------- MODULE MCStock -------------------------------
(* The stock checks of one request after another for TLC, with the         *)
(* readings they saw.                                                      *)
EXTENDS AutomationEngine

VARIABLE readings   \* history: the quantity each check of a sku read, in order

Reads(s, q) == readings' = [readings EXCEPT ![s] = Append(@, q)]

StockInit == Init /\ readings = [s \in Skus |-> <<>>]

StockNext ==
    \E s \in Skus :
        \/ /\ \/ \E r \in Requests, t \in Thresholds : StockRead(r, s, t)
              \/ \E q \in Quantities, i \in DOMAIN stock[s] : Restock(s, i, q)
           /\ UNCHANGED readings
        \/ \E r \in Requests :
             /\ session[r].op = "stock" /\ session[r].sku = s
             /\ Len(readings[s]) < HistoryLimit
             /\ \/ StockInsert(r) /\ Reads(s, 0)
                \/ StockUpdate(r) /\ Reads(s, session[r].found.qty)

StockSpec == StockInit /\ [][StockNext]_<<vars, readings>>

(* "Stock trend - rising / stable / dropping from history" (the automation *)
(* engine's README): when the mean of the newer half of a sku's readings,  *)
(* all of them within the history's limit, is 10% below that of the older  *)
(* half, a check has answered `dropping`.                                  *)
DropsAreSeen ==
    \A s \in Skus : StockTrend(readings[s]) = "dropping" => "dropping" \in answers[s]
=============================================================================
