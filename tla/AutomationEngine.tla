--------------------------- MODULE AutomationEngine ---------------------------
(***************************************************************************)
(* The automation engine's order, delay and stock checks                   *)
(* (automation_engine/app/services), as concurrent requests on one         *)
(* database.                                                               *)
(*                                                                         *)
(* A request selects its row, computes without suspending, and flushes and *)
(* commits; other requests run in between, so it is two actions.  The      *)
(* session writes a column only when its new value differs from the one it *)
(* loaded (SQLAlchemy's unit of work), and other transactions see the      *)
(* commit as a whole.  An insert that meets the unique order_id of a       *)
(* committed row raises; no constraint guards (sku, warehouse).            *)
(*                                                                         *)
(* An element of Skus is one pair (sku, warehouse or "default").  The      *)
(* columns tracking_number and destination_country go the way of carrier,  *)
(* dispatched_at that of expected_delivery.                                *)
(***************************************************************************)
EXTENDS AutomationRules

CONSTANTS Requests,     \* requests that may run at the same time
          Orders,
          Carriers,
          Dates,        \* expected deliveries a delay check may carry
          Services,     \* the carriers' services a threshold depends on
          Today, Day,   \* the time of the checks, the units of a day
          Skus,
          Quantities,   \* stock readings
          Thresholds,   \* reorder thresholds of the requests
          HistoryLimit, \* readings a stock row keeps (50)
          None          \* an empty column

ASSUME EngineAssumption ==
    /\ Dates \subseteq Nat /\ Today \in Nat /\ Day \in Nat \ {0}
    /\ Quantities \subseteq Nat /\ Thresholds \subseteq Nat /\ 0 \in Quantities
    /\ HistoryLimit \in Nat /\ HistoryLimit >= 2
    /\ None \notin Carriers /\ None \notin Dates

VARIABLES orders,    \* the row of each order, Absent before its first check
          stock,     \* the rows of each sku, in the order of their inserts
          session,   \* what each request has loaded and is about to write
          dated,     \* history: the dates of the last delay check of each row
          answers,   \* history: the trends answered for each sku
          clashed,   \* history: orders with two overlapping delay checks
          twins,     \* history: orders and skus with two overlapping first checks
          raised     \* history: the orders and skus a request failed on, and where

overlaps == <<clashed, twins>>
vars == <<orders, stock, session, dated, answers, overlaps, raised>>

Absent == [absent |-> TRUE]
Idle == [op |-> "idle"]
PROCESSING == "processing"
DELAYED == "delayed"

Init == /\ orders = [o \in Orders |-> Absent]
        /\ stock = [s \in Skus |-> <<>>]
        /\ session = [r \in Requests |-> Idle]
        /\ dated = [o \in Orders |-> None]
        /\ answers = [s \in Skus |-> {}]
        /\ clashed = {} /\ twins = {}
        /\ raised = {}

-----------------------------------------------------------------------------
Begin(r, s) == session[r] = Idle /\ session' = [session EXCEPT ![r] = s]
End(r) == session' = [session EXCEPT ![r] = Idle]
Running(op) == {session[r] : r \in {q \in Requests : session[q].op = op}}
Fails(x, at) == raised' = raised \union {[of |-> x, at |-> at]}

(* Faulty variant: the row is looked up by its primary key, which is not   *)
(* the order id, and never found.                                          *)
OrderReadById(r, o, c) ==
    /\ Begin(r, [op |-> "order", order |-> o, carrier |-> c, found |-> Absent])
    /\ UNCHANGED <<orders, stock, dated, answers, overlaps, raised>>

(* run_order_check() up to the select.                                     *)
OrderRead(r, o, c) ==
    /\ Begin(r, [op |-> "order", order |-> o, carrier |-> c, found |-> orders[o]])
    /\ twins' = IF \E s \in Running("order") : s.order = o /\ s.found = Absent
                  THEN twins \union {o} ELSE twins
    /\ UNCHANGED <<orders, stock, dated, answers, clashed, raised>>

(* The stub is inserted; a request without a carrier leaves it empty.      *)
OrderInsert(r) ==
    LET s == session[r]
    IN  /\ s.op = "order" /\ s.found = Absent
        /\ IF orders[s.order] = Absent
             THEN /\ orders' = [orders EXCEPT ![s.order] =
                        [carrier |-> s.carrier, expected |-> None, status |-> PROCESSING]]
                  /\ UNCHANGED raised
             ELSE Fails(s.order, "insert") /\ UNCHANGED orders
        /\ End(r)
        /\ UNCHANGED <<stock, dated, answers, overlaps>>

OrderUpdate(r) ==
    LET s == session[r]
        wanted == [s.found EXCEPT !.carrier = IF s.carrier = None THEN @ ELSE s.carrier]
    IN  /\ s.op = "order" /\ s.found # Absent
        /\ orders' = [orders EXCEPT ![s.order] = Flush(s.found, wanted, @)]
        /\ End(r)
        /\ UNCHANGED <<stock, dated, answers, overlaps, raised>>

-----------------------------------------------------------------------------
(* compute_delay_result() of an expected delivery that is no date raises   *)
(* before the select: the contract's field is any string.                  *)
DelayUnreadable(o) ==
    /\ Fails(o, "date")
    /\ UNCHANGED <<orders, stock, session, dated, answers, overlaps>>

(* run_delay_check() up to the select, with a date.                        *)
DelayRead(r, o, expected, service) ==
    /\ Begin(r, [op |-> "delay", order |-> o, expected |-> expected, found |-> orders[o],
                 eligible |-> DelayResult(DetectDelay(Today, expected, Day), service).eligible])
    /\ clashed' = IF \E s \in Running("delay") : s.order = o
                    THEN clashed \union {o} ELSE clashed
    /\ UNCHANGED <<orders, stock, dated, answers, twins, raised>>

(* Only an eligible delay touches the status.                              *)
DelayUpdate(r) ==
    LET s == session[r]
        wanted == [s.found EXCEPT !.expected = s.expected,
                                  !.status = IF s.eligible THEN DELAYED ELSE @]
    IN  /\ s.op = "delay" /\ s.found # Absent
        /\ orders' = [orders EXCEPT ![s.order] = Flush(s.found, wanted, @)]
        /\ dated' = [dated EXCEPT ![s.order] = s.expected]
        /\ End(r)
        /\ UNCHANGED <<stock, answers, overlaps, raised>>

(* Faulty variant: the unknown order is inserted with the column defaults. *)
DelayInserts(r) ==
    LET s == session[r]
    IN  /\ s.op = "delay" /\ s.found = Absent
        /\ orders' = [orders EXCEPT ![s.order] =
                        [carrier |-> None, expected |-> s.expected, status |-> "pending"]]
        /\ End(r)
        /\ UNCHANGED <<stock, dated, answers, overlaps, raised>>

(* A delay check of an unknown order writes nothing.                       *)
DelayIgnored(r) ==
    /\ session[r].op = "delay" /\ session[r].found = Absent
    /\ End(r)
    /\ UNCHANGED <<orders, stock, dated, answers, overlaps, raised>>

-----------------------------------------------------------------------------
(* run_stock_check() up to the select, with one row or none.               *)
StockRead(r, s, t) ==
    /\ Len(stock[s]) <= 1
    /\ Begin(r, [op |-> "stock", sku |-> s, threshold |-> t,
                 found |-> IF stock[s] = <<>> THEN Absent ELSE stock[s][1]])
    /\ twins' = IF \E q \in Running("stock") : q.sku = s /\ q.found = Absent
                  THEN twins \union {s} ELSE twins
    /\ UNCHANGED <<orders, stock, dated, answers, clashed, raised>>

(* scalar_one_or_none() raises when it meets two rows.                     *)
StockReadRaises(s) ==
    /\ Len(stock[s]) > 1
    /\ Fails(s, "select")
    /\ UNCHANGED <<orders, stock, session, dated, answers, overlaps>>

(* The trend is computed from the loaded readings and the present one.     *)
Answer(s, readings) == answers' = [answers EXCEPT ![s] = @ \union {StockTrend(readings)}]

(* A new row reads zero; its empty list is replaced by one reading.        *)
StockInsert(r) ==
    LET s == session[r]
    IN  /\ s.op = "stock" /\ s.found = Absent
        /\ stock' = [stock EXCEPT ![s.sku] =
                        Append(@, [qty |-> 0, threshold |-> s.threshold, history |-> <<0>>])]
        /\ Answer(s.sku, <<0>>)
        /\ End(r)
        /\ UNCHANGED <<orders, dated, overlaps, raised>>

(* What the row keeps of the readings.  append() changes the loaded list   *)
(* itself, so the assigned copy equals it and the column counts as         *)
(* unchanged, unless the copy was cut or the loaded list was empty, in     *)
(* which case `or []` made a new one.                                      *)
Kept(history, qty) ==
    IF history = <<>> THEN <<qty>>
    ELSE IF Len(history) >= HistoryLimit THEN Append(Tail(history), qty)
    ELSE history

StockUpdate(r) ==
    LET s == session[r]
    IN  /\ s.op = "stock" /\ s.found # Absent
        /\ stock' = [stock EXCEPT ![s.sku][1].history =
                        IF Kept(s.found.history, s.found.qty) = s.found.history
                          THEN @ ELSE Kept(s.found.history, s.found.qty)]
        /\ Answer(s.sku, Append(s.found.history, s.found.qty))
        /\ End(r)
        /\ UNCHANGED <<orders, dated, overlaps, raised>>

(* Stock arrives or is sold: no code of the repository writes qty.         *)
Restock(s, i, q) ==
    /\ stock' = [stock EXCEPT ![s][i].qty = q]
    /\ UNCHANGED <<orders, session, dated, answers, overlaps, raised>>

-----------------------------------------------------------------------------
(* The database fails or the process dies before the commit: session_scope *)
(* rolls back.                                                             *)
RollBack(r) ==
    /\ session[r] # Idle
    /\ End(r)
    /\ UNCHANGED <<orders, stock, dated, answers, overlaps, raised>>

Finish(r) == \/ OrderInsert(r) \/ OrderUpdate(r)
             \/ DelayUpdate(r) \/ DelayIgnored(r)
             \/ StockInsert(r) \/ StockUpdate(r)

Next ==
    \/ \E r \in Requests :
         \/ \E o \in Orders : \/ \E c \in Carriers \union {None} : OrderRead(r, o, c)
                              \/ \E e \in Dates, v \in Services : DelayRead(r, o, e, v)
         \/ \E s \in Skus, t \in Thresholds : StockRead(r, s, t)
         \/ Finish(r) \/ RollBack(r)
    \/ \E o \in Orders : DelayUnreadable(o)
    \/ \E s \in Skus : \/ StockReadRaises(s)
                       \/ \E i \in DOMAIN stock[s], q \in Quantities : Restock(s, i, q)

Spec == Init /\ [][Next]_vars

-----------------------------------------------------------------------------
Row == [carrier : Carriers \union {None}, expected : Dates \union {None},
        status : {PROCESSING, DELAYED}]
StockRow == [qty : Quantities, threshold : Thresholds, history : Seq(Quantities)]
Session ==
    {Idle}
    \union [op : {"order"}, order : Orders, carrier : Carriers \union {None},
            found : Row \union {Absent}]
    \union [op : {"delay"}, order : Orders, expected : Dates, eligible : BOOLEAN,
            found : Row \union {Absent}]
    \union [op : {"stock"}, sku : Skus, threshold : Thresholds,
            found : StockRow \union {Absent}]

TypeOK == /\ orders \in [Orders -> Row \union {Absent}]
          /\ stock \in [Skus -> Seq(StockRow)]
          /\ session \in [Requests -> Session]
          /\ dated \in [Orders -> Dates \union {None}]
          /\ answers \in [Skus -> SUBSET {"stable", "rising", "dropping"}]
          /\ clashed \subseteq Orders /\ twins \subseteq Orders \union Skus
          /\ raised \subseteq [of : Orders \union Skus, at : {"date", "insert", "select"}]

(* Whatever order checks run beside it, a row holds the dates of the last  *)
(* delay check that found it, unless two delay checks of the order         *)
(* overlapped: a session that loaded the row earlier writes only what it   *)
(* changed.                                                                *)
RowHoldsLastCheck ==
    \A o \in Orders \ clashed : orders[o] # Absent => orders[o].expected = dated[o]

(* While the database works, a caller whose request is well formed sees an *)
(* error only after two first checks overlapped: the loser of two inserts  *)
(* of an order, or any check of a sku that has two rows, which two         *)
(* overlapping first checks made.                                          *)
ErrorsNeedOverlap == /\ \A e \in raised : e.at = "date" \/ e.of \in twins
                     /\ \A s \in Skus \ twins : Len(stock[s]) <= 1
=============================================================================
