------------------------ MODULE AutomationEngineProofs ------------------------
(***************************************************************************)
(* The automation engine's checks, proved for any requests, orders, skus   *)
(* and rules' limits.  The invariant says what a request that has its row  *)
(* still knows when it writes: rows stay (RowsStay), and outside `clashed` *)
(* and `twins` what it is about to decide on is what it loaded (ReadsHold),*)
(* because no second request of its kind runs beside it (OverlapsKnown).   *)
(* That no drop is ever seen needs that a reading is the first one, and    *)
(* every history thus one zero (FirstReading).                             *)
(***************************************************************************)
EXTENDS AutomationEngine, TLAPS

USE DEF overlaps

OrderRequest(r) == session[r].op \in {"order", "delay"}

RowsStay ==
    \A r \in Requests : OrderRequest(r) /\ session[r].found # Absent
                          => orders[session[r].order] # Absent

ReadsHold ==
    \A r \in Requests :
        /\ (session[r].op = "delay" /\ session[r].found # Absent /\ session[r].order \notin clashed)
             => orders[session[r].order].expected = session[r].found.expected
        /\ (session[r].op = "order" /\ session[r].found = Absent /\ session[r].order \notin twins)
             => orders[session[r].order] = Absent
        /\ (session[r].op = "stock" /\ session[r].found = Absent /\ session[r].sku \notin twins)
             => stock[session[r].sku] = <<>>

OverlapsKnown ==
    \A r, q \in Requests : r # q =>
        /\ (session[r].op = "delay" /\ session[q].op = "delay"
              /\ session[r].order = session[q].order) => session[r].order \in clashed
        /\ (session[r].op = "order" /\ session[q].op = "order"
              /\ session[r].found = Absent /\ session[q].found = Absent
              /\ session[r].order = session[q].order) => session[r].order \in twins
        /\ (session[r].op = "stock" /\ session[q].op = "stock"
              /\ session[r].found = Absent /\ session[q].found = Absent
              /\ session[r].sku = session[q].sku) => session[r].sku \in twins

UndatedFirst == \A o \in Orders : orders[o] = Absent => dated[o] = None

TypeInv == TypeOK /\ RowsStay
EngineInv == /\ TypeInv /\ ReadsHold /\ OverlapsKnown /\ UndatedFirst
             /\ RowHoldsLastCheck /\ ErrorsNeedOverlap

-----------------------------------------------------------------------------
(* A flushed row is a row; its date is the session's if that changed it.   *)
LEMMA FlushRow ==
  ASSUME NEW l \in Row, NEW w \in Row, NEW c \in Row
  PROVE  /\ Flush(l, w, c) \in Row
         /\ Flush(l, w, c).expected = IF w.expected # l.expected THEN w.expected ELSE c.expected
<1>1. DOMAIN w = {"carrier", "expected", "status"}
  BY DEF Row
<1>2. Flush(l, w, c) = [x \in {"carrier", "expected", "status"} |-> IF w[x] # l[x] THEN w[x] ELSE c[x]]
  BY <1>1 DEF Flush
<1>3. Flush(l, w, c).expected = IF w.expected # l.expected THEN w.expected ELSE c.expected
  BY <1>2
<1>4. Flush(l, w, c) \in Row
  BY <1>2 DEF Row
<1>. QED
  BY <1>3, <1>4

LEMMA RowIsPresent == ASSUME NEW x \in Row PROVE x # Absent
BY DEF Row, Absent

(* The answers of the trend and of the delay check have their types.       *)
LEMMA TrendType == ASSUME NEW h PROVE StockTrend(h) \in {"stable", "rising", "dropping"}
BY DEF StockTrend

LEMMA EligibleType == ASSUME NEW d, NEW v PROVE DelayResult(d, v).eligible \in BOOLEAN
<1>1. ASSUME NEW a, NEW b, NEW e, NEW x
      PROVE  [days |-> a, delayed |-> b, eligible |-> e, action |-> x].eligible = e
  OBVIOUS
<1>. DEFINE e == (d >= ThresholdFor(v)) /\ IsCompensationEligible(d, 5000, "standard")
<1>2. DelayResult(d, v).eligible = e
  BY <1>1, Zenon DEF DelayResult
<1>3. e \in BOOLEAN
  OBVIOUS
<1>. HIDE DEF e
<1>. QED
  BY <1>2, <1>3

(* The readings a row keeps are readings.                                  *)
LEMMA KeptType ==
  ASSUME NEW h \in Seq(Quantities), NEW q \in Quantities PROVE Kept(h, q) \in Seq(Quantities)
<1>1. CASE h = <<>>
  BY <1>1 DEF Kept
<1>2. CASE h # <<>>
  <2>1. Tail(h) \in Seq(Quantities)
    BY <1>2
  <2>2. Append(Tail(h), q) \in Seq(Quantities)
    BY <2>1
  <2>. QED
    BY <1>2, <2>2 DEF Kept
<1>. QED
  BY <1>1, <1>2

(* A changed row, if it is there, stays one of the rows.                   *)
LEMMA RowsExcept ==
  ASSUME NEW q \in Seq(StockRow), NEW i, NEW x, i \in DOMAIN q => x \in StockRow
  PROVE  /\ [q EXCEPT ![i] = x] \in Seq(StockRow)
         /\ Len([q EXCEPT ![i] = x]) = Len(q)
<1>. DEFINE n == [q EXCEPT ![i] = x]
<1>1. Len(q) \in Nat /\ DOMAIN q = 1..Len(q)
  OBVIOUS
<1>2. DOMAIN n = 1..Len(q)
  BY <1>1
<1>3. \A j \in 1..Len(q) : n[j] \in StockRow
  BY <1>1
<1>4. n = [j \in 1..Len(q) |-> n[j]]
  BY <1>1
<1>. HIDE DEF n
<1>5. n \in Seq(StockRow)
  BY <1>1, <1>3, <1>4
<1>6. Len(n) = Len(q)
  BY <1>1, <1>2, <1>5
<1>. QED
  BY <1>5, <1>6 DEF n

-----------------------------------------------------------------------------
(* Types, and rows that stay.                                              *)
LEMMA EngineInitInv == Init => EngineInv
<1>. SUFFICES ASSUME Init PROVE EngineInv
  OBVIOUS
<1>1. TypeOK
  BY EngineAssumption DEF Init, TypeOK, Session
<1>2. \A r \in Requests : session[r].op = "idle"
  BY DEF Init, Idle
<1>3. RowsStay /\ ReadsHold /\ OverlapsKnown
  BY <1>2 DEF RowsStay, ReadsHold, OverlapsKnown, OrderRequest
<1>4. UndatedFirst /\ RowHoldsLastCheck /\ ErrorsNeedOverlap
  BY DEF Init, UndatedFirst, RowHoldsLastCheck, ErrorsNeedOverlap
<1>. QED
  BY <1>1, <1>3, <1>4 DEF EngineInv, TypeInv

(* What a request carries, by its kind.                                    *)
LEMMA SessionTypes ==
  ASSUME TypeOK, NEW r \in Requests
  PROVE  /\ session[r] \in Session
         /\ session[r].op \in {"idle", "order", "delay", "stock"}
         /\ session[r].op = "order" =>
              /\ session[r].order \in Orders /\ session[r].carrier \in Carriers \union {None}
              /\ session[r].found \in Row \union {Absent}
         /\ session[r].op = "delay" =>
              /\ session[r].order \in Orders /\ session[r].expected \in Dates
              /\ session[r].eligible \in BOOLEAN
              /\ session[r].found \in Row \union {Absent}
         /\ session[r].op = "stock" =>
              /\ session[r].sku \in Skus /\ session[r].threshold \in Thresholds
              /\ session[r].found \in StockRow \union {Absent}
<1>1. session[r] \in Session
  BY DEF TypeOK
<1>. QED
  BY <1>1 DEF Session, Idle

LEMMA ChangedSession ==
  ASSUME TypeOK, NEW r \in Requests, NEW s \in Session, session' = [session EXCEPT ![r] = s]
  PROVE  session' \in [Requests -> Session]
BY DEF TypeOK

LEMMA TypeNext ==
  ASSUME TypeInv, [Next]_vars
  PROVE  TypeInv'
<1>. USE DEF TypeInv
<1>0. Idle \in Session
  BY DEF Session
<1>1. ASSUME NEW r \in Requests, NEW o \in Orders, NEW c \in Carriers \union {None},
             OrderRead(r, o, c)
      PROVE  TypeInv'
  <2>. DEFINE s == [op |-> "order", order |-> o, carrier |-> c, found |-> orders[o]]
  <2>1. s \in Session
    BY DEF Session, TypeOK
  <2>2. session' = [session EXCEPT ![r] = s]
    BY <1>1 DEF OrderRead, Begin
  <2>3. TypeOK'
    BY <1>1, <2>1, <2>2, ChangedSession DEF OrderRead, TypeOK
  <2>4. RowsStay'
    BY <1>1, <2>2 DEF OrderRead, RowsStay, OrderRequest, TypeOK
  <2>. QED
    BY <2>3, <2>4
<1>2. ASSUME NEW r \in Requests, OrderInsert(r) PROVE TypeInv'
  <2>1. session' = [session EXCEPT ![r] = Idle]
    BY <1>2 DEF OrderInsert, End
  <2>2. session[r].order \in Orders /\ session[r].carrier \in Carriers \union {None}
    BY <1>2, SessionTypes DEF OrderInsert
  <2>3. [carrier |-> session[r].carrier, expected |-> None, status |-> PROCESSING] \in Row
    BY <2>2 DEF Row
  <2>4. TypeOK'
    <3>1. session' \in [Requests -> Session]
      BY <1>0, <2>1, ChangedSession
    <3>2. orders' \in [Orders -> Row \union {Absent}]
      BY <1>2, <2>2, <2>3 DEF OrderInsert, TypeOK
    <3>3. raised' \subseteq [of : Orders \union Skus, at : {"date", "insert", "select"}]
      BY <1>2, <2>2 DEF OrderInsert, Fails, TypeOK
    <3>4. UNCHANGED stock /\ UNCHANGED dated /\ UNCHANGED answers /\ UNCHANGED overlaps
      BY <1>2 DEF OrderInsert
    <3>. QED
      BY <3>1, <3>2, <3>3, <3>4 DEF TypeOK
  <2>5. \A o \in Orders : orders[o] # Absent => orders'[o] # Absent
    BY <1>2, <2>2, <2>3, RowIsPresent DEF OrderInsert, TypeOK
  <2>6. RowsStay'
    BY <1>2, <2>1, <2>5, SessionTypes DEF RowsStay, OrderRequest, TypeOK, Idle
  <2>. QED
    BY <2>4, <2>6
<1>3. ASSUME NEW r \in Requests, OrderUpdate(r) PROVE TypeInv'
  <2>. DEFINE s == session[r]
              wanted == [s.found EXCEPT !.carrier = IF s.carrier = None THEN @ ELSE s.carrier]
  <2>1. session' = [session EXCEPT ![r] = Idle]
    BY <1>3 DEF OrderUpdate, End
  <2>2. s.order \in Orders /\ s.carrier \in Carriers \union {None} /\ s.found \in Row
    BY <1>3, SessionTypes DEF OrderUpdate
  <2>3. wanted \in Row
    BY <2>2 DEF Row
  <2>4. orders[s.order] \in Row
    BY <1>3, <2>2 DEF RowsStay, OrderRequest, OrderUpdate, TypeOK
  <2>5. Flush(s.found, wanted, orders[s.order]) \in Row
    BY <2>2, <2>3, <2>4, FlushRow
  <2>6. orders' = [orders EXCEPT ![s.order] = Flush(s.found, wanted, orders[s.order])]
    BY <1>3 DEF OrderUpdate
  <2>. HIDE DEF s, wanted
  <2>7. TypeOK'
    <3>1. session' \in [Requests -> Session]
      BY <1>0, <2>1, ChangedSession
    <3>2. orders' \in [Orders -> Row \union {Absent}]
      BY <2>2, <2>5, <2>6 DEF TypeOK
    <3>3. UNCHANGED stock /\ UNCHANGED dated /\ UNCHANGED answers /\ UNCHANGED overlaps
          /\ UNCHANGED raised
      BY <1>3 DEF OrderUpdate
    <3>. QED
      BY <3>1, <3>2, <3>3 DEF TypeOK
  <2>8. RowsStay'
    BY <1>3, <2>1, <2>2, <2>5, <2>6, RowIsPresent DEF OrderUpdate, RowsStay, OrderRequest, TypeOK, Idle
  <2>. QED
    BY <2>7, <2>8
<1>4. ASSUME NEW r \in Requests, NEW o \in Orders, NEW e \in Dates, NEW v \in Services,
             DelayRead(r, o, e, v)
      PROVE  TypeInv'
  <2>. DEFINE s == [op |-> "delay", order |-> o, expected |-> e, found |-> orders[o],
                    eligible |-> DelayResult(DetectDelay(Today, e, Day), v).eligible]
  <2>1. s \in Session
    <3>1. DelayResult(DetectDelay(Today, e, Day), v).eligible \in BOOLEAN
      BY EligibleType
    <3>. QED
      BY <3>1 DEF Session, TypeOK
  <2>2. session' = [session EXCEPT ![r] = s]
    BY <1>4 DEF DelayRead, Begin
  <2>. HIDE DEF s
  <2>3. TypeOK'
    BY <1>4, <2>1, <2>2, ChangedSession DEF DelayRead, TypeOK
  <2>4. RowsStay'
    BY <1>4, <2>2 DEF DelayRead, RowsStay, OrderRequest, TypeOK, s
  <2>. QED
    BY <2>3, <2>4
<1>5. ASSUME NEW r \in Requests, DelayUpdate(r) PROVE TypeInv'
  <2>. DEFINE s == session[r]
              wanted == [s.found EXCEPT !.expected = s.expected,
                                        !.status = IF s.eligible THEN DELAYED ELSE @]
  <2>1. session' = [session EXCEPT ![r] = Idle]
    BY <1>5 DEF DelayUpdate, End
  <2>2. s.order \in Orders /\ s.expected \in Dates /\ s.found \in Row
    BY <1>5, SessionTypes DEF DelayUpdate
  <2>3. wanted \in Row
    BY <2>2 DEF Row
  <2>4. orders[s.order] \in Row
    BY <1>5, <2>2 DEF RowsStay, OrderRequest, DelayUpdate, TypeOK
  <2>5. Flush(s.found, wanted, orders[s.order]) \in Row
    BY <2>2, <2>3, <2>4, FlushRow
  <2>6. /\ orders' = [orders EXCEPT ![s.order] = Flush(s.found, wanted, orders[s.order])]
        /\ dated' = [dated EXCEPT ![s.order] = s.expected]
    BY <1>5 DEF DelayUpdate
  <2>. HIDE DEF s, wanted
  <2>7. TypeOK'
    <3>1. session' \in [Requests -> Session]
      BY <1>0, <2>1, ChangedSession
    <3>2. orders' \in [Orders -> Row \union {Absent}]
      BY <2>2, <2>5, <2>6 DEF TypeOK
    <3>3. dated' \in [Orders -> Dates \union {None}]
      BY <2>2, <2>6 DEF TypeOK
    <3>4. UNCHANGED stock /\ UNCHANGED answers /\ UNCHANGED overlaps /\ UNCHANGED raised
      BY <1>5 DEF DelayUpdate
    <3>. QED
      BY <3>1, <3>2, <3>3, <3>4 DEF TypeOK
  <2>8. RowsStay'
    BY <1>5, <2>1, <2>2, <2>5, <2>6, RowIsPresent DEF DelayUpdate, RowsStay, OrderRequest, TypeOK, Idle
  <2>. QED
    BY <2>7, <2>8
<1>6. ASSUME NEW r \in Requests, DelayIgnored(r) \/ RollBack(r) PROVE TypeInv'
  <2>1. session' = [session EXCEPT ![r] = Idle]
    BY <1>6 DEF DelayIgnored, RollBack, End
  <2>2. UNCHANGED orders /\ UNCHANGED stock /\ UNCHANGED dated /\ UNCHANGED answers
        /\ UNCHANGED overlaps /\ UNCHANGED raised
    BY <1>6 DEF DelayIgnored, RollBack
  <2>3. TypeOK'
    BY <1>0, <2>1, <2>2, ChangedSession DEF TypeOK
  <2>4. RowsStay'
    BY <2>1, <2>2 DEF RowsStay, OrderRequest, TypeOK, Idle
  <2>. QED
    BY <2>3, <2>4
<1>7. ASSUME NEW r \in Requests, NEW k \in Skus, NEW t \in Thresholds, StockRead(r, k, t)
      PROVE  TypeInv'
  <2>. DEFINE f == IF stock[k] = <<>> THEN Absent ELSE stock[k][1]
              s == [op |-> "stock", sku |-> k, threshold |-> t, found |-> f]
  <2>1. s \in Session
    <3>1. stock[k] \in Seq(StockRow)
      BY DEF TypeOK
    <3>2. f \in StockRow \union {Absent}
      BY <3>1
    <3>. QED
      BY <3>2 DEF Session
  <2>2. session' = [session EXCEPT ![r] = s]
    BY <1>7 DEF StockRead, Begin
  <2>. HIDE DEF f
  <2>3. TypeOK'
    BY <1>7, <2>1, <2>2, ChangedSession DEF StockRead, TypeOK
  <2>4. RowsStay'
    BY <1>7, <2>2 DEF StockRead, RowsStay, OrderRequest, TypeOK
  <2>. QED
    BY <2>3, <2>4
<1>8. ASSUME NEW x \in Orders \union Skus, NEW at \in {"date", "insert", "select"}, Fails(x, at),
             UNCHANGED <<orders, stock, session, dated, answers, overlaps>>
      PROVE  TypeInv'
  BY <1>8 DEF Fails, TypeOK, RowsStay, OrderRequest
<1>9. ASSUME NEW r \in Requests, StockInsert(r) PROVE TypeInv'
  <2>. DEFINE s == session[r]
              row == [qty |-> 0, threshold |-> s.threshold, history |-> << 0 >>]
  <2>1. session' = [session EXCEPT ![r] = Idle]
    BY <1>9 DEF StockInsert, End
  <2>2. s.sku \in Skus /\ s.threshold \in Thresholds
    BY <1>9, SessionTypes DEF StockInsert
  <2>3. row \in StockRow
    BY <2>2, EngineAssumption DEF StockRow
  <2>4. /\ stock' = [stock EXCEPT ![s.sku] = Append(stock[s.sku], row)]
        /\ answers' = [answers EXCEPT ![s.sku] = answers[s.sku] \union {StockTrend(<< 0 >>)}]
    BY <1>9 DEF StockInsert, Answer
  <2>. HIDE DEF s, row
  <2>5. TypeOK'
    <3>1. session' \in [Requests -> Session]
      BY <1>0, <2>1, ChangedSession
    <3>2. stock' \in [Skus -> Seq(StockRow)]
      BY <2>2, <2>3, <2>4 DEF TypeOK
    <3>3. answers' \in [Skus -> SUBSET {"stable", "rising", "dropping"}]
      BY <2>2, <2>4, TrendType DEF TypeOK
    <3>4. UNCHANGED orders /\ UNCHANGED dated /\ UNCHANGED overlaps /\ UNCHANGED raised
      BY <1>9 DEF StockInsert
    <3>. QED
      BY <3>1, <3>2, <3>3, <3>4 DEF TypeOK
  <2>6. RowsStay'
    BY <1>9, <2>1 DEF StockInsert, RowsStay, OrderRequest, TypeOK, Idle
  <2>. QED
    BY <2>5, <2>6
<1>10. ASSUME NEW r \in Requests, StockUpdate(r) PROVE TypeInv'
  <2>. DEFINE s == session[r]
              kept == Kept(s.found.history, s.found.qty)
              k == s.sku
              row == [stock[k][1] EXCEPT !.history = IF kept = s.found.history THEN @ ELSE kept]
              a == StockTrend(Append(s.found.history, s.found.qty))
  <2>1. session' = [session EXCEPT ![r] = Idle]
    BY <1>10 DEF StockUpdate, End
  <2>2. k \in Skus /\ s.found \in StockRow
    BY <1>10, SessionTypes DEF StockUpdate
  <2>3. kept \in Seq(Quantities)
    BY <2>2, KeptType DEF StockRow
  <2>4. stock[k] \in Seq(StockRow)
    BY <2>2 DEF TypeOK
  <2>5. ASSUME 1 \in DOMAIN stock[k] PROVE row \in StockRow
    <3>1. stock[k][1] \in StockRow
      BY <2>4, <2>5
    <3>. QED
      BY <2>3, <3>1 DEF StockRow
  <2>6. /\ stock' = [stock EXCEPT ![k] = [stock[k] EXCEPT ![1] = row]]
        /\ answers' = [answers EXCEPT ![k] = answers[k] \union {a}]
    BY <1>10 DEF StockUpdate, Answer
  <2>7. a \in {"stable", "rising", "dropping"}
    BY TrendType
  <2>. HIDE DEF s, kept, k, row, a
  <2>8. [stock[k] EXCEPT ![1] = row] \in Seq(StockRow)
    BY <2>4, <2>5, RowsExcept
  <2>9. TypeOK'
    <3>1. session' \in [Requests -> Session]
      BY <1>0, <2>1, ChangedSession
    <3>2. stock' \in [Skus -> Seq(StockRow)]
      BY <2>2, <2>6, <2>8 DEF TypeOK
    <3>3. answers' \in [Skus -> SUBSET {"stable", "rising", "dropping"}]
      BY <2>2, <2>6, <2>7 DEF TypeOK
    <3>4. UNCHANGED orders /\ UNCHANGED dated /\ UNCHANGED overlaps /\ UNCHANGED raised
      BY <1>10 DEF StockUpdate
    <3>. QED
      BY <3>1, <3>2, <3>3, <3>4 DEF TypeOK
  <2>10. RowsStay'
    BY <1>10, <2>1 DEF StockUpdate, RowsStay, OrderRequest, TypeOK, Idle
  <2>. QED
    BY <2>9, <2>10
<1>11. ASSUME NEW k \in Skus, NEW i \in DOMAIN stock[k], NEW q \in Quantities, Restock(k, i, q)
       PROVE  TypeInv'
  <2>. DEFINE row == [stock[k][i] EXCEPT !.qty = q]
  <2>1. stock[k] \in Seq(StockRow)
    BY DEF TypeOK
  <2>2. row \in StockRow
    <3>1. stock[k][i] \in StockRow
      BY <2>1
    <3>. QED
      BY <3>1 DEF StockRow
  <2>3. stock' = [stock EXCEPT ![k] = [stock[k] EXCEPT ![i] = row]]
    BY <1>11 DEF Restock
  <2>. HIDE DEF row
  <2>4. [stock[k] EXCEPT ![i] = row] \in Seq(StockRow)
    BY <2>1, <2>2, RowsExcept
  <2>. QED
    BY <1>11, <2>3, <2>4 DEF Restock, TypeOK, RowsStay, OrderRequest
<1>12. CASE UNCHANGED vars
  BY <1>12 DEF vars, TypeOK, RowsStay, OrderRequest
<1>. QED
  BY <1>1, <1>2, <1>3, <1>4, <1>5, <1>6, <1>7, <1>8, <1>9, <1>10, <1>11, <1>12
     DEF Next, Finish, StockReadRaises, DelayUnreadable

-----------------------------------------------------------------------------
(* Overlaps.                                                               *)
LEMMA EndKeepsOverlaps ==
  ASSUME TypeOK, OverlapsKnown, NEW r \in Requests,
         session' = [session EXCEPT ![r] = Idle], clashed \subseteq clashed', twins \subseteq twins'
  PROVE  OverlapsKnown'
<1>1. session'[r].op = "idle" /\ \A q \in Requests \ {r} : session'[q] = session[q]
  BY DEF TypeOK, Idle
<1>. QED
  BY <1>1 DEF OverlapsKnown

(* A request that begins either is alone of its kind, or the overlap is    *)
(* noted.                                                                  *)
LEMMA BeginKeepsOverlaps ==
  ASSUME TypeOK, OverlapsKnown, NEW r \in Requests, NEW s,
         session[r] = Idle, session' = [session EXCEPT ![r] = s], clashed \subseteq clashed', twins \subseteq twins',
         \A q \in Requests :
            /\ (s.op = "delay" /\ session[q].op = "delay" /\ session[q].order = s.order)
                 => s.order \in clashed'
            /\ (s.op = "order" /\ session[q].op = "order" /\ session[q].found = Absent
                  /\ session[q].order = s.order) => s.order \in twins'
            /\ (s.op = "stock" /\ session[q].op = "stock" /\ session[q].found = Absent
                  /\ session[q].sku = s.sku) => s.sku \in twins'
  PROVE  OverlapsKnown'
<1>1. session'[r] = s /\ \A q \in Requests \ {r} : session'[q] = session[q]
  BY DEF TypeOK
<1>2. ASSUME NEW q \in Requests, NEW p \in Requests, q # p
      PROVE  /\ (session'[q].op = "delay" /\ session'[p].op = "delay"
                   /\ session'[q].order = session'[p].order) => session'[q].order \in clashed'
             /\ (session'[q].op = "order" /\ session'[p].op = "order"
                   /\ session'[q].found = Absent /\ session'[p].found = Absent
                   /\ session'[q].order = session'[p].order) => session'[q].order \in twins'
             /\ (session'[q].op = "stock" /\ session'[p].op = "stock"
                   /\ session'[q].found = Absent /\ session'[p].found = Absent
                   /\ session'[q].sku = session'[p].sku) => session'[q].sku \in twins'
  <2>1. CASE q = r
    BY <1>1, <1>2, <2>1
  <2>2. CASE p = r
    BY <1>1, <1>2, <2>2
  <2>3. CASE q # r /\ p # r
    BY <1>1, <1>2, <2>3 DEF OverlapsKnown
  <2>. QED
    BY <2>1, <2>2, <2>3
<1>. QED
  BY <1>2 DEF OverlapsKnown

(* A request whose row is read sees the row as it is.                      *)
LEMMA BeginKeepsReads ==
  ASSUME TypeOK, ReadsHold, NEW r \in Requests, NEW s,
         session' = [session EXCEPT ![r] = s], clashed \subseteq clashed', twins \subseteq twins',
         UNCHANGED orders, UNCHANGED stock,
         s.op \in {"order", "delay"} => s.found = orders[s.order],
         s.op = "stock" /\ s.found = Absent => stock[s.sku] = <<>>
  PROVE  ReadsHold'
<1>1. session'[r] = s /\ \A q \in Requests \ {r} : session'[q] = session[q]
  BY DEF TypeOK
<1>2. ASSUME NEW q \in Requests
      PROVE  /\ (session'[q].op = "delay" /\ session'[q].found # Absent
                   /\ session'[q].order \notin clashed')
                  => orders'[session'[q].order].expected = session'[q].found.expected
             /\ (session'[q].op = "order" /\ session'[q].found = Absent
                   /\ session'[q].order \notin twins')
                  => orders'[session'[q].order] = Absent
             /\ (session'[q].op = "stock" /\ session'[q].found = Absent
                   /\ session'[q].sku \notin twins')
                  => stock'[session'[q].sku] = <<>>
  <2>1. CASE q = r
    BY <1>1, <2>1
  <2>2. CASE q # r
    BY <1>1, <2>2 DEF ReadsHold
  <2>. QED
    BY <2>1, <2>2
<1>. QED
  BY <1>2 DEF ReadsHold

(* A request that ends leaves the others what they know, where the rows    *)
(* they read have not changed under them.                                  *)
LEMMA EndKeepsReads ==
  ASSUME TypeOK, ReadsHold, NEW r \in Requests,
         session' = [session EXCEPT ![r] = Idle], UNCHANGED clashed, UNCHANGED twins,
         \A q \in Requests \ {r} :
            /\ (session[q].op = "delay" /\ session[q].found # Absent
                  /\ session[q].order \notin clashed)
                 => orders'[session[q].order].expected = orders[session[q].order].expected
            /\ (session[q].op = "order" /\ session[q].found = Absent
                  /\ session[q].order \notin twins)
                 => orders'[session[q].order] = orders[session[q].order]
            /\ (session[q].op = "stock" /\ session[q].found = Absent
                  /\ session[q].sku \notin twins)
                 => stock'[session[q].sku] = stock[session[q].sku]
  PROVE  ReadsHold'
<1>1. session'[r].op = "idle" /\ \A q \in Requests \ {r} : session'[q] = session[q]
  BY DEF TypeOK, Idle
<1>2. ASSUME NEW q \in Requests
      PROVE  /\ (session'[q].op = "delay" /\ session'[q].found # Absent
                   /\ session'[q].order \notin clashed')
                  => orders'[session'[q].order].expected = session'[q].found.expected
             /\ (session'[q].op = "order" /\ session'[q].found = Absent
                   /\ session'[q].order \notin twins')
                  => orders'[session'[q].order] = Absent
             /\ (session'[q].op = "stock" /\ session'[q].found = Absent
                   /\ session'[q].sku \notin twins')
                  => stock'[session'[q].sku] = <<>>
  <2>1. CASE q = r
    BY <1>1, <2>1
  <2>2. CASE q # r
    BY <1>1, <2>2 DEF ReadsHold
  <2>. QED
    BY <2>1, <2>2
<1>. QED
  BY <1>2 DEF ReadsHold

-----------------------------------------------------------------------------
(* Every step keeps the invariant.  The properties change only when a row  *)
(* does, so most actions leave them as they are (SameRows).                *)
LEMMA SameRows ==
  ASSUME UndatedFirst, RowHoldsLastCheck, ErrorsNeedOverlap, clashed \subseteq clashed', twins \subseteq twins',
         UNCHANGED orders, UNCHANGED stock, UNCHANGED dated, UNCHANGED raised
  PROVE  UndatedFirst' /\ RowHoldsLastCheck' /\ ErrorsNeedOverlap'
BY DEF UndatedFirst, RowHoldsLastCheck, ErrorsNeedOverlap

LEMMA EngineNextInv ==
  ASSUME EngineInv, [Next]_vars
  PROVE  EngineInv'
<1>. USE DEF EngineInv
<1>. TypeOK /\ RowsStay
  BY DEF TypeInv
<1>0. TypeInv'
  BY TypeNext
<1>1. ASSUME NEW r \in Requests, NEW o \in Orders, NEW c \in Carriers \union {None},
             OrderRead(r, o, c)
      PROVE  EngineInv'
  <2>. DEFINE s == [op |-> "order", order |-> o, carrier |-> c, found |-> orders[o]]
  <2>1. /\ session[r] = Idle /\ session' = [session EXCEPT ![r] = s]
        /\ UNCHANGED orders /\ UNCHANGED stock /\ UNCHANGED dated /\ UNCHANGED raised
    BY <1>1 DEF OrderRead, Begin
  <2>2. clashed \subseteq clashed' /\ twins \subseteq twins'
    BY <1>1 DEF OrderRead
  <2>3. ASSUME NEW q \in Requests, session[q].op = "order", session[q].found = Absent,
               session[q].order = o
        PROVE  o \in twins'
    BY <1>1, <2>3 DEF OrderRead, Running
  <2>4. s.op = "order" /\ s.order = o /\ s.found = orders[o]
    OBVIOUS
  <2>. HIDE DEF s
  <2>5. OverlapsKnown'
    BY <2>1, <2>2, <2>3, <2>4, BeginKeepsOverlaps
  <2>6. ReadsHold'
    BY <2>1, <2>2, <2>4, BeginKeepsReads
  <2>. QED
    BY <1>0, <2>1, <2>2, <2>5, <2>6, SameRows
<1>2. ASSUME NEW r \in Requests, OrderInsert(r) PROVE EngineInv'
  <2>. DEFINE o == session[r].order
              row == [carrier |-> session[r].carrier, expected |-> None, status |-> PROCESSING]
  <2>1. /\ session' = [session EXCEPT ![r] = Idle] /\ UNCHANGED clashed /\ UNCHANGED twins
        /\ UNCHANGED stock /\ UNCHANGED dated
        /\ session[r].op = "order" /\ session[r].found = Absent
    BY <1>2 DEF OrderInsert, End
  <2>2. o \in Orders /\ row \in Row /\ row # Absent /\ row.expected = None
    BY <2>1, SessionTypes, RowIsPresent DEF Row
  <2>3. \/ /\ orders[o] = Absent /\ orders' = [orders EXCEPT ![o] = row] /\ UNCHANGED raised
        \/ orders[o] # Absent /\ Fails(o, "insert") /\ UNCHANGED orders
    BY <1>2 DEF OrderInsert
  <2>4. OverlapsKnown'
    BY <2>1, EndKeepsOverlaps
  <2>5. orders[o] # Absent => o \in twins
    BY <2>1 DEF ReadsHold
  <2>. HIDE DEF o, row
  <2>6. ReadsHold'
    <3>1. ASSUME NEW q \in Requests \ {r}
          PROVE  /\ (session[q].op = "delay" /\ session[q].found # Absent
                       /\ session[q].order \notin clashed)
                      => orders'[session[q].order].expected = orders[session[q].order].expected
                 /\ (session[q].op = "order" /\ session[q].found = Absent
                       /\ session[q].order \notin twins)
                      => orders'[session[q].order] = orders[session[q].order]
      <4>1. CASE session[q].op = "delay" /\ session[q].found # Absent
        <5>1. session[q].order \in Orders /\ orders[session[q].order] # Absent
          BY <4>1, SessionTypes DEF RowsStay, OrderRequest
        <5>. QED
          BY <2>2, <2>3, <4>1, <5>1 DEF TypeOK
      <4>2. CASE session[q].op = "order" /\ session[q].found = Absent
        <5>1. session[q].order \in Orders
          BY <4>2, SessionTypes
        <5>2. session[q].order = o => o \in twins
          BY <2>1, <4>2 DEF OverlapsKnown, o
        <5>. QED
          BY <2>2, <2>3, <4>2, <5>1, <5>2 DEF TypeOK
      <4>. QED
        BY <4>1, <4>2
    <3>. QED
      BY <2>1, <3>1, EndKeepsReads
  <2>7. UndatedFirst' /\ RowHoldsLastCheck'
    BY <2>1, <2>2, <2>3 DEF UndatedFirst, RowHoldsLastCheck, TypeOK
  <2>8. ErrorsNeedOverlap'
    BY <2>1, <2>3, <2>5 DEF ErrorsNeedOverlap, Fails
  <2>. QED
    BY <1>0, <2>4, <2>6, <2>7, <2>8
<1>3. ASSUME NEW r \in Requests, OrderUpdate(r) PROVE EngineInv'
  <2>. DEFINE s == session[r]
              o == s.order
              wanted == [s.found EXCEPT !.carrier = IF s.carrier = None THEN @ ELSE s.carrier]
              row == Flush(s.found, wanted, orders[o])
  <2>1. /\ session' = [session EXCEPT ![r] = Idle] /\ UNCHANGED clashed /\ UNCHANGED twins
        /\ UNCHANGED stock /\ UNCHANGED dated /\ UNCHANGED raised
        /\ orders' = [orders EXCEPT ![o] = row]
        /\ s.op = "order" /\ s.found # Absent
    BY <1>3 DEF OrderUpdate, End
  <2>2. o \in Orders /\ s.carrier \in Carriers \union {None} /\ s.found \in Row
    BY <2>1, SessionTypes
  <2>3. orders[o] # Absent /\ orders[o] \in Row
    BY <2>1, <2>2 DEF RowsStay, OrderRequest, TypeOK
  <2>4. wanted \in Row /\ wanted.expected = s.found.expected
    BY <2>2 DEF Row
  <2>. HIDE DEF wanted
  <2>5. row \in Row /\ row # Absent /\ row.expected = orders[o].expected
    BY <2>2, <2>3, <2>4, FlushRow, RowIsPresent
  <2>. HIDE DEF s, o, row
  <2>6. OverlapsKnown'
    BY <2>1, EndKeepsOverlaps
  <2>7. ReadsHold'
    <3>1. ASSUME NEW q \in Requests \ {r}
          PROVE  /\ (session[q].op = "delay" /\ session[q].found # Absent
                       /\ session[q].order \notin clashed)
                      => orders'[session[q].order].expected = orders[session[q].order].expected
                 /\ (session[q].op = "order" /\ session[q].found = Absent
                       /\ session[q].order \notin twins)
                      => orders'[session[q].order] = orders[session[q].order]
      <4>1. session[q].op \in {"order", "delay"} => session[q].order \in Orders
        BY SessionTypes
      <4>2. (session[q].op = "order" /\ session[q].found = Absent
               /\ session[q].order \notin twins) => session[q].order # o
        BY <2>3 DEF ReadsHold
      <4>. QED
        BY <2>1, <2>2, <2>5, <4>1, <4>2 DEF TypeOK
    <3>. QED
      BY <2>1, <3>1, EndKeepsReads
  <2>8. UndatedFirst' /\ RowHoldsLastCheck' /\ ErrorsNeedOverlap'
    BY <2>1, <2>2, <2>3, <2>5 DEF UndatedFirst, RowHoldsLastCheck, ErrorsNeedOverlap, TypeOK
  <2>. QED
    BY <1>0, <2>6, <2>7, <2>8
<1>4. ASSUME NEW r \in Requests, NEW o \in Orders, NEW e \in Dates, NEW v \in Services,
             DelayRead(r, o, e, v)
      PROVE  EngineInv'
  <2>. DEFINE s == [op |-> "delay", order |-> o, expected |-> e, found |-> orders[o],
                    eligible |-> DelayResult(DetectDelay(Today, e, Day), v).eligible]
  <2>1. /\ session[r] = Idle /\ session' = [session EXCEPT ![r] = s]
        /\ UNCHANGED orders /\ UNCHANGED stock /\ UNCHANGED dated /\ UNCHANGED raised
    BY <1>4 DEF DelayRead, Begin
  <2>2. clashed \subseteq clashed' /\ twins \subseteq twins'
    BY <1>4 DEF DelayRead
  <2>3. ASSUME NEW q \in Requests, session[q].op = "delay", session[q].order = o
        PROVE  o \in clashed'
    BY <1>4, <2>3 DEF DelayRead, Running
  <2>4. s.op = "delay" /\ s.order = o /\ s.found = orders[o]
    OBVIOUS
  <2>. HIDE DEF s
  <2>5. OverlapsKnown'
    BY <2>1, <2>2, <2>3, <2>4, BeginKeepsOverlaps
  <2>6. ReadsHold'
    BY <2>1, <2>2, <2>4, BeginKeepsReads
  <2>. QED
    BY <1>0, <2>1, <2>2, <2>5, <2>6, SameRows
<1>5. ASSUME NEW r \in Requests, DelayUpdate(r) PROVE EngineInv'
  <2>. DEFINE s == session[r]
              o == s.order
              wanted == [s.found EXCEPT !.expected = s.expected,
                                        !.status = IF s.eligible THEN DELAYED ELSE @]
              row == Flush(s.found, wanted, orders[o])
  <2>1. /\ session' = [session EXCEPT ![r] = Idle] /\ UNCHANGED clashed /\ UNCHANGED twins
        /\ UNCHANGED stock /\ UNCHANGED raised
        /\ orders' = [orders EXCEPT ![o] = row]
        /\ dated' = [dated EXCEPT ![o] = s.expected]
        /\ s.op = "delay" /\ s.found # Absent
    BY <1>5 DEF DelayUpdate, End
  <2>2. o \in Orders /\ s.expected \in Dates /\ s.found \in Row
    BY <2>1, SessionTypes
  <2>3. orders[o] # Absent /\ orders[o] \in Row
    BY <2>1, <2>2 DEF RowsStay, OrderRequest, TypeOK
  <2>4. wanted \in Row /\ wanted.expected = s.expected
    BY <2>2 DEF Row
  <2>5. o \notin clashed => orders[o].expected = s.found.expected
    BY <2>1 DEF ReadsHold
  <2>. HIDE DEF wanted
  <2>6. row \in Row /\ row # Absent
        /\ (o \notin clashed => row.expected = s.expected)
    BY <2>2, <2>3, <2>4, <2>5, FlushRow, RowIsPresent
  <2>7. \A q \in Requests \ {r} : session[q].op = "delay" /\ session[q].order = o => o \in clashed
    BY <2>1 DEF OverlapsKnown
  <2>. HIDE DEF s, o, row
  <2>8. OverlapsKnown'
    BY <2>1, EndKeepsOverlaps
  <2>9. ReadsHold'
    <3>1. ASSUME NEW q \in Requests \ {r}
          PROVE  /\ (session[q].op = "delay" /\ session[q].found # Absent
                       /\ session[q].order \notin clashed)
                      => orders'[session[q].order].expected = orders[session[q].order].expected
                 /\ (session[q].op = "order" /\ session[q].found = Absent
                       /\ session[q].order \notin twins)
                      => orders'[session[q].order] = orders[session[q].order]
      <4>1. session[q].op \in {"order", "delay"} => session[q].order \in Orders
        BY SessionTypes
      <4>2. (session[q].op = "order" /\ session[q].found = Absent
               /\ session[q].order \notin twins) => session[q].order # o
        BY <2>3 DEF ReadsHold
      <4>. QED
        BY <2>1, <2>2, <2>7, <4>1, <4>2 DEF TypeOK
    <3>. QED
      BY <2>1, <3>1, EndKeepsReads
  <2>10. UndatedFirst' /\ RowHoldsLastCheck' /\ ErrorsNeedOverlap'
    BY <2>1, <2>2, <2>3, <2>6 DEF UndatedFirst, RowHoldsLastCheck, ErrorsNeedOverlap, TypeOK
  <2>. QED
    BY <1>0, <2>8, <2>9, <2>10
<1>6. ASSUME NEW r \in Requests, DelayIgnored(r) \/ RollBack(r) PROVE EngineInv'
  <2>1. /\ session' = [session EXCEPT ![r] = Idle] /\ UNCHANGED orders /\ UNCHANGED stock
        /\ UNCHANGED dated /\ UNCHANGED clashed /\ UNCHANGED twins /\ UNCHANGED raised
    BY <1>6 DEF DelayIgnored, RollBack, End
  <2>2. OverlapsKnown'
    BY <2>1, EndKeepsOverlaps
  <2>3. ReadsHold'
    BY <2>1, EndKeepsReads
  <2>. QED
    BY <1>0, <2>1, <2>2, <2>3, SameRows
<1>7. ASSUME NEW r \in Requests, NEW k \in Skus, NEW t \in Thresholds, StockRead(r, k, t)
      PROVE  EngineInv'
  <2>. DEFINE f == IF stock[k] = <<>> THEN Absent ELSE stock[k][1]
              s == [op |-> "stock", sku |-> k, threshold |-> t, found |-> f]
  <2>1. /\ session[r] = Idle /\ session' = [session EXCEPT ![r] = s]
        /\ UNCHANGED orders /\ UNCHANGED stock /\ UNCHANGED dated /\ UNCHANGED raised
    BY <1>7 DEF StockRead, Begin
  <2>2. clashed \subseteq clashed' /\ twins \subseteq twins'
    BY <1>7 DEF StockRead
  <2>3. ASSUME NEW q \in Requests, session[q].op = "stock", session[q].found = Absent,
               session[q].sku = k
        PROVE  k \in twins'
    BY <1>7, <2>3 DEF StockRead, Running
  <2>4. f = Absent => stock[k] = <<>>
    <3>1. stock[k] \in Seq(StockRow)
      BY DEF TypeOK
    <3>2. stock[k] # <<>> => stock[k][1] \in StockRow
      BY <3>1
    <3>3. Absent \notin StockRow
      BY DEF StockRow, Absent
    <3>. QED
      BY <3>2, <3>3
  <2>5. s.op = "stock" /\ s.sku = k /\ s.found = f
    OBVIOUS
  <2>. HIDE DEF s, f
  <2>6. OverlapsKnown'
    BY <2>1, <2>2, <2>3, <2>5, BeginKeepsOverlaps
  <2>7. ReadsHold'
    BY <2>1, <2>2, <2>4, <2>5, BeginKeepsReads
  <2>. QED
    BY <1>0, <2>1, <2>2, <2>6, <2>7, SameRows
<1>8. ASSUME NEW k \in Skus, StockReadRaises(k) PROVE EngineInv'
  <2>1. /\ Len(stock[k]) > 1 /\ Fails(k, "select") /\ UNCHANGED session
        /\ UNCHANGED orders /\ UNCHANGED stock /\ UNCHANGED dated /\ UNCHANGED clashed /\ UNCHANGED twins
    BY <1>8 DEF StockReadRaises
  <2>2. k \in twins
    <3>1. Len(stock[k]) \in Nat
      BY DEF TypeOK
    <3>. QED
      BY <2>1, <3>1 DEF ErrorsNeedOverlap
  <2>3. ReadsHold' /\ OverlapsKnown'
    BY <2>1 DEF ReadsHold, OverlapsKnown
  <2>4. UndatedFirst' /\ RowHoldsLastCheck' /\ ErrorsNeedOverlap'
    BY <2>1, <2>2 DEF UndatedFirst, RowHoldsLastCheck, ErrorsNeedOverlap, Fails
  <2>. QED
    BY <1>0, <2>3, <2>4
<1>14. ASSUME NEW o \in Orders, DelayUnreadable(o) PROVE EngineInv'
  <2>1. /\ Fails(o, "date") /\ UNCHANGED session
        /\ UNCHANGED orders /\ UNCHANGED stock /\ UNCHANGED dated /\ UNCHANGED clashed /\ UNCHANGED twins
    BY <1>14 DEF DelayUnreadable
  <2>2. ReadsHold' /\ OverlapsKnown'
    BY <2>1 DEF ReadsHold, OverlapsKnown
  <2>3. UndatedFirst' /\ RowHoldsLastCheck' /\ ErrorsNeedOverlap'
    BY <2>1 DEF UndatedFirst, RowHoldsLastCheck, ErrorsNeedOverlap, Fails
  <2>. QED
    BY <1>0, <2>2, <2>3
<1>9. ASSUME NEW r \in Requests, StockInsert(r) PROVE EngineInv'
  <2>. DEFINE k == session[r].sku
              row == [qty |-> 0, threshold |-> session[r].threshold, history |-> << 0 >>]
  <2>1. /\ session' = [session EXCEPT ![r] = Idle] /\ UNCHANGED clashed /\ UNCHANGED twins
        /\ UNCHANGED orders /\ UNCHANGED dated /\ UNCHANGED raised
        /\ stock' = [stock EXCEPT ![k] = Append(stock[k], row)]
        /\ session[r].op = "stock" /\ session[r].found = Absent
    BY <1>9 DEF StockInsert, End
  <2>2. k \in Skus
    BY <2>1, SessionTypes
  <2>3. k \notin twins => stock[k] = <<>>
    BY <2>1 DEF ReadsHold
  <2>4. \A q \in Requests \ {r} :
           session[q].op = "stock" /\ session[q].found = Absent /\ session[q].sku = k => k \in twins
    BY <2>1 DEF OverlapsKnown
  <2>. HIDE DEF k, row
  <2>5. OverlapsKnown'
    BY <2>1, EndKeepsOverlaps
  <2>6. ReadsHold'
    <3>1. ASSUME NEW q \in Requests \ {r}, session[q].op = "stock", session[q].found = Absent,
                 session[q].sku \notin twins
          PROVE  stock'[session[q].sku] = stock[session[q].sku]
      <4>1. session[q].sku \in Skus
        BY <3>1, SessionTypes
      <4>. QED
        BY <2>1, <2>4, <3>1, <4>1 DEF TypeOK
    <3>. QED
      BY <2>1, <3>1, EndKeepsReads
  <2>7. ErrorsNeedOverlap'
    <3>1. stock[k] = <<>> => Len(Append(stock[k], row)) = 1
      OBVIOUS
    <3>2. \A x \in Skus \ twins : Len(stock'[x]) <= 1
      BY <2>1, <2>2, <2>3, <3>1 DEF ErrorsNeedOverlap, TypeOK
    <3>. QED
      BY <2>1, <3>2 DEF ErrorsNeedOverlap
  <2>8. UndatedFirst' /\ RowHoldsLastCheck'
    BY <2>1 DEF UndatedFirst, RowHoldsLastCheck
  <2>. QED
    BY <1>0, <2>5, <2>6, <2>7, <2>8
<1>10. ASSUME NEW k \in Skus, NEW i, NEW x, i \in DOMAIN stock[k] => x \in StockRow,
              stock' = [stock EXCEPT ![k] = [stock[k] EXCEPT ![i] = x]]
       PROVE  \A y \in Skus : Len(stock'[y]) = Len(stock[y]) /\ (stock[y] = <<>> => stock'[y] = <<>>)
  <2>1. stock[k] \in Seq(StockRow)
    BY DEF TypeOK
  <2>. DEFINE n == [stock[k] EXCEPT ![i] = x]
  <2>2. n \in Seq(StockRow) /\ Len(n) = Len(stock[k])
    BY <1>10, <2>1, RowsExcept
  <2>. HIDE DEF n
  <2>3. stock[k] = <<>> => n = <<>>
    BY <2>1, <2>2
  <2>4. stock' = [stock EXCEPT ![k] = n]
    BY <1>10 DEF n
  <2>. QED
    BY <2>2, <2>3, <2>4 DEF TypeOK
<1>11. ASSUME NEW r \in Requests, StockUpdate(r) PROVE EngineInv'
  <2>. DEFINE s == session[r]
              kept == Kept(s.found.history, s.found.qty)
              k == s.sku
              row == [stock[k][1] EXCEPT !.history = IF kept = s.found.history THEN @ ELSE kept]
  <2>1. /\ session' = [session EXCEPT ![r] = Idle] /\ UNCHANGED clashed /\ UNCHANGED twins
        /\ UNCHANGED orders /\ UNCHANGED dated /\ UNCHANGED raised
        /\ stock' = [stock EXCEPT ![k] = [stock[k] EXCEPT ![1] = row]]
    BY <1>11 DEF StockUpdate, End
  <2>2. k \in Skus /\ s.found \in StockRow
    BY <1>11, SessionTypes DEF StockUpdate
  <2>3. kept \in Seq(Quantities)
    BY <2>2, KeptType DEF StockRow
  <2>4. ASSUME 1 \in DOMAIN stock[k] PROVE row \in StockRow
    <3>1. stock[k] \in Seq(StockRow)
      BY <2>2 DEF TypeOK
    <3>2. stock[k][1] \in StockRow
      BY <2>4, <3>1
    <3>. QED
      BY <2>3, <3>2 DEF StockRow
  <2>. HIDE DEF s, kept, k, row
  <2>5. \A y \in Skus : Len(stock'[y]) = Len(stock[y]) /\ (stock[y] = <<>> => stock'[y] = <<>>)
    BY <1>10, <2>1, <2>2, <2>4
  <2>6. OverlapsKnown'
    BY <2>1, EndKeepsOverlaps
  <2>7. ReadsHold'
    <3>1. ASSUME NEW q \in Requests \ {r}, session[q].op = "stock", session[q].found = Absent,
                 session[q].sku \notin twins
          PROVE  stock'[session[q].sku] = stock[session[q].sku]
      <4>1. session[q].sku \in Skus /\ stock[session[q].sku] = <<>>
        BY <3>1, SessionTypes DEF ReadsHold
      <4>. QED
        BY <2>5, <4>1
    <3>. QED
      BY <2>1, <3>1, EndKeepsReads
  <2>8. UndatedFirst' /\ RowHoldsLastCheck' /\ ErrorsNeedOverlap'
    BY <2>1, <2>5 DEF UndatedFirst, RowHoldsLastCheck, ErrorsNeedOverlap
  <2>. QED
    BY <1>0, <2>6, <2>7, <2>8
<1>12. ASSUME NEW k \in Skus, NEW i \in DOMAIN stock[k], NEW q \in Quantities, Restock(k, i, q)
       PROVE  EngineInv'
  <2>. DEFINE row == [stock[k][i] EXCEPT !.qty = q]
  <2>1. /\ stock' = [stock EXCEPT ![k] = [stock[k] EXCEPT ![i] = row]]
        /\ UNCHANGED orders /\ UNCHANGED dated /\ UNCHANGED raised
        /\ UNCHANGED clashed /\ UNCHANGED twins /\ UNCHANGED session
    BY <1>12 DEF Restock
  <2>2. row \in StockRow
    <3>1. stock[k] \in Seq(StockRow)
      BY DEF TypeOK
    <3>2. stock[k][i] \in StockRow
      BY <3>1
    <3>. QED
      BY <3>2 DEF StockRow
  <2>. HIDE DEF row
  <2>3. \A y \in Skus : Len(stock'[y]) = Len(stock[y]) /\ (stock[y] = <<>> => stock'[y] = <<>>)
    BY <1>10, <2>1, <2>2
  <2>4. ReadsHold'
    <3>1. \A y \in Requests : session[y].op = "stock" => session[y].sku \in Skus
      BY SessionTypes
    <3>. QED
      BY <2>1, <2>3, <3>1 DEF ReadsHold
  <2>5. OverlapsKnown' /\ UndatedFirst' /\ RowHoldsLastCheck' /\ ErrorsNeedOverlap'
    BY <2>1, <2>3 DEF OverlapsKnown, UndatedFirst, RowHoldsLastCheck, ErrorsNeedOverlap
  <2>. QED
    BY <1>0, <2>4, <2>5
<1>13. CASE UNCHANGED vars
  <2>1. ReadsHold' /\ OverlapsKnown'
    BY <1>13 DEF vars, ReadsHold, OverlapsKnown
  <2>2. UndatedFirst' /\ RowHoldsLastCheck' /\ ErrorsNeedOverlap'
    BY <1>13 DEF vars, UndatedFirst, RowHoldsLastCheck, ErrorsNeedOverlap
  <2>. QED
    BY <1>0, <2>1, <2>2
<1>. QED
  BY <1>1, <1>2, <1>3, <1>4, <1>5, <1>6, <1>7, <1>8, <1>9, <1>11, <1>12, <1>13, <1>14 DEF Next, Finish

LEMMA EngineInvariant == Spec => []EngineInv
BY EngineInitInv, EngineNextInv, PTL DEF Spec

(* For any requests, orders and skus the checks keep their state's shape.  *)
THEOREM EngineTypeCorrect == Spec => []TypeOK
BY EngineInvariant, PTL DEF EngineInv, TypeInv

(* For any number of concurrent checks a row holds the dates of the last   *)
(* delay check, unless two delay checks of its order overlapped.           *)
THEOREM EngineRowHoldsLastCheck == Spec => []RowHoldsLastCheck
BY EngineInvariant, PTL DEF EngineInv

(* For any number of concurrent checks, the error of a well-formed request *)
(* needs two overlapping first checks, and so do two rows of one sku.      *)
THEOREM EngineErrorsNeedOverlap == Spec => []ErrorsNeedOverlap
BY EngineInvariant, PTL DEF EngineInv

-----------------------------------------------------------------------------
(* Every row, and every row in a request's hands, still has the history of *)
(* its insert.                                                             *)
FirstReading ==
    /\ \A s \in Skus : \A i \in DOMAIN stock[s] : stock[s][i].history = << 0 >>
    /\ \A r \in Requests : session[r].op = "stock" /\ session[r].found # Absent
                             => session[r].found.history = << 0 >>

NoDropIsEverSeen == \A s \in Skus : "dropping" \notin answers[s]

TrendInv == FirstReading /\ NoDropIsEverSeen

(* The fold of the library, for a single reading.                          *)
LEMMA SumOfOne ==
  ASSUME NEW f, NEW x, f[x] \in Int
  PROVE  SumFunctionOnSet(f, {x}) = f[x]
<1>. DEFINE Pick(s) == CHOOSE y \in s : TRUE
            IsSum(g) == g = [s \in SUBSET {x} |-> IF s = {} THEN 0 ELSE f[Pick(s)] + g[s \ {Pick(s)}]]
            w == [s \in SUBSET {x} |-> IF s = {} THEN 0 ELSE f[x]]
<1>1. SumFunctionOnSet(f, {x}) = (CHOOSE g : IsSum(g))[{x}]
  BY DEF SumFunctionOnSet, FoldFunctionOnSet, MapThenFoldSet
<1>2. \A s \in SUBSET {x} : s = {} \/ s = {x}
  OBVIOUS
<1>3. Pick({x}) = x
  OBVIOUS
<1>4. IsSum(w)
  <2>1. \A s \in SUBSET {x} : w[s] = IF s = {} THEN 0 ELSE f[Pick(s)] + w[s \ {Pick(s)}]
    BY <1>2, <1>3
  <2>. QED
    BY <2>1
<1>5. ASSUME NEW g, IsSum(g) PROVE g[{x}] = f[x]
  <2>1. g[{}] = 0
    BY <1>5
  <2>2. g[{x}] = f[x] + g[{}]
    BY <1>3, <1>5
  <2>. QED
    BY <2>1, <2>2
<1>. HIDE DEF IsSum
<1>6. IsSum(CHOOSE g : IsSum(g))
  BY <1>4
<1>. QED
  BY <1>1, <1>5, <1>6

(* The trend of one reading is stable; that of a reading after a zero can  *)
(* only rise.                                                              *)
LEMMA ZeroFirst ==
  ASSUME NEW q \in Nat
  PROVE  StockTrend(<< 0 >>) # "dropping" /\ StockTrend(Append(<< 0 >>, q)) # "dropping"
<1>1. StockTrend(<< 0 >>) # "dropping"
  BY DEF StockTrend
<1>. DEFINE h == Append(<< 0 >>, q)
<1>2. Len(h) = 2 /\ h[1] = 0 /\ h[2] = q
  <2>1. << 0 >> \in Seq(Nat) /\ Len(<< 0 >>) = 1 /\ << 0 >>[1] = 0
    OBVIOUS
  <2>. QED
    BY <2>1
<1>. HIDE DEF h
<1>3. 1..1 = {1} /\ (1 + 1)..2 = {2} /\ 2 \div 2 = 1
  OBVIOUS
<1>4. SumFunctionOnSet(h, 1..1) = 0 /\ SumFunctionOnSet(h, (1 + 1)..2) = q
  BY <1>2, <1>3, SumOfOne
<1>5. StockTrend(h) = IF 10 * (q * 1 - 0 * 1) <= -1 THEN "dropping"
                      ELSE IF 10 * (q * 1 - 0 * 1) >= 1 THEN "rising" ELSE "stable"
  BY <1>2, <1>3, <1>4 DEF StockTrend
<1>6. StockTrend(h) # "dropping"
  BY <1>5
<1>. QED
  BY <1>1, <1>6 DEF h

(* A row that is given back with its history leaves every history as it is.*)
LEMMA HistoriesStay ==
  ASSUME TypeOK, NEW k \in Skus, NEW i, NEW x, x.history = stock[k][i].history,
         stock' = [stock EXCEPT ![k] = [stock[k] EXCEPT ![i] = x]]
  PROVE  \A s \in Skus : /\ DOMAIN stock'[s] = DOMAIN stock[s]
                         /\ \A j \in DOMAIN stock[s] : stock'[s][j].history = stock[s][j].history
<1>1. \A s \in Skus : stock'[s] = IF s = k THEN [stock[k] EXCEPT ![i] = x] ELSE stock[s]
  BY DEF TypeOK
<1>2. DOMAIN [stock[k] EXCEPT ![i] = x] = DOMAIN stock[k]
  OBVIOUS
<1>3. \A j \in DOMAIN stock[k] : [stock[k] EXCEPT ![i] = x][j] = IF j = i THEN x ELSE stock[k][j]
  OBVIOUS
<1>. QED
  BY <1>1, <1>2, <1>3

LEMMA TrendInitInv == Init => TrendInv
BY DEF Init, TrendInv, FirstReading, NoDropIsEverSeen, Idle

LEMMA TrendNextInv ==
  ASSUME TypeOK, TrendInv, [Next]_vars
  PROVE  TrendInv'
<1>. USE DEF TrendInv
<1>0. CASE UNCHANGED vars
  BY <1>0 DEF vars, FirstReading, NoDropIsEverSeen
<1>1. ASSUME NEW r \in Requests, NEW s, session' = [session EXCEPT ![r] = s],
             s.op = "stock" /\ s.found # Absent => s.found.history = << 0 >>
      PROVE  \A q \in Requests : session'[q].op = "stock" /\ session'[q].found # Absent
                                   => session'[q].found.history = << 0 >>
  <2>1. session'[r] = s /\ \A q \in Requests \ {r} : session'[q] = session[q]
    BY <1>1 DEF TypeOK
  <2>. QED
    BY <1>1, <2>1 DEF FirstReading
<1>2. ASSUME NEW r \in Requests, session' = [session EXCEPT ![r] = Idle]
      PROVE  \A q \in Requests : session'[q].op = "stock" /\ session'[q].found # Absent
                                   => session'[q].found.history = << 0 >>
  BY <1>1, <1>2 DEF Idle
<1>3. ASSUME NEW r \in Requests, NEW s, session' = [session EXCEPT ![r] = s],
             s.op \in {"order", "delay"}, UNCHANGED <<stock, answers>>
      PROVE  TrendInv'
  BY <1>1, <1>3 DEF FirstReading, NoDropIsEverSeen
<1>4. ASSUME NEW r \in Requests, NEW o \in Orders,
             \/ \E c \in Carriers \union {None} : OrderRead(r, o, c)
             \/ \E e \in Dates, v \in Services : DelayRead(r, o, e, v)
      PROVE  TrendInv'
  BY <1>3, <1>4 DEF OrderRead, DelayRead, Begin
<1>5. ASSUME NEW r \in Requests, NEW k \in Skus, NEW t \in Thresholds, StockRead(r, k, t)
      PROVE  TrendInv'
  <2>. DEFINE f == IF stock[k] = <<>> THEN Absent ELSE stock[k][1]
              s == [op |-> "stock", sku |-> k, threshold |-> t, found |-> f]
  <2>1. session' = [session EXCEPT ![r] = s] /\ UNCHANGED <<stock, answers>>
    BY <1>5 DEF StockRead, Begin
  <2>2. f # Absent => f.history = << 0 >>
    <3>1. stock[k] # <<>> => 1 \in DOMAIN stock[k]
      BY DEF TypeOK
    <3>. QED
      BY <3>1 DEF FirstReading
  <2>. HIDE DEF f
  <2>3. s.found = f
    OBVIOUS
  <2>. HIDE DEF s
  <2>. QED
    BY <1>1, <2>1, <2>2, <2>3 DEF FirstReading, NoDropIsEverSeen
<1>6. ASSUME NEW r \in Requests,
             OrderInsert(r) \/ OrderUpdate(r) \/ DelayUpdate(r) \/ DelayIgnored(r) \/ RollBack(r)
      PROVE  TrendInv'
  <2>1. session' = [session EXCEPT ![r] = Idle] /\ UNCHANGED <<stock, answers>>
    BY <1>6 DEF OrderInsert, OrderUpdate, DelayUpdate, DelayIgnored, RollBack, End
  <2>. QED
    BY <1>2, <2>1 DEF FirstReading, NoDropIsEverSeen
<1>7. ASSUME NEW r \in Requests, StockInsert(r) PROVE TrendInv'
  <2>. DEFINE k == session[r].sku
              row == [qty |-> 0, threshold |-> session[r].threshold, history |-> << 0 >>]
  <2>1. /\ stock' = [stock EXCEPT ![k] = Append(stock[k], row)]
        /\ answers' = [answers EXCEPT ![k] = answers[k] \union {StockTrend(<< 0 >>)}]
        /\ session' = [session EXCEPT ![r] = Idle]
    BY <1>7 DEF StockInsert, End, Answer
  <2>2. row.history = << 0 >> /\ k \in Skus
    BY <1>7, SessionTypes DEF StockInsert
  <2>. HIDE DEF k, row
  <2>3. \A i \in DOMAIN Append(stock[k], row) : Append(stock[k], row)[i].history = << 0 >>
    <3>1. stock[k] \in Seq(StockRow)
      BY <2>2 DEF TypeOK
    <3>2. \A i \in DOMAIN Append(stock[k], row) :
             \/ Append(stock[k], row)[i] = row
             \/ i \in DOMAIN stock[k] /\ Append(stock[k], row)[i] = stock[k][i]
      BY <3>1
    <3>. QED
      BY <2>2, <3>2 DEF FirstReading
  <2>4. FirstReading'
    BY <1>2, <2>1, <2>2, <2>3 DEF FirstReading, TypeOK
  <2>5. NoDropIsEverSeen'
    BY <2>1, <2>2, ZeroFirst DEF NoDropIsEverSeen, TypeOK
  <2>. QED
    BY <2>4, <2>5
<1>8. ASSUME NEW r \in Requests, StockUpdate(r) PROVE TrendInv'
  <2>. DEFINE f == session[r].found
              kept == Kept(f.history, f.qty)
              k == session[r].sku
              row == [stock[k][1] EXCEPT !.history = IF kept = f.history THEN @ ELSE kept]
              a == StockTrend(Append(f.history, f.qty))
  <2>1. /\ session' = [session EXCEPT ![r] = Idle]
        /\ stock' = [stock EXCEPT ![k] = [stock[k] EXCEPT ![1] = row]]
        /\ answers' = [answers EXCEPT ![k] = answers[k] \union {a}]
    BY <1>8 DEF StockUpdate, End, Answer
  <2>2. k \in Skus /\ f \in StockRow /\ f.history = << 0 >>
    BY <1>8, SessionTypes DEF StockUpdate, FirstReading
  <2>3. kept = f.history
    <3>1. << 0 >> # <<>> /\ Len(<< 0 >>) = 1
      OBVIOUS
    <3>. QED
      BY <2>2, <3>1, EngineAssumption DEF Kept
  <2>4. row.history = stock[k][1].history
    BY <2>3
  <2>5. a # "dropping"
    BY <2>2, ZeroFirst, EngineAssumption DEF StockRow
  <2>. HIDE DEF f, k, row, a
  <2>6. FirstReading'
    <3>1. \A s \in Skus : /\ DOMAIN stock'[s] = DOMAIN stock[s]
                          /\ \A j \in DOMAIN stock[s] : stock'[s][j].history = stock[s][j].history
      BY <2>1, <2>2, <2>4, HistoriesStay
    <3>. QED
      BY <1>2, <2>1, <3>1 DEF FirstReading
  <2>7. NoDropIsEverSeen'
    BY <2>1, <2>2, <2>5 DEF NoDropIsEverSeen, TypeOK
  <2>. QED
    BY <2>6, <2>7
<1>9. ASSUME NEW k \in Skus, NEW i \in DOMAIN stock[k], NEW q \in Quantities, Restock(k, i, q)
      PROVE  TrendInv'
  <2>. DEFINE row == [stock[k][i] EXCEPT !.qty = q]
  <2>1. stock' = [stock EXCEPT ![k] = [stock[k] EXCEPT ![i] = row]] /\ UNCHANGED <<session, answers>>
    BY <1>9 DEF Restock
  <2>2. row.history = stock[k][i].history
    <3>1. stock[k] \in Seq(StockRow)
      BY DEF TypeOK
    <3>2. stock[k][i] \in StockRow
      BY <3>1
    <3>. QED
      BY <3>2 DEF StockRow
  <2>. HIDE DEF row
  <2>3. \A s \in Skus : /\ DOMAIN stock'[s] = DOMAIN stock[s]
                        /\ \A j \in DOMAIN stock[s] : stock'[s][j].history = stock[s][j].history
    BY <2>1, <2>2, HistoriesStay
  <2>. QED
    BY <2>1, <2>3 DEF FirstReading, NoDropIsEverSeen
<1>10. ASSUME UNCHANGED <<stock, session, answers>> PROVE TrendInv'
  BY <1>10 DEF FirstReading, NoDropIsEverSeen
<1>. QED
  BY <1>0, <1>4, <1>5, <1>6, <1>7, <1>8, <1>9, <1>10
     DEF Next, Finish, StockReadRaises, DelayUnreadable

(* For any readings and any limit of at least two, however the stock moves *)
(* and the checks overlap, no check answers `dropping`: the list that is   *)
(* appended to in place never counts as changed (run_stock_check()).  That *)
(* is the extent of the bug: DropsAreSeen fails for every sku, always.     *)
THEOREM EngineNoDropIsEverSeen == Spec => []NoDropIsEverSeen
<1>1. TypeOK /\ TrendInv /\ [Next]_vars => TrendInv'
  BY TrendNextInv
<1>2. Spec => []TrendInv
  BY <1>1, TrendInitInv, EngineTypeCorrect, PTL DEF Spec
<1>. QED
  BY <1>2, PTL DEF TrendInv
=============================================================================
