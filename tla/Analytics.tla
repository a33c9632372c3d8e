------------------------------ MODULE Analytics ------------------------------
(***************************************************************************)
(* The figures that the data pipeline (core/analyzers.py, core/batching.py,*)
(* api/datasets.py) and the reporting service (core/aggregations.py)       *)
(* compute from a stream of orders or a series of numbers.                 *)
(*                                                                         *)
(* A time is a natural number of a unit that divides a day, in UTC as the  *)
(* connector's are; the code's string comparisons of ISO times keep its    *)
(* order.  The calendar, which week and month a day belongs to, is a       *)
(* parameter.  A rate is a pair <<part, whole>>.  A value is its distance  *)
(* in whole units, without the rounding of floats.                         *)
(***************************************************************************)
EXTENDS Integers, SequencesExt

CONSTANTS Customers, Statuses, Times, Amounts,
          NoCustomer,  \* an order without a customer id
          Now, Day,    \* the time of the analysis, the units of a day
          Calendar(_, _),  \* the name of the day, week or month of a day
          Numbers,     \* what a series holds
          Sigma,       \* threshold_sigma
          Held,       \* what the connector may hold at first
          Growing,     \* lengths at which the stream may still grow: a bound
          MaxSeries    \* bound on a series

(* What the connector's orders carry of what the figures read.             *)
OrderRows == [customer : Customers \union {NoCustomer}, ts : Times, value : Amounts, status : Statuses]

ASSUME AnalyticsAssumption ==
    /\ Times \subseteq Nat /\ Amounts \subseteq Nat /\ Numbers \subseteq Nat
    /\ IsFiniteSet(Statuses) /\ \A held \in Held : held \in Seq(OrderRows)
    /\ Now \in Nat /\ Day \in Nat \ {0} /\ Sigma \in Nat \ {0}
    /\ Growing \subseteq Nat /\ MaxSeries \in Nat

VARIABLES stream,  \* the orders the connector yields
          series   \* the numbers of an anomaly request, or of any paged read

figureVars == <<stream, series>>

FiguresInit == stream \in Held /\ series = <<>>

-----------------------------------------------------------------------------
(* The connector and the paged reads.                                      *)

(* Faulty variant: the loop ends before the item after the page is seen.   *)
PageStopsEarly(items, offset, limit) ==
    [items |-> SubSeq(items, offset + 1, Min({Len(items), offset + limit})),
     seen |-> Min({Len(items), offset + limit})]

(* The read stops one item after the page; "total_seen" counts it.         *)
Page(items, offset, limit) ==
    [items |-> SubSeq(items, offset + 1, Min({Len(items), offset + limit})),
     seen |-> Min({Len(items), offset + limit + 1})]

Chunked(items, size) ==
    [i \in 1..((Len(items) + size - 1) \div size) |->
        SubSeq(items, (i - 1) * size + 1, Min({Len(items), i * size}))]

-----------------------------------------------------------------------------
(* RFM segments.                                                           *)

ClassifySegment(recency, frequency, monetary) ==
    IF recency <= 30 /\ frequency >= 5 /\ monetary >= 10000 THEN "champions"
    ELSE IF recency <= 60 /\ frequency >= 3 THEN "loyal"
    ELSE IF 30 < recency /\ recency <= 120 /\ frequency >= 1 THEN "at_risk"
    ELSE IF recency > 120 THEN "hibernating"
    ELSE IF recency <= 30 /\ frequency <= 2 THEN "new"
    ELSE "regular"

CustomersOf(orders) == {orders[i].customer : i \in DOMAIN orders} \ {NoCustomer}

Rfm(orders) ==
    [c \in CustomersOf(orders) |->
        LET mine == {i \in DOMAIN orders : orders[i].customer = c}
            last == Max({orders[i].ts : i \in mine})
            recency == IF Now < last THEN 0 ELSE (Now - last) \div Day
            monetary == SumFunctionOnSet([i \in mine |-> orders[i].value], mine)
        IN  [recency |-> recency, frequency |-> Cardinality(mine), monetary |-> monetary,
             segment |-> ClassifySegment(recency, Cardinality(mine), monetary)]]

(* How many customers each segment has.                                    *)
SegmentCounts(orders) ==
    LET rfm == Rfm(orders)
        segments == {rfm[c].segment : c \in DOMAIN rfm}
    IN  [s \in segments |-> Cardinality({c \in DOMAIN rfm : rfm[c].segment = s})]

-----------------------------------------------------------------------------
(* compute_funnel(): an order is a user, its present status its only step. *)
Funnel(orders, steps) ==
    [k \in DOMAIN steps |-> Cardinality({i \in DOMAIN orders : orders[i].status = steps[k]})]

-----------------------------------------------------------------------------
(* Cohorts of `size` days: the label, the start and the offset of an order.*)
CohortLabel(ts, size) == Calendar(ts \div Day, size)

(* The order's own day, whatever the size.                                 *)
CohortStart(ts, size) == Day * (ts \div Day)

CohortOffset(ts, size) == ((ts - CohortStart(ts, size)) \div Day) \div size

CohortRetention(orders, size) ==
    LET known == {orders[i] : i \in DOMAIN orders}
        named == {o \in known : o.customer # NoCustomer}
        of(s) == {o.customer : o \in s}
        cohort(l) == {o \in named : CohortLabel(o.ts, size) = l}
    IN  [l \in {CohortLabel(o.ts, size) : o \in named} |->
           [k \in {CohortOffset(o.ts, size) : o \in cohort(l)} |->
              <<Cardinality(of({o \in cohort(l) : CohortOffset(o.ts, size) = k})),
                Cardinality(of(cohort(l)))>>]]

-----------------------------------------------------------------------------
(* Faulty variant: the deviation is not divided by the number of values.   *)
AnomaliesUndivided(values) ==
    IF Len(values) < 2 THEN {}
    ELSE LET n == Len(values)
             sum == SumFunction(values)
             spread == n * SumFunction([i \in 1..n |-> values[i] * values[i]]) - sum * sum
         IN  {i \in 1..n : /\ spread > 0
                           /\ n * (n * values[i] - sum) * (n * values[i] - sum) >= Sigma * Sigma * spread}

(* detect_anomalies(): |v - mean| >= Sigma * pstdev, both sides squared    *)
(* and multiplied by n^2.  A series without spread gets a tiny deviation   *)
(* and has no anomaly.                                                     *)
Anomalies(values) ==
    IF Len(values) < 2 THEN {}
    ELSE LET n == Len(values)
             sum == SumFunction(values)
             spread == n * SumFunction([i \in 1..n |-> values[i] * values[i]]) - sum * sum
         IN  {i \in 1..n : /\ spread > 0
                           /\ (n * values[i] - sum) * (n * values[i] - sum) >= Sigma * Sigma * spread}

-----------------------------------------------------------------------------
(* The reporting service's summaries over a period, whose rows are the     *)
(* positions of the orders in it.                                          *)
InPeriod(ts, since, until) == since <= ts /\ ts <= until
Period(orders, since, until) == {i \in DOMAIN orders : InPeriod(orders[i].ts, since, until)}

Keys(orders, rows) == {orders[i].status : i \in rows}

(* Faulty variant: the breakdown forgets the period.                       *)
OfAnyTime(orders, rows, key) == {i \in DOMAIN orders : orders[i].status = key}

Of(orders, rows, key) == {i \in rows : orders[i].status = key}
Total(orders, rows) == SumFunctionOnSet([i \in rows |-> orders[i].value], rows)

CountBy(orders, rows) ==
    [k \in Keys(orders, rows) |-> Cardinality(Of(orders, rows, k))]
TotalBy(orders, rows) ==
    [k \in Keys(orders, rows) |-> Total(orders, Of(orders, rows, k))]

SummarizeOrders(orders, since, until) ==
    LET rows == Period(orders, since, until)
    IN  [count |-> Cardinality(rows), total |-> Total(orders, rows),
         by_status |-> CountBy(orders, rows)]

(* A compensation's decision stands in `status`, its amount in `value`.    *)
SummarizeCompensations(table, since, until) ==
    LET rows == Period(table, since, until)
    IN  [count |-> Cardinality(rows), total |-> Total(table, rows),
         by_decision |-> CountBy(table, rows), by_amount |-> TotalBy(table, rows)]

(* A dispute's verdict stands in `status`; the mean confidence is left out.*)
SummarizeDisputes(disputes, since, until) ==
    LET rows == Period(disputes, since, until)
    IN  [count |-> Cardinality(rows), by_verdict |-> CountBy(disputes, rows)]

-----------------------------------------------------------------------------
(* The input of a request: a stream or a series.                           *)
OrderComes(o) == /\ series = <<>> /\ Len(stream) \in Growing
                 /\ stream' = Append(stream, o)
                 /\ UNCHANGED series
NumberComes(v) == /\ stream = <<>> /\ Len(series) < MaxSeries
                  /\ series' = Append(series, v)
                  /\ UNCHANGED stream

FiguresNext == \/ \E o \in OrderRows : OrderComes(o)
               \/ \E v \in Numbers : NumberComes(v)

FiguresSpec == FiguresInit /\ [][FiguresNext]_figureVars

-----------------------------------------------------------------------------
(* Reading page after page misses and repeats nothing, for every limit,    *)
(* and "total_seen" exceeds the end of a page exactly when another page    *)
(* follows.                                                                *)
PagesPartitionStream ==
    \A limit \in 1..(MaxSeries + 1) :
       LET pages == [k \in 1..(Len(series) \div limit + 1) |-> Page(series, (k - 1) * limit, limit)]
       IN  /\ FlattenSeq([k \in DOMAIN pages |-> pages[k].items]) = series
           /\ \A k \in DOMAIN pages : (pages[k].seen > k * limit) <=> (Len(series) > k * limit)

(* Chunks hold every item once and in order; all are full but the last,    *)
(* and none is empty.                                                      *)
ChunksPartition ==
    \A size \in 1..(MaxSeries + 1) :
       LET chunks == Chunked(series, size)
       IN  /\ FlattenSeq(chunks) = series
           /\ \A k \in DOMAIN chunks : /\ chunks[k] # <<>>
                                       /\ k < Len(chunks) => Len(chunks[k]) = size

(* Both ends of a period are inclusive: summing up two adjacent periods    *)
(* counts the orders of the common instant twice, in number and in value,  *)
(* and no other order.                                                     *)
AdjacentPeriodsShareAnInstant ==
    \A a, m, b \in Times : a <= m /\ m <= b =>
       LET s(x, y) == SummarizeOrders(stream, x, y)
           common == {i \in DOMAIN stream : stream[i].ts = m}
       IN  /\ s(a, m).count + s(m, b).count = s(a, b).count + Cardinality(common)
           /\ s(a, m).total + s(m, b).total = s(a, b).total + Total(stream, common)

(* The breakdowns of a summary add up to its totals, for every period.     *)
BreakdownsAddUp ==
    \A a, b \in Times :
       LET o == SummarizeOrders(stream, a, b)
           c == SummarizeCompensations(stream, a, b)
           d == SummarizeDisputes(stream, a, b)
       IN  /\ SumFunction(o.by_status) = o.count
           /\ SumFunction(d.by_verdict) = d.count
           /\ SumFunction(c.by_decision) = c.count
           /\ SumFunction(c.by_amount) = c.total

Standing(segment) == CASE segment = "hibernating" -> 0 [] segment = "at_risk" -> 1
                       [] segment = "new" -> 2 [] segment = "loyal" -> 3
                       [] segment = "champions" -> 4

(* A customer who bought later, more often and for more is never in a      *)
(* lower segment, and every customer is in exactly one.  ("regular" has no *)
(* standing: nobody is.)                                                   *)
SegmentsFollowValue ==
    LET rfm == Rfm(stream)
    IN  /\ \A c, d \in DOMAIN rfm :
              (/\ "regular" \notin {rfm[c].segment, rfm[d].segment}
               /\ rfm[c].recency <= rfm[d].recency
               /\ rfm[c].frequency >= rfm[d].frequency
               /\ rfm[c].monetary >= rfm[d].monetary)
                => Standing(rfm[c].segment) >= Standing(rfm[d].segment)
        /\ LET counts == SegmentCounts(stream)
           IN  SumFunction(counts) = Cardinality(CustomersOf(stream))

(* A funnel over order statuses counts an order in one step only, so the   *)
(* counts of distinct steps never exceed the orders: a step's count falls  *)
(* when its orders move on.                                                *)
FunnelCountsOrdersOnce ==
    \A steps \in SetToSeqs(Statuses) :
       SumFunction(Funnel(stream, steps)) <= Len(stream)

(* No value of a series of at most Sigma^2 numbers is an anomaly, however  *)
(* far out it lies: the default of 3 sigma needs ten numbers.              *)
ShortSeriesNeverAlarm == Len(series) <= Sigma * Sigma => Anomalies(series) = {}

(* Reads in parts lose and repeat nothing.                                 *)
ReadOnce == PagesPartitionStream /\ ChunksPartition

(* A summary of any orders is the sum of its parts, over time and by kind, *)
(* every customer has the one segment their orders earn, every order is in *)
(* at most one step of a funnel.                                           *)
FiguresAddUp ==
    stream # <<>> => /\ AdjacentPeriodsShareAnInstant /\ BreakdownsAddUp
                     /\ SegmentsFollowValue /\ FunnelCountsOrdersOnce
=============================================================================
