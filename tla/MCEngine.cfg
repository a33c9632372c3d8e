\* Two requests on one order and one sku: every pair of overlapping checks.
\* Of the dates one is in time, one late for an express service only, one late
\* for all.  Pairs of decisions on both sides of every limit of the rules.
\* Two triages of one dispute, two attempts each, two attempts of the adapter;
\* confidences below and above the limit, one that is no number and one that is
\* not even read.
SPECIFICATION EngineSpec
CONSTANTS
    Requests = {r1, r2}
    Orders = {o1}
    Carriers = {c1}
    Dates = {3, 8, 14}
    Services = {"express", "economy"}
    Today = 13
    Day = 2
    Skus = {s1}
    Quantities = {0, 4, 9}
    Thresholds = {3}
    HistoryLimit = 3
    None = None
    Delays = {1, 2, 4, 5, 9, 10}
    Prices = {0, 900, 1999, 2000, 7000, 10000}
    Tiers = {"standard", "vip"}
    MaxRows = 2
    Triages = {t1, t2}
    Disputes = {d1}
    ClientRetries = 2
    MaxRetries = 2
    Other = other
    Askers = {t1}
    Calls <- MCCalls
    Messages <- MCMessages
    OrderValues = {5000}
    Priors = {0}
    Answers = {"auto_resolve", "later"}
    Labels = {"auto_resolve"}
    Confidences = {50, 75, NaN, Malformed}
    Malformed = Malformed
    NaN = NaN
    Missing = Missing
INVARIANTS
    TypeOK
    RowHoldsLastCheck
    ErrorsNeedOverlap
    RefundWithinValue
    OffersConsistent
    AuditMatchesAnswers
    RowIsOneDecision
PROPERTIES
    EveryTriageEnds
    TriageOnlyAdvances
CHECK_DEADLOCK FALSE
