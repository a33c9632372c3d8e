\* One request, so that no two checks overlap.
SPECIFICATION StockSpec
CONSTANTS
    Requests = {r1}
    Orders = {o1}
    Carriers = {c1}
    Dates = {3}
    Services = {"economy"}
    Today = 13
    Day = 2
    Skus = {s1}
    Quantities = {0, 4, 9}
    Thresholds = {3}
    HistoryLimit = 4
    None = None
INVARIANT DropsAreSeen
CHECK_DEADLOCK FALSE
