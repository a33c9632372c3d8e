\* The templates as they are, and nothing fails: no scheduled report is delivered.
SPECIFICATION MCSpec
CONSTANTS
    Schedules = {s1}
    Editors = {e1}
    Requests = {q1}
    Start = start
    Templates = {"t1"}
    Renderable = {}
    Unknown = "unknown"
    Crons = {"c1", "c2"}
    BadCron = "bad"
    Wanted <- MCWanted
    Faults = {}
    MaxReports = 1
    Customers = {"k1", "k2"}
    Statuses = {"paid", "delivered"}
    Times = {0, 130, 190}
    Amounts = {0, 5000}
    NoCustomer = NoCustomer
    Now = 250
    Day = 2
    Calendar <- MCCalendar
    Numbers = {0, 1, 5}
    Sigma = 2
    Held <- MCHeld
    Growing = {0, 1, 2, 4, 5}
    MaxSeries = 6
INVARIANT ScheduledRunsDeliver
CHECK_DEADLOCK FALSE
