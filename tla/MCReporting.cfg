\* One schedule and one request on demand, an editor beside the start-up, two
\* report rows, every fault, a template that fits its data.  Streams
\* of up to three orders, or four and two more, and series of up to six numbers.
SPECIFICATION MCSpec
CONSTANTS
    Schedules = {s1}
    Editors = {e1}
    Requests = {q1}
    Start = start
    Templates = {"t1"}
    Renderable = {"t1"}
    Unknown = "unknown"
    Crons = {"c1", "c2"}
    BadCron = "bad"
    Wanted <- MCWanted
    Faults = {"database", "disk", "redis", "crash"}
    MaxReports = 2
    Customers = {"k1", "k2"}
    Statuses = {"paid", "delivered"}
    Times = {0, 130, 190}
    Amounts = {0, 5000}
    NoCustomer = NoCustomer
    Now = 250
    Day = 2
    Calendar <- MCCalendar
    Numbers = {0, 1, 5}
    Sigma = 2
    Held <- MCHeld
    Growing = {0, 1, 2, 4, 5}
    MaxSeries = 6
INVARIANTS
    JobMatchesRow
    RunningIsRendering
    DoneIsAnnounced
    ReadOnce
    FiguresAddUp
    ShortSeriesNeverAlarm
CHECK_DEADLOCK FALSE
