SPECIFICATION Spec
CONSTANTS
    k1 = k1
    k2 = k2
    k3 = k3
    Keys = {k1, k2, k3}
    Created <- DayByDay
    Stored = {k1, k2}
    Busy = {k1}
    Clients = {c1, c2}
    Ops = {"list", "period", "by_key", "scoreboard"}
    Ranges <- AllTimeAndOneDay
    SEARCH_MAX = 2
    CHUNK = 2
    PeriodStart = 2
    MaxEvents = 1
    MaxRequests = 2
    Texts = {"text"}
SYMMETRY Symmetry
INVARIANTS ListComplete RowsFresh CountsAgree
CHECK_DEADLOCK FALSE
