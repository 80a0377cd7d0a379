SPECIFICATION Spec
CONSTANTS
    Keys = {k1, k2, k3, k4}
    QaKeys = {k4}
    Tickers = {poller}
    Poller = poller
    Panels = {p1}
    Updates <- SwitchAndBadLimits
    Ops = {"restart", "jira_down"}
    InitialSettings <- SwitchedOn
    SEARCH_MAX = 2
    Lookback = 2
    DayLength = 2
    MaxTime = 3
    MaxLive = 1
    Touched = {}
    Texts = {"text"}
SYMMETRY Symmetry
INVARIANTS TypeOK ParallelCap DailyCap
CHECK_DEADLOCK FALSE
