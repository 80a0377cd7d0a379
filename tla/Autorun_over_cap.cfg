SPECIFICATION Spec
CONSTANTS
    Keys = {k1, k2}
    QaKeys = {}
    Tickers = {poller, poll_now}
    Poller = poller
    Panels = {}
    Updates <- NoUpdate
    Ops = {}
    InitialSettings <- SwitchedOn
    SEARCH_MAX = 2
    Lookback = 1
    DayLength = 2
    MaxTime = 1
    MaxLive = 1
    Touched = {}
    Texts = {"text"}
SYMMETRY Symmetry
INVARIANTS ParallelCap

CHECK_DEADLOCK FALSE
