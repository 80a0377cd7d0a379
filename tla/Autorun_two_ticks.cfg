SPECIFICATION FairSpec
CONSTANTS
    Keys = {k1, k2}
    QaKeys = {}
    Tickers = {poller, poll_now}
    Poller = poller
    Panels = {}
    Updates <- NoUpdate
    Ops = {"run_rca", "reset"}
    InitialSettings <- OneADay
    SEARCH_MAX = 1
    Lookback = 0
    DayLength = 2
    MaxTime = 2
    MaxLive = 1
    Touched = {k1}
    Texts = {"text"}
INVARIANTS AutoRunOncePerTicket OneRunPerTicket
PROPERTIES TakenUp
CHECK_DEADLOCK FALSE
