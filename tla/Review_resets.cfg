SPECIFICATION Spec
CONSTANTS
    Clients = {c1,c2}
    Workers = {w1,w2}
    Texts = {"text"}
    Ops = {"auto_run", "run_rca", "reset", "reject_local", "reject", "restart"}
    AutoPostModes = {TRUE}
    JiraFaults = {"refused", "lost"}
    MaxRuns = 2
    MaxPosts = 2
SYMMETRY Symmetry
INVARIANTS TypeOK RunningHasThread JobRunningHasThread WithdrawnFirst
PROPERTIES OnlyAutoPostsDeleted
CHECK_DEADLOCK FALSE
