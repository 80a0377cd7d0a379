SPECIFICATION Spec
CONSTANTS
    Clients = {c1}
    Workers = {w1}
    Texts = {"text"}
    Ops = {"auto_run", "reject_local"}
    AutoPostModes = {TRUE}
    JiraFaults = {}
    MaxRuns = 1
    MaxPosts = 1
SYMMETRY Symmetry
INVARIANTS RejectedOffJira

CHECK_DEADLOCK FALSE
