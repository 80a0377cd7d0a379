SPECIFICATION Spec
CONSTANTS
    Clients = {c1}
    Workers = {w1,w2}
    Texts = {"text"}
    Ops = {"run_rca", "reset"}
    AutoPostModes = {FALSE}
    JiraFaults = {}
    MaxRuns = 2
    MaxPosts = 0
SYMMETRY Symmetry
INVARIANTS OneInvestigation

CHECK_DEADLOCK FALSE
