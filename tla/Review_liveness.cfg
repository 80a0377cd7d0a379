SPECIFICATION FairSpec
CONSTANTS
    Clients = {c1}
    Workers = {w1,w2}
    Texts = {"text"}
    Ops = {"run_rca", "suggest_fix", "raise_mr", "reject_fix", "accept_and_post", "reset", "reject", "restart"}
    AutoPostModes = {FALSE}
    JiraFaults = {"refused"}
    MaxRuns = 2
    MaxPosts = 1


PROPERTIES FailureKeepsVerdict RunEnds JobEnds
CHECK_DEADLOCK FALSE
