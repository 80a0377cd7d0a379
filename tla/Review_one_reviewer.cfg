SPECIFICATION Spec
CONSTANTS
    Clients = {c1}
    Workers = {w1,w2}
    Texts = {"text"}
    Ops = {"auto_run", "run_rca", "suggest_fix", "accept", "accept_and_post", "reject_local", "unclear", "reject", "save_human_rca"}
    AutoPostModes = {TRUE}
    JiraFaults = {"refused"}
    MaxRuns = 2
    MaxPosts = 2
SYMMETRY Symmetry
INVARIANTS AcceptedOnJira AutoCommentOnJira ManualRunsNeverPost
PROPERTIES JobsSingleFlight
CHECK_DEADLOCK FALSE
