SPECIFICATION Spec
CONSTANTS
    Files = {"invoice", "api"}
    Module <- TheModule
    Ast <- TheAst
    MergeRequests <- TheMergeRequests
    Listing <- TheListing
    Contents <- TheContents
    FirstTrees <- OneTree
    Export <- TheExport
    Threads = {t1, t2}
    Queries <- TheQueries
    MaxPushes = 2
    MaxNights = 2
    MaxEdits = 1
    MaxQueries = 2
    MaxEvents = 2
    Tickets <- TheTickets
    Project = "billing"
    OtherSummaries <- OneOther
    ContextLines = 1
    MaxInvestigations = 1
INVARIANTS TypeOK CacheAgrees StampNotAhead HumanBlockKept ScreensNotBehindStamp QueriesAgree HighNamesTheWriter
SYMMETRY Symmetry
CHECK_DEADLOCK FALSE
