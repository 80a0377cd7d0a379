SPECIFICATION Spec
CONSTANTS
    Texts = {}
    Projects = {"shop", "mail"}
    Files = {"f", "g"}
    Targets = {"dev", "prod"}
    DefaultRef <- TheDefault
    FirstTrees <- TheTrees
    Contents <- ThePush
    Evidence <- TheEvidence
    Proposals <- TheProposals
    Bodies <- TheBodies
    MaxEditFiles = 2
    MaxSuggestions = 2
    MaxRaises = 2
    MaxStarts = 3
    MaxEvents = 1
INVARIANTS TypeOK MrIsTheReviewedDiff FixIsCurrent StoredMrTrue
CHECK_DEADLOCK FALSE
