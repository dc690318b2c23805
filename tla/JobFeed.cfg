SPECIFICATION Spec
CONSTANTS
    MaxJobs = 4
    JobId <- ReusedIds
    Target <- TwoTargets
    Junk = 7
INVARIANTS TypeOK IdFitsBlob TargetFitsBlob  BoardOfSession
