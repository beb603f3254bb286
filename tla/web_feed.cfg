SPECIFICATION Spec
CONSTANTS
    all = all
    some = some
    NumRow = 4
    Present = {1}
    At <- MCAt
    Filter = {all, some}
    Matches <- MCMatches
    PageSize = 2
    CatchSize = 3
    NumLoad = 2
    NoFilter = all
    MaxOverlap = 1
    MaxChange = 1
    MaxFail = 1
    MaxDrop = 2
INVARIANTS
    TypeOK
    
