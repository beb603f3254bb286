SPECIFICATION FairSpec
CONSTANTS
    f1 = f1
    f2 = f2
    s1 = s1
    NoEntry = NoEntry
    File = {f1}
    Session = {s1}
    SessionOf <- OneSession
    Backfill = 0
    BatchSize = 2
    EncRequired = TRUE
    AuthFailMax = 2
    Poison <- SecondLineBad
    Faults = {"net"}
    MaxLines = 2
    MaxGen = 1
    MaxCrash = 1
    MaxCmd = 1
PROPERTIES
    StoresAndForwards
    LinesDelivered
    BackfillDelivers
