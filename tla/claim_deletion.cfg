SPECIFICATION HSpec
CONSTANTS
    f1 = f1
    f2 = f2
    s1 = s1
    NoEntry = NoEntry
    File = {f1}
    Session = {s1}
    SessionOf <- OneSession
    Backfill = 0
    BatchSize = 1
    EncRequired = TRUE
    AuthFailMax = 2
    Poison <- NoPoison
    Faults = {}
    MaxLines = 1
    MaxGen = 1
    MaxCrash = 0
    MaxCmd = 1
INVARIANTS
    DeletionCarriedOut
