SPECIFICATION HSpec
CONSTANTS
    f1 = f1
    f2 = f2
    s1 = s1
    NoEntry = NoEntry
    File = {f1, f2}
    Session = {s1}
    SessionOf <- OneSession
    Backfill = 0
    BatchSize = 1
    EncRequired = FALSE
    AuthFailMax = 2
    Poison <- NoPoison
    Faults = {}
    MaxLines = 1
    MaxGen = 1
    MaxCrash = 1
    MaxCmd = 0
INVARIANTS
    PastStaysUnsent
