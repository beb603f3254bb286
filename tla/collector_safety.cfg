SPECIFICATION Spec
CONSTANTS
    f1 = f1
    f2 = f2
    s1 = s1
    NoEntry = NoEntry
    File = {f1}
    Session = {s1}
    SessionOf <- OneSession
    Backfill = 1
    BatchSize = 2
    EncRequired = TRUE
    AuthFailMax = 1
    Poison <- SecondLineBad
    Faults = {"net", "truncate", "disk"}
    MaxLines = 2
    MaxGen = 2
    MaxCrash = 1
    MaxCmd = 1
CONSTRAINT OneInterruption
INVARIANTS
    TypeOK
    OffsetsVouched
    
    NoPlaintext
    OnlyPoisonDropped
