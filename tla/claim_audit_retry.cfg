SPECIFICATION Spec
CONSTANTS
    claude = claude
    tool = tool
    helper = helper
    inner = inner
    console = console
    pager = pager
    NoProc = NoProc
    Proc = {claude, tool}
    Parent <- MCParent
    SessionOf <- MCSession
    Root = {claude}
    Denied = {}
    MaxPerPoll = 2
    MaxTracked = 2
    Faults = {"spool"}
    MaxRecords = 4
    MaxCrash = 0
    MaxClear = 0
INVARIANTS
    RetryIsIdempotent
CHECK_DEADLOCK FALSE
