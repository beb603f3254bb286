SPECIFICATION FairSpec
CONSTANTS
    claude = claude
    tool = tool
    helper = helper
    inner = inner
    console = console
    pager = pager
    NoProc = NoProc
    Proc = {claude, tool, helper, inner, console, pager}
    Parent <- MCParent
    SessionOf <- MCSession
    Root = {claude, inner}
    Denied = {console}
    MaxPerPoll = 2
    MaxTracked = 1
    Faults = {"xml", "spool"}
    MaxRecords = 4
    MaxCrash = 1
    MaxClear = 1
INVARIANTS
    TypeOK
    OnlyClaudeTree
    NothingMissed
PROPERTIES
    AuditComplete
    ResetNoticed
CHECK_DEADLOCK FALSE
