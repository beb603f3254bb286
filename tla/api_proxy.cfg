SPECIFICATION Spec
CONSTANTS
    h1 = h1
    h2 = h2
    Handler = {h1, h2}
    None = None
    Text <- MCText
    Secret <- MCSecret
    SecretAtEnd <- MCSecretAtEnd
    Reminder = "<system-reminder>"
    Output = "output"
    Policy <- MCPolicy
    Reply <- MCReply
    MaxConv = 3
    MaxMsg = 2
    MaxToggle = 1
    MaxEdit = 1
    MaxFault = 2
INVARIANTS
    TypeOK
    OffStaysOff
    LogComplete
    RefusesTheNew
    GateHolds
    IdsTellApart
    RunsTold
CHECK_DEADLOCK FALSE
SYMMETRY Threads
