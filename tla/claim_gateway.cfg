SPECIFICATION Spec
CONSTANTS
    cli = cli
    panel = panel
    gw1 = gw1
    gw2 = gw2
    Actor = {cli}
    Panel = {}
    Gateway = {gw1, gw2}
    Torn = Torn
    Faults = {}
    MaxEdit = 2
    MaxCrash = 0
INVARIANTS
    OffRestores
