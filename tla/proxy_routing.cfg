SPECIFICATION Spec
CONSTANTS
    cli = cli
    panel = panel
    gw1 = gw1
    gw2 = gw2
    Actor = {cli, panel}
    Panel = {panel}
    Gateway = {gw1, gw2}
    Torn = Torn
    Faults = {"slow", "disk", "read"}
    MaxEdit = 2
    MaxCrash = 1
SYMMETRY Gateways
INVARIANTS
    TypeOK
    GatewayKept
    SettingsKept
    OffMeansOff
