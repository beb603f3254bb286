SPECIFICATION Spec
CONSTANTS
    t1 = t1
    t2 = t2
    s1 = s1
    s2 = s2
    None = None
    Torn = Torn
    Token = {t1, t2}
    Slot = {s1, s2}
    AuthFailMax = 1
    Faults = {"net", "disk", "die"}
    MaxKid = 2
    MaxFault = 1
    MaxAdmin = 2
INVARIANTS
    TypeOK
    KeyKept
    EventsHaveDevice
    TokenKnown
PROPERTIES
    RevocationKept
    RevokedStoresNothing
CHECK_DEADLOCK FALSE
SYMMETRY Symmetry
