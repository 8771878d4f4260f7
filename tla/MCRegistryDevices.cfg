CONSTANTS
    Names = {n1, n2}
    Keys = {k1, k2}
    None = None
    PoolSize = 2
    MaxCodes = 2
    MaxCerts = 2
    MaxExpired = 1
    Outcomes = {"ok", "lost"}
SYMMETRY Symmetry
SPECIFICATION Spec
INVARIANTS
    AddressesUnique
    RekeyCodeHasPeer
CHECK_DEADLOCK FALSE
