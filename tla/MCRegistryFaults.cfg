CONSTANTS
    Names = {n1}
    Keys = {k1}
    None = None
    PoolSize = 1
    MaxCodes = 2
    MaxCerts = 3
    MaxExpired = 0
    Outcomes = {"ok", "sign", "conf", "lost", "late", "restart"}
SPECIFICATION Spec
INVARIANTS
    AckedRevocationsInForce
    TokensNeverReturn
PROPERTIES
    ImplementsLedger
CHECK_DEADLOCK FALSE
