CONSTANTS
    Names = {dev}
    Keys = {dev, r1}
    None = None
    PoolSize = 1
    MaxCodes = 1
    MaxCerts = 3
    MaxExpired = 1
    Outcomes = {"ok", "sign", "conf", "lost", "late", "restart"}
    Device = dev
    Repairs = {r1}
    Pairings = {p1}
SPECIFICATION EitherSpec
INVARIANTS
    RepairSwitched
    UncommittedRepairHarmless
    RepairedDeviceCutOff
    PairingSwitched
CHECK_DEADLOCK FALSE
