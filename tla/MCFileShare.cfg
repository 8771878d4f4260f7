CONSTANTS
    Shares = {s, r}
    Only = s
    Transfers = {t, u}
    MaxDownloads = 2
    Syncers = {loop, page}
    Loop = loop
    MaxListed = 1
    MaxMail = 2
    MaxFaults = 1
SPECIFICATION KindSpec
INVARIANTS
    DownloadsWithinLimit
    ReservationHonoured
PROPERTIES
    ShareReachable
CHECK_DEADLOCK FALSE
