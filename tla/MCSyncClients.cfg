CONSTANTS
    Fingerprints = {1, 2}
    Outcomes = {"ok", "lost"}
    Clients = {c1}
    Nodes = {}
SPECIFICATION SyncSpec
INVARIANTS
    EnvelopesOrdered
    VersionMeansList
    GuardedServiceUpToDate
PROPERTIES
    ListsNeverShrink
CHECK_DEADLOCK FALSE
