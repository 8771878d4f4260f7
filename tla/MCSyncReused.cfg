CONSTANTS
    Fingerprints = {1, 2}
    Outcomes = {"ok", "lost"}
    Clients = {c1}
    Nodes = {}
SPECIFICATION SyncSpec
INVARIANTS
    CurrentClientsHaveAcked
CHECK_DEADLOCK FALSE
