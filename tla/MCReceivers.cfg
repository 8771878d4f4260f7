CONSTANTS
    Fingerprints = {1, 2}
    Outcomes = {"ok", "conf"}
    Clients = {c1}
    Nodes = {n1}
SPECIFICATION OneFairSpec
PROPERTIES
    RevocationReachesReceiver
CHECK_DEADLOCK FALSE
