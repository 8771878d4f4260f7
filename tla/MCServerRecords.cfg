CONSTANTS
    MaxEdits = 2
    MaxCommands = 2
    Services = {m}
    Users = {u, v}
    Visitors = {u}
    Addresses = {x}
    Fetchers = {loop, page}
    Loop = loop
    Nil = Nil
    MaxChanges = 3
    MaxBroken = 1
SPECIFICATION UnionSpec
INVARIANTS
    Recoverable
    AckedChangesKept
    GuardedNeedsApproval
    AckedPauseStands
PROPERTIES
    FileHeals
    PauseTakesHold
CHECK_DEADLOCK FALSE
