CONSTANTS
    Mappings = {m1}
    Handlers = {h1, h2}
    Connections = {c1}
    MaxRuntimes = 2
    None = None
    older = older
    newer = newer
    faulty = faulty
    NoBuild = NoBuild
    p = p
    q = q
    Builds <- MCBuilds
    VersionOf <- MCVersionOf
    Good = {older, newer}
    First = older
    Appliers = {p}
SPECIFICATION UnionSpec
INVARIANTS
    NoPhantomConnections
    WorkingCopyKept
    StagedIsPublished
PROPERTIES
    MappingWithdrawn
    MappingServed
    ClientComesBack
CHECK_DEADLOCK FALSE
