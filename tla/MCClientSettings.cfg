CONSTANTS
    Calls = {c, d}
    Kinds = {"mode"}
    Networks = {home, away}
    Interfaces = {lan}
    Relays = {r, t}
    Unset = Unset
    MaxRaces = 2
    MaxTrouble = 1
    MaxMoves = 1
    MaxCopies = 1
    MaxRequests = 2
    MaxUpsets = 4
    plan1 = plan1
    plan2 = plan2
    NoPlan = NoPlan
    Pages = {window, browser}
    Plans = {plan1, plan2}
    ActionsOf <- MCActionsOf
    MaxRate = 1
    MaxAsked = 1
    MaxMishaps = 1
SPECIFICATION UnionSpec
INVARIANTS
    AnsweredIsLoaded
    PlanRunsOnce
PROPERTIES
    GuardKeepsUp
    DefaultReturns
    KeysMeet
CHECK_DEADLOCK FALSE
