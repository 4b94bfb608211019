SPECIFICATION Spec
CONSTANTS
    user = user
    manager = manager
    officer = officer
    second = second
    Users = {user, manager, officer}
    Requests = {r1, r2}
    Handlers = {h1}
    Asks <- Conflicting
    InitialGrants <- Approvers
    Nothing = Nothing
    MaxEnds = 0
INVARIANTS
    BlockedPairsAreNeverHeld
CHECK_DEADLOCK FALSE
