SPECIFICATION Spec
CONSTANTS
    user = user
    manager = manager
    officer = officer
    second = second
    Users = {user, manager, officer, second}
    Requests = {r1}
    Handlers = {h1, h2}
    Asks <- Mixed
    InitialGrants <- AndTrader
    Nothing = Nothing
    MaxEnds = 1
SYMMETRY HandlerSymmetry
INVARIANTS
    TypeOK
    GrantsAreSignedOff
    ApprovedIsGranted
    OutcomesAreAudited
CHECK_DEADLOCK FALSE
