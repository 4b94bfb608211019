\* A session may be idle for one tick and ends after three; three requests append.
SPECIFICATION FairSpec
CONSTANTS
    u1 = u1
    s1 = s1
    r1 = r1
    r2 = r2
    Nothing = Nothing
    Users <- MCUsers
    Tokens <- MCTokens
    Handlers <- MCHandlers
    Idle = 1
    Absolute = 3
    ExportCap = 1
    MaxAppends = 3
INVARIANTS
    TypeOK
    LoggedOutStaysOut
    AnswersAreAudited
    TrailHolds
PROPERTIES
    OnlyLiveSessionsServe
    EverySessionEnds
