\* One rule, one event of another module, one user, three patches, and one
\* failure of the evaluator, the relay or the delivery, or one restart.  The
\* rule may fire and everything be delivered: nobody has to go on.
SPECIFICATION FairSpec
CONSTANTS
    r1 = r1
    notice = notice
    user = user
    Rules = {r1}
    Events = {r1, notice}
    Users = {user}
    Terms <- MCTerms
    Prices <- MCPrices
    Owner <- MCOwner
    Category <- MCCategory
    Patches <- MCPatches
    Nothing = Nothing
    MaxQueue = 1
    MaxFaults = 1
INVARIANTS
    TypeOK
    FiresAtMostOnce
    NotifiedIsAudited
    PublishedIsTold
PROPERTIES
    MetAlertsFire
    EventsReachTheirUser
CHECK_DEADLOCK FALSE
