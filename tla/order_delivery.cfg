SPECIFICATION FairSpec
CONSTANTS
    Orders = {o1}
    Requests = {r1}
    acme = acme
    Instruments = {acme}
    Tickets <- AllTickets
    Amendments <- NoAmendment
    Prices <- ThreePrices
    Nothing = Nothing
    MaxQueue = 3
    MaxFaults = 0
    MaxCrashes = 1
INVARIANTS
    AcceptedNotForgotten
    ExecutionsRespectTerms
PROPERTIES
    AcceptedIsWorked
CHECK_DEADLOCK FALSE
