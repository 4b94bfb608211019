SPECIFICATION Spec
CONSTANTS
    Orders = {o1, o2}
    Requests = {r1}
    acme = acme
    Instruments = {acme}
    Tickets <- MixedTickets
    Amendments <- RaiseLimit
    Prices <- TwoPrices
    Nothing = Nothing
    MaxQueue = 2
    MaxFaults = 1
    MaxCrashes = 1
SYMMETRY OrderSymmetry
INVARIANTS
    TypeOK
    SingleFill
    OpenOrdersAreWorked
PROPERTIES
    FilledAndRejectedStayClosed
CHECK_DEADLOCK FALSE
