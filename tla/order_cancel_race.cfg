SPECIFICATION Spec
CONSTANTS
    Orders = {o1}
    Requests = {r1}
    acme = acme
    Instruments = {acme}
    Tickets <- RestingTicket
    Amendments <- NoAmendment
    Prices <- TwoPrices
    Nothing = Nothing
    MaxQueue = 2
    MaxFaults = 0
    MaxCrashes = 0
PROPERTIES
    ClosedOrderIsSkipped
