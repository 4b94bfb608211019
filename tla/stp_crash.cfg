SPECIFICATION FairSpec
CONSTANTS
    Orders = {o1}
    client = client
    paper = paper
    acme = acme
    Portfolios = {client}
    Papers = {}
    Instruments = {acme}
    Tickets <- ClientTrades
    Prices = {1}
    InitialCash = 3
    DefaultCash = 4
    Nothing = Nothing
    MaxQueue = 2
    MaxFaults = 0
    MaxResets = 0
    MaxCrashes = 1
PROPERTIES
    ExecutionsAreBooked
CHECK_DEADLOCK FALSE
