SPECIFICATION Spec
CONSTANTS
    Orders = {o1, o2, o3, o4}
    client = client
    paper = paper
    acme = acme
    Portfolios = {client}
    Papers = {}
    Instruments = {acme}
    Tickets <- ClientTrades
    Prices = {1}
    InitialCash = 3
    DefaultCash = 4
    Nothing = Nothing
    MaxQueue = 2
    MaxFaults = 0
    MaxResets = 0
    MaxCrashes = 0
INVARIANTS
    ZeroManualSteps
CHECK_DEADLOCK FALSE
