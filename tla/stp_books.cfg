SPECIFICATION FairSpec
CONSTANTS
    Orders = {o1, o2}
    client = client
    paper = paper
    acme = acme
    Portfolios = {client, paper}
    Papers = {paper}
    Instruments = {acme}
    Tickets <- ClientAndPaper
    Prices = {2}
    InitialCash = 3
    DefaultCash = 4
    Nothing = Nothing
    MaxQueue = 2
    MaxFaults = 1
    MaxResets = 1
    MaxCrashes = 1
INVARIANTS
    TypeOK
    LedgerMatches
PROPERTIES
    SettlesAsPromised
    FilledIsBookedOrFlagged
    BookedEventuallySettles
CHECK_DEADLOCK FALSE
