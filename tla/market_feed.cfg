\* One request beside the bootstrap, chunks of two rows, charts of the day, of
\* two days and of all days, and two restarts or failed commits, anywhere.
SPECIFICATION FairSpec
CONSTANTS
    first = first
    second = second
    bond = bond
    other = other
    news = news
    r1 = r1
    Nothing = Nothing
    Equities <- MCEquities
    Bonds <- MCBonds
    Others = {other}
    News = news
    Historical <- MCHistorical
    Live <- MCLive
    Backfill = {0}
    NewsFiles = {1, 2}
    LiveStart = 10
    Chunk = 2
    Existing <- MCExisting
    MaxFaults = 2
    Handlers = {r1}
    Charted = {first}
    Tape <- MCTape
    DayLength = 10
    Timeframes = {0, 1, 9}
    ReplayMode = "loop"
INVARIANTS
    TypeOK
    RowsAreInsertedOnce
    UninterruptedLoadIsComplete
    RangeIsOfTheDay
    ChartsAreTheTape
PROPERTIES
    ClockSettles
