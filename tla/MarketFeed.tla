----------------------------- MODULE MarketFeed -----------------------------
(***************************************************************************)
(* The market feed after the load (modules/marketdata): the registry of    *)
(* latest prices and the simulation clock, which live in memory; their     *)
(* warming from the database, at start-up and by any request that misses a *)
(* price; the replay of the stored bars, which moves both; and the chart   *)
(* endpoint, which withholds what lies beyond the clock.                   *)
(*                                                                         *)
(* A warm and a chart ask the database several times, and everything else  *)
(* may happen in between.  Prices are the rows of Tape; time is in minutes *)
(* of which DayLength make a day.                                          *)
(***************************************************************************)
EXTENDS DatasetLoader, FiniteSetsExt

CONSTANTS
    Handlers,    \* requests that are served at the same time
    Charted,     \* instruments whose chart is asked for
    Tape,        \* open, high, low, close and volume of each row
    DayLength,
    Timeframes,  \* days of the timeframes of a chart; 0 is the intraday one
    ReplayMode,  \* REPLAY_MODE
    Nothing      \* None

Boot    == "boot"
Workers == Handlers \cup {Boot}

Candle == [open : Int, high : Int, low : Int, close : Int, volume : Int]

\* The times of which there may be a row.
Recorded ==
    (UNION {UNION {tables[i] : i \in Instruments} : tables \in Existing})
        \cup (UNION {Historical[i] \cup Live[i] : i \in ToSet(Equities)}) \cup Backfill

ASSUME FeedAssumption ==
    /\ Boot \notin Handlers /\ DayLength \in Nat \ {0}
    /\ Timeframes \subseteq Nat /\ Charted \subseteq Instruments
    /\ ReplayMode \in {"loop", "hold"}
    /\ Nothing \notin Times /\ Nothing \notin Instruments
\* The range of a row has its open and its close: so it is in every file, and
\* _bar makes it so.
ASSUME TapeAssumption ==
    \A i \in Instruments : \A t \in Recorded :
        LET row == Tape[i][t] IN
        row \in Candle /\ {row.open, row.close} \subseteq row.low..row.high

VARIABLES
    latest,   \* _LATEST
    simNow,   \* _SIM_NOW
    replay,   \* the bars that are replayed, and the time of the last group
    handler   \* what each request, and the bootstrap, has read

vars == <<loaderVars, latest, simNow, replay, handler>>

Day(t)      == t \div DayLength
NotReplayed == [bars |-> {}, at |-> Nothing]
Idle        == [at |-> "idle"]

Init ==
    /\ LoaderInit
    /\ latest = [i \in Instruments |-> Nothing]
    /\ simNow = Nothing
    /\ replay = NotReplayed
    /\ handler = [h \in Workers |-> Idle]

-----------------------------------------------------------------------------
(* The registry. *)

Later(t) == IF simNow = Nothing \/ t > simNow THEN t ELSE simNow

OpenForPrice(price, t, open, high, low) ==   \* mutant: the open is the price
    [price |-> open, ts |-> t, open |-> open, high |-> high, low |-> low]
Snapshot(price, t, open, high, low) ==
    [price |-> price, ts |-> t, open |-> open, high |-> high, low |-> low]

\* set_tick: a tick opens its day, or moves the range of the day (whose volume
\* is left out).
TickedOnAnyDay(snap, price, t) ==       \* mutant: the day is never opened again
    IF snap = Nothing THEN Snapshot(price, t, price, price, price)
    ELSE Snapshot(price, t, snap.open, Max({snap.high, price}), Min({snap.low, price}))
Ticked(snap, price, t) ==
    IF snap = Nothing THEN Snapshot(price, t, price, price, price)
    ELSE IF Day(snap.ts) # Day(t) THEN Snapshot(price, t, price, price, price)
    ELSE Snapshot(price, t, snap.open, Max({snap.high, price}), Min({snap.low, price}))

-----------------------------------------------------------------------------
(* warm_from_db. *)

Warm(missing) == [at |-> "warm", missing |-> missing, on |-> Nothing, row |-> Nothing]

Missing(S) == {i \in S : latest[i] = Nothing}

\* A request that lists the instruments; one that values a portfolio or checks
\* an order asks for fewer of them.
WarmBegin(h) ==
    /\ handler[h] = Idle
    /\ Missing(Instruments) # {}
    /\ handler' = [handler EXCEPT ![h] = Warm(Missing(Instruments))]
    /\ UNCHANGED <<loaderVars, latest, simNow, replay>>

WarmRead(h, i) ==
    /\ handler[h].at = "warm"
    /\ handler[h].on = Nothing
    /\ i \in handler[h].missing
    /\ handler' = [handler EXCEPT ![h].on = i, ![h].missing = @ \ {i},
                      ![h].row = IF stored[i] = {} THEN Nothing ELSE Max(stored[i])]
    /\ UNCHANGED <<loaderVars, latest, simNow, replay>>

\* Whatever the entry and the clock have become meanwhile.
WarmWrite(h) ==
    /\ handler[h].at = "warm"
    /\ handler[h].on # Nothing
    /\ LET i == handler[h].on  t == handler[h].row  c == Tape[i][t] IN
       IF t = Nothing THEN UNCHANGED <<latest, simNow>>
       ELSE /\ simNow' = Later(t)
            /\ latest' = [latest EXCEPT ![i] = Snapshot(c.close, t, c.open, c.high, c.low)]
    /\ handler' = [handler EXCEPT ![h].on = Nothing, ![h].row = Nothing]
    /\ UNCHANGED <<loaderVars, replay>>

WarmEnd(h) ==
    /\ h \in Handlers
    /\ handler[h].at = "warm" /\ handler[h].on = Nothing /\ handler[h].missing = {}
    /\ handler' = [handler EXCEPT ![h] = Idle]
    /\ UNCHANGED <<loaderVars, latest, simNow, replay>>

Warming(h) == (\E i \in Instruments : WarmRead(h, i)) \/ WarmWrite(h) \/ WarmEnd(h)

-----------------------------------------------------------------------------
(* The replay. *)

\* _bootstrap warms what may be traded once the load is done ...
Bootstrap ==
    /\ loader.at = "loaded"
    /\ handler[Boot] = Idle
    /\ handler' = [handler EXCEPT ![Boot] = Warm(Missing(tradable))]
    /\ UNCHANGED <<loaderVars, latest, simNow, replay>>

\* ... and _load_bars reads the bars of the live window, also of instruments
\* that are not replayed.
LoadBars ==
    /\ handler[Boot].at = "warm"
    /\ handler[Boot].missing = {} /\ handler[Boot].on = Nothing
    /\ replay' = [NotReplayed EXCEPT !.bars = UNION {Minutes(i) : i \in Instruments}]
    /\ handler' = [handler EXCEPT ![Boot] = [at |-> "replaying"]]
    /\ UNCHANGED <<loaderVars, latest, simNow>>

\* The instruments that have a bar at t are ticked together.
TickAll(t) ==
    latest' = [i \in Instruments |->
                  IF i \in tradable /\ t \in stored[i]
                  THEN Ticked(latest[i], Tape[i][t].close, t) ELSE latest[i]]

AnyTicked(t) == \E i \in tradable : t \in stored[i]

PlayOn(t) ==
    /\ handler[Boot].at = "replaying"
    /\ replay' = [replay EXCEPT !.at = t]
    /\ TickAll(t)
    /\ UNCHANGED <<loaderVars, handler>>

PassMayStart ==
    /\ replay.bars # {}
    /\ \/ replay.at = Nothing
       \/ ReplayMode = "loop" /\ replay.at = Max(replay.bars)

\* Each pass sets the clock back to the first bar.
FirstPassRebases ==                     \* mutant: only the first pass does
    /\ PassMayStart
    /\ simNow' = IF replay.at = Nothing THEN Min(replay.bars) ELSE simNow
    /\ PlayOn(Min(replay.bars))
StartPass ==
    /\ PassMayStart
    /\ simNow' = Min(replay.bars)
    /\ PlayOn(Min(replay.bars))

NextBars ==
    /\ replay.at # Nothing
    /\ \E t \in replay.bars :
          /\ t > replay.at
          /\ \A s \in replay.bars : s > replay.at => t <= s
          /\ simNow' = IF AnyTicked(t) THEN Later(t) ELSE simNow
          /\ PlayOn(t)

Replay == StartPass \/ NextBars

Boots == Bootstrap \/ LoadBars \/ Warming(Boot)

-----------------------------------------------------------------------------
(* get_prices. *)

Chart(at, i, days, clock, ref, rows, candles) ==
    [at |-> at, on |-> i, days |-> days, clock |-> clock, ref |-> ref,
     rows |-> rows, candles |-> candles]

Withheld(S, clock) == {t \in S : clock # Nothing /\ t > clock}

ChartClock(h, i, days) ==
    /\ handler[h] = Idle
    /\ handler' = [handler EXCEPT ![h] = Chart("clock", i, days, simNow, Nothing, {}, <<>>)]
    /\ UNCHANGED <<loaderVars, latest, simNow, replay>>

Shown(h) == LET c == handler[h] IN stored[c.on] \ Withheld(stored[c.on], c.clock)

ChartDay(h) ==
    /\ handler[h].at = "clock"
    /\ handler' = IF Shown(h) = {} THEN [handler EXCEPT ![h] = Idle]
                  ELSE [handler EXCEPT ![h].at = "day", ![h].ref = Day(Max(Shown(h)))]
    /\ UNCHANGED <<loaderVars, latest, simNow, replay>>

Rows(i, S) == LET s == InOrder(S) IN
              [k \in DOMAIN s |-> [c |-> Tape[i][s[k]], day |-> Day(s[k])]]

\* _aggregate_daily
Aggregate(rows) ==
    LET fold(candles, r) ==
          IF candles # <<>> /\ Last(candles).day = r.day
          THEN LET c == Last(candles).c IN
               Append(Front(candles),
                      [day |-> r.day,
                       c |-> [c EXCEPT !.high = Max({@, r.c.high}), !.low = Min({@, r.c.low}),
                                       !.close = r.c.close, !.volume = @ + r.c.volume]])
          ELSE Append(candles, [day |-> r.day, c |-> r.c])
    IN  FoldLeft(fold, <<>>, rows)

\* The rows from the reference day on make the last candle.
Partial(rows) ==
    [open   |-> rows[1].c.open,
     high   |-> Max({rows[k].c.high : k \in DOMAIN rows}),
     low    |-> Min({rows[k].c.low : k \in DOMAIN rows}),
     close  |-> Last(rows).c.close,
     volume |-> FoldLeft(LAMBDA sum, r : sum + r.c.volume, 0, rows)]

PartialOfLast(i, S, ref) ==             \* mutant: the last row is the candle
    LET daily == Aggregate(Rows(i, S))
        today == Rows(i, {t \in S : Day(t) >= ref})
    IN  Append(Front(daily), [day |-> ref, c |-> Last(today).c])
Daily(i, S, ref) ==
    LET daily == Aggregate(Rows(i, S))
        today == Rows(i, {t \in S : Day(t) >= ref})
    IN  Append(Front(daily), [day |-> ref, c |-> Partial(today)])

ChartRows(h) ==
    /\ handler[h].at = "day"
    /\ LET c    == handler[h]
           rows == {t \in Shown(h) : IF c.days = 0 THEN Day(t) >= c.ref
                                     ELSE Day(t) >= c.ref - c.days}
       IN  handler' = [handler EXCEPT ![h] =
              Chart("served", c.on, c.days, c.clock, c.ref, rows,
                    IF c.days = 0 THEN Rows(c.on, rows) ELSE Daily(c.on, rows, c.ref))]
    /\ UNCHANGED <<loaderVars, latest, simNow, replay>>

ChartEnd(h) ==
    /\ handler[h].at = "served"
    /\ handler' = [handler EXCEPT ![h] = Idle]
    /\ UNCHANGED <<loaderVars, latest, simNow, replay>>

Charting(h) ==
    \/ \E i \in Charted, days \in Timeframes : ChartClock(h, i, days)
    \/ ChartDay(h) \/ ChartRows(h) \/ ChartEnd(h)

-----------------------------------------------------------------------------
\* The process starts again: reset_registry, and the load from its beginning.
Restart ==
    /\ faults < MaxFaults
    /\ faults' = faults + 1
    /\ loader' = Loading("start", {}, <<>>)
    /\ latest' = [i \in Instruments |-> Nothing]
    /\ simNow' = Nothing
    /\ replay' = NotReplayed
    /\ handler' = [h \in Workers |-> Idle]
    /\ UNCHANGED <<stored, tradable>>

Feed == UNCHANGED <<latest, simNow, replay, handler>>

Next ==
    \/ (Load \/ LoadFault) /\ Feed
    \/ Boots \/ Replay
    \/ \E h \in Handlers : WarmBegin(h) \/ Warming(h) \/ Charting(h)
    \/ Restart

Spec == Init /\ [][Next]_vars

\* The bootstrap goes on as long as its commits succeed, and the replay sleeps
\* a moment between two groups of bars.
FairSpec ==
    /\ Spec
    /\ WF_loader(Load /\ Feed)
    /\ WF_vars(Boots)
    /\ WF_replay(Replay)

-----------------------------------------------------------------------------
\* The tables, the registry and what is read of them have their types.
TypeOK ==
    /\ LoaderTypeOK
    /\ simNow = Nothing \/ simNow \in Times
    /\ replay.bars \subseteq UNION {stored[i] : i \in Instruments}
    /\ replay.at \in replay.bars \cup {Nothing}
    /\ \A i \in Instruments : latest[i] # Nothing =>
          latest[i].ts \in stored[i] /\ latest[i].price = Tape[i][latest[i].ts].close
    /\ \A h \in Workers : handler[h].at \in {"idle", "warm", "replaying", "clock", "day", "served"}

\* The range of a latest price is of its day and of no other, and has the price
\* in it, whether the entry was warmed from a row, ticked, or first the one and
\* then the other.
RangeIsOfTheDay ==
    \A i \in Instruments : latest[i] # Nothing =>
        LET snap == latest[i]
            bars == {Tape[i][t] : t \in {t \in stored[i] : Day(t) = Day(snap.ts)}}
        IN  /\ {snap.open, snap.price} \subseteq snap.low..snap.high
            /\ snap.high <= Max({c.high : c \in bars})
            /\ snap.low  >= Min({c.low : c \in bars})

\* A chart shows nothing beyond the clock its request has read, each day once
\* and in order, and each day as its bars make it: its first open, its last
\* close, its extremes and its volume.  (Rows of a later day that are stored
\* while the request is served are the exception: they are folded into the
\* reference day.)
ChartsAreTheTape ==
    \A h \in Handlers : handler[h].at = "served" =>
        LET chart == handler[h]
            of(d) == {t \in chart.rows : Day(t) = d}
            bar(t) == Tape[chart.on][t]
        IN  /\ Withheld(chart.rows, chart.clock) = {}
            /\ (chart.days # 0 /\ chart.ref = Day(Max(chart.rows))) =>
                 /\ {chart.candles[k].day : k \in DOMAIN chart.candles} = {Day(t) : t \in chart.rows}
                 /\ \A j, k \in DOMAIN chart.candles :
                       j < k => chart.candles[j].day < chart.candles[k].day
                 /\ \A k \in DOMAIN chart.candles :
                       LET d == chart.candles[k].day  c == chart.candles[k].c IN
                       /\ c.open  = bar(Min(of(d))).open
                       /\ c.close = bar(Max(of(d))).close
                       /\ c.high  = Max({bar(t).high : t \in of(d)})
                       /\ c.low   = Min({bar(t).low : t \in of(d)})
                       /\ c.volume = MapThenSumSet(LAMBDA t : bar(t).volume, of(d))

\* Whatever requests warm the registry with rows from the end of the data while
\* the replay is at its start, from some time on the clock is where the replay
\* is, and never past it: each pass sets it back, and an entry is missing only
\* once.  (The replay must loop and find bars; a load that failed needs a
\* restart.)
InStep == /\ {simNow, replay.at} \subseteq Times
          /\ simNow <= replay.at
          /\ AnyTicked(replay.at) => simNow = replay.at
ClockSettles ==
    <>[](\/ InStep
         \/ loader.at = "dead"
         \/ (handler[Boot].at = "replaying" /\ replay.bars = {}))
=============================================================================
