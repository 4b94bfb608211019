# Formal models of NomuTrade

TLA+ models of the trading platform under `src/backend`: a FastAPI application with
SQLAlchemy sessions, a transactional outbox, an event bus and background workers that run in the
same process. Each module is translated from the Python source; `PROJECT.json` maps every
definition to the lines it stands for, and lists the components, the hazards of the code, the
runs, a mutant for every property, the disagreements found and the theorems.

All paths below are relative to `src/backend/app/` unless they start with `src/` or `docs/`
(`docs/` is `src/docs/`).

## 1. The system

One process holds the HTTP handlers and, started by `core/events.py: run_worker_coroutines`, the
workers. They share the database, the in-process bus (or Redis) and a few module-level
dictionaries. What matters for interleavings:

* **Sessions.** A handler reads rows, awaits, changes attributes and commits. Nothing is locked
  when it is read and no row has a version; an UPDATE names the columns whose value differs from
  the one read. So every handler is a read step and a write step, with any other handler or worker
  between them. On PostgreSQL (`src/docker-compose.yml`) this is read committed; on SQLite, the
  development default, transactions are serialised only from their first write on, so the read
  before it may be just as old.
* **Outbox.** Events are written in the transaction of the change; `_relay_batch` publishes
  unpublished rows and then commits their marks. A failed commit publishes again.
* **Bus.** `InProcessBus` puts events into the `asyncio` queue of each subscriber; a restart
  empties the queues.
* **Workers** take one event at a time, and catch and log exceptions per event. The first exception
  that escapes a worker stops all of them (`run_worker_coroutines`), while the API goes on.

| component | state | operations | hard behaviour |
|---|---|---|---|
| Order API, `modules/orders/api.py` | `orders`, outbox | submit, cancel, amend, queries | retries with one idempotency key; cancel and amend against the engine |
| Validation, `orders/validation.py` | none | rule chain | compares with what is booked, not with what is accepted |
| Execution engine, `orders/workers.py` | working book in memory, `executions` | rebuild at start, fill on acceptance, fill on tick, park, convert STOP_LIMIT | stale reads, redelivery, restart, a failing event |
| STP worker, `orders/workers.py` | `positions`, cash, `settlement_instructions` | book an execution, record an exception | absolute values written from earlier reads, no retry, loss of events |
| Settlement sweeper, `orders/workers.py` | lifecycle states, affirmation times in memory | EXECUTED → AFFIRMED → SETTLED | one commit for all rows, restart between two states |
| Outbox and bus, `core/events.py` | `outbox_events`, queues | write, relay, subscribe | redelivery, loss at restart, Redis readers that start at the end |
| Access requests, `modules/access/` | `access_requests`, `approval_steps`, `access_grants` | submit, extend, withdraw, decide, revoke, sweep, roles | concurrent approvers, role changes between levels, expiry |
| Authorization, `core/security.py` | sessions, permission cache | authenticate, check, invalidate | stale cache, resurrected session |
| Break-glass, `modules/breakglass` | activations, grants | activate, review | double review |
| Privileged access, `modules/pam` | checkouts | check out, check in | external vault that fails between two steps |
| Audit, `core/audit.py`, `modules/auditlog` | hash chain | append, verify, export | concurrent appends fork the chain |
| Paper trading, `modules/paper` | PAPER portfolios, initial balances in memory | create, reset, leaderboard | reset against the STP worker |
| Market data, `modules/marketdata` | latest prices, simulation clock | load, replay, warm, history | a stored price over a live tick |
| Alerts, `modules/analytics` | rules, rule cache, last prices | create, disable, evaluate | invalidation during a reload |
| Notifications, `modules/notifications` | rows, preferences in memory | deliver, list, read, prefer | suppression of security categories |
| Portfolios, `modules/portfolios` | snapshots | value, transact, snapshot | cash and positions read apart |
| Restricted list, reports, admin, assistant, client, infrastructure | | | queries, formatting, I/O |

What must hold, per component, in one line each:

* orders: an accepted order is executed at most once, on its terms, and never forgotten; a closed
  one stays closed;
* settlement: every execution is booked exactly once, the books are the sum of the bookings, and
  what is booked is settled;
* access: nobody holds a role by a request without the approvals of its chain, an approval that
  closes a request makes the grant, the audit trail shows how each request closed;
* enforcement: a permission is used at most a cache period after its grant gave it, a credential needs
  a live grant, an ended grant does not stay ACTIVE;
* sessions and audit: a session keeps within its lifetimes and ends, sign-out is final, whoever got an
  answer is in the trail, and the trail leads back to its beginning;
* alerts and notifications: a rule fires once and in the end, nothing is told that was not committed,
  what is posted is told;
* market feed: a row is stored once, the clock is where the replay is, a chart shows the tape up to
  the clock and nothing after it.

## 2. The modules

| module | what it is |
|---|---|
| `OrderLifecycle` | API handlers, relay and execution engine for `orders.accepted` |
| `SettlementContract` | abstract: executions booked in one step each, then advanced |
| `StpSettlement` | validation of cash and holdings, relay, STP worker, sweeper, paper resets |
| `AccessRequests` | submission to grant, with revocation, expiry and the sweeper |
| `GrantEnforcement` | permission resolver and cache, operations on grants and roles, break-glass, credential checkout, sweep |
| `AuditTrail`, `Sessions` | the hash chain; both session stores, sign-in, sign-out, export |
| `PriceAlerts`, `Notifications` | alert rules and their evaluator; delivery and preferences |
| `AlertDelivery` | the two composed, sharing the outbox and the process |
| `DatasetLoader`, `MarketFeed` | chunked load of the dataset; registry, clock, replay and charts, on top of it |
| `MC...` | constants for TLC: tickets, requests, seeded grants, tape, symmetry |
| `...Proofs` | theorems and their proofs |
| `SetLemmas` | facts about sums, extremes and finite sets that several proofs cite |

`DatasetLoader` is extended by `MarketFeed`, `AuditTrail` by `Sessions`; `AlertDelivery` extends
`PriceAlerts` and instantiates `Notifications` on the same `outbox` and `faults`. The other modules
meet in the database only, at tables one of them treats as its environment: the price feed in
`OrderLifecycle`, the filled orders in `StpSettlement`, the approval of a request in
`GrantEnforcement`.

### OrderLifecycle

`orders` is the table, keyed by idempotency key (unique in the database, so a row and its key name
each other); the ticket a key carries is chosen in `Init`, which stands for the client's choice.
`executions`, `outbox` (rows with `published_at` NULL), `queue`, `book` and `snapshot` are the
variables of the code with those names. `engine` is the program counter of the engine with what it
has read; `req` is the same for each HTTP handler.

`SubmitRead/SubmitWrite`, `CancelRead/CancelWrite`, `AmendRead/AmendWrite` are the handlers.
`validate_order` is a free verdict (accepted or rejected) but for the rule that a BUY without any
price is answered 503 (`SubmitSuspended`, `AmendSuspended`). `Relay` and `RelayUnmarked` are the two
outcomes of `_relay_batch` for a row. `RebuildRead/RebuildWrite` are `_rebuild_book`; `Load`,
`SkipClosed`, `KeepWorking`, `ConvertStopLimit`, `Fill` are `_fill_order`; `Reload`, `ParkOpen` are
`_park_open`. `EventFault` is an exception caught by the loop, `RebuildFault` the one that is not,
`Restart` the process. `Warm` may overwrite a newer price, as `warm_from_db` may.

### StpSettlement and SettlementContract

An execution is named by its order, which `SingleFillHolds` justifies. The STP worker is three
steps: it finds no instruction and reads the portfolio (`StpTake`), reads the position (`StpRead`),
and writes absolute new values of both with the instruction in one transaction (`StpBook`). A reset
of a paper account reads cash, then sets it and deletes the positions: the only other writer of
these tables. `Bookable` holds the two ways the transaction itself must fail, a division by a zero
new quantity and an UPDATE of a position row that is gone. `young` is the set of instructions whose
delay is still running; a restart forgets when an instruction was affirmed, and `Restart` says so.
`exceptions` are the executions with an STP_EXCEPTION row, `logged` those whose recording failed too.
The average cost is left out (no property reads it), its division is not.

`SettlementContract` is what `docs/design/02` promises: `Book` moves cash and holding of the one
portfolio by the value and quantity of the one trade, `Advance` moves any set of unsettled
executions one state. `SettlesAsPromised` is the refinement, with the state of every client
portfolio (not PAPER) as the mapping; paper accounts are outside because a reset moves their books.

### AccessRequests

A decision is three steps: the checks of the route (`DecideRead`), the second evaluation of the
conflict matrix that fixes the length of the chain (`Assess`), and the commit (`Reject`,
`ApproveLevel`, `ApproveGrant`, `ApproveExtension`; `ExtensionConflict` rolls back). The first query
of `apply_decision` flushes the UPDATE of the step, so two decisions of one row wait for each other
(`RowFree`); decisions of different rows do not. `batches` numbers the sets of rows inserted for a
request, because concurrent approvals leave several. Time is abstracted: a grant is in its window
or `lapsed`; an extension may move the end either way. `Permitted` lets an approver act whose grant
lapsed, as the minute of permission cache does. `sweep` is what the sweeper has read and not yet
expired. A submission takes the grant its justification names, if any: `parse_extension_grant_id`
reads every justification, so one typed by a user may begin as those of `extend_grant` do, and its
request ends as an extension of that grant. One that names no grant is refused at the last approval
(404) exactly as for a grant that is gone (409), and has no case of its own.

### GrantEnforcement

`require_permission` is `Hit`, or `Fill` and `Store`: the query runs between the two, and the entry
lives from before the query. A request that passed (`permitted`) carries the set it was judged by
until its handler ends, which is when it acts. Operations on grants commit (`ApproveCommit`,
`ExtendCommit`, `RevokeCommit`, `ActivateCommit`) and invalidate after; an approval may fail between
the two, because it commits a second audit event there (`Abandon`). `update_role` does it the other
way round. `CheckoutRetrieve` is the query of `active_grant_for_role` with the call of the vault
that follows it, `CheckoutCommit` the row; `CheckinRotate` and `CheckinCommit` likewise. The sweep
reads once, then commits and invalidates grant by grant. `lastHeld` is a history: the last time at
which a user had a role or permission from a grant in its window.

### Sessions and AuditTrail

`MemoryGet` is one step, because the store in memory awaits nothing; `RedisGet`, then `RedisPut` or
`RedisDrop`, are the two calls of Redis. Time is kept as ages (`seen`, `left`, `ttl`), so it goes on
without a bound. `Login`, `Create`, `ReadLast`, `Flush`, `Commit` are `dev_login` with `write_audit`;
an export takes the same last three steps, a refused sign-in too; how many events the filter of an
export matches, and so whether it is over the cap, is any number up to the length of the trail. An audit event is known by its
number, because its hash covers content and predecessor; the number is given by the flush, so the
order of numbers and the order of commits may differ, as on PostgreSQL. `Deactivate` stands for the
change of `users.status`, which is read by the code and written by none of it.

### PriceAlerts, Notifications, AlertDelivery

An endpoint commits, then calls `invalidate_alert_cache`, in two steps. `TickReload` is the query of
`_active_rules_for`, `Store` what happens after it: the stamp is the time before the query. `FireRead`
and `FireCommit` are the read and the commit of a firing. All rules of a tick fire in one pair of
steps; the code does one after the other, which differs only in that a later one may be disabled
before it is read. The evaluator's subscription holds `MaxQueue` ticks. `Deliver` is
`handle_notify`; `DeliverFault` drops the event as the worker does. `Accepted` gives the part of a
patch that is applied before a bad entry ends it. `outcome` is a history of what became of an event
that is in no inbox.

### DatasetLoader and MarketFeed

A load is a plan of chunks, each a commit; the plan skips tables that have any row. Rows come in the
order of their times: `Before` is the rank of a row, by which `Chunks` cuts and `InOrder` lists; the
queries and the files are sorted so. Times are small numbers of which the days are intervals. Files are constants; the series of a bond is generated on
the minutes of the first equity in the database. `Bootstrap`, `LoadBars`, `StartPass`, `NextBars` are
the replayer; `Recorded` are the times of which there may be a row, and `TapeAssumption` says that
each is a candle with its open and close in its range. `WarmRead` and `WarmWrite` are the two halves of `warm_from_db` for an instrument,
between which the replay may tick it. A chart is three steps: the clock, the reference day, the rows
with the aggregation. Volumes of the registry are left out; those of candles are in.

## 3. Runs

| run | instance | shows |
|---|---|---|
| `order_safety` | 2 orders (a resting BUY, a market SELL), 1 handler, amendments, 1 fault, 1 restart, queue of 2 | types, single fill, book complete, closed stays closed |
| `order_delivery` | 1 order of any type and side, 3 prices, 1 restart, no faults, fairness | nothing accepted is forgotten; parked, filled or cancelled in the end; terms kept |
| `order_cancel_race` | 1 order, 1 handler | finding: a fill overwrites a cancellation |
| `stp_books` | 2 orders over a client and a paper account, 1 fault, 1 reset, 1 restart, fairness | ledger, refinement, booked or flagged, booked is settled |
| `stp_crash` | 1 order, 1 restart, no faults, fairness | finding: an execution lost with the queue |
| `stp_short` | 4 orders of one client in one instrument, nothing fails | finding: short position, division by zero |
| `access_requests` | 4 users, 1 request of three kinds, naming any grant to extend, 2 handlers, 1 lapse or revocation | sign-off, grant, audit |
| `access_sod` | 2 conflicting requests, 1 handler | finding: a BLOCKED pair is granted |
| `enforcement` | 1 administrator with a grant that ends and one that goes on, 2 handlers, 3 requests, cache period 2, clock to 2 | age of authority, checkout needs a live grant, rotation, review, sweep |
| `sessions` | both stores, 1 user, 1 session, 2 requests at a time, 3 appends, idle time 1, lifetime 3 | lifetimes, final sign-out, answers audited, trail holds, sessions end |
| `price_alerts` | 1 rule (ABOVE or CROSSES_BELOW), 1 event of another module, 3 patches, 1 failure or restart | fires once and in the end, told is audited, what is published is told or queued |
| `market_feed` | 2 equities, 1 bond, 1 instrument of another era, chunks of 2 rows, 2 failures or restarts, 1 request, looping replay | rows once, load complete, day ranges, charts, clock |

### Bounds, and why they are enough

* `MaxQueue`: two places hold an acceptance and a tick, or one event twice, which is what an engine
  that takes one event at a time can confuse. The real queue is unbounded.
* `MaxFaults`, `MaxCrashes`, `MaxResets`: one of each, at any moment. The properties are violated
  by a single fault if at all (each mutant is caught with one), and the proofs have no bound.
* two orders are needed for a tick that serves several orders of the book; one suffices where the
  property is about one order and the liveness check would otherwise be too long.
* one request with two handlers covers two approvers of a level, one approver in two tabs, and an
  approval against a withdrawal, a rejection, a revocation and the sweeper. The asks are a standard
  role, held or to be extended; a role flagged beside it, whose chain changes when that grant lapses
  between two levels; and a privileged role for a colleague.
* four orders of one client are the least with which a short position is made and covered: a purchase
  to hold, two sales of the same units, and the covering purchase.

* `MaxTime = TTL` in `enforcement`: an entry cached at the start expires at the last moment, and one
  cached after a grant ended is seen too. The administrator approves, revokes, edits the role,
  activates, reviews and checks out for himself; a second user only repeats him, since nothing but the
  key of the cache tells users apart.
* one session is enough for the properties of a session, because sessions meet only in the trail;
  three appends are the fewest with which an event can have a predecessor and a successor, one of them
  rolled back. Two ticks more than the idle time let a session die of either lifetime.
* one rule and one foreign event: the cache is split by symbol and rules do not read each other.
  Faults and restarts share a bound of one, placed anywhere.
* two equities, one of them with a daily file that overlaps its minute bars and more than one chunk:
  the other lets a load be interrupted between two symbols. Bars on two days give a chart a partial
  day and an aggregated one.

`CHECK_DEADLOCK FALSE` stands in the runs whose counters (restarts, lapses, requests) run out, after
which clients owe nothing and the system may rest.

### Fairness

`OrderLifecycle!Fairness`: weak fairness of the engine's step, of the relay for each row, and of the
feed for each instrument. The engine is one coroutine that awaits its queue for ever, the relay polls
every 0.2 s, the replayer loops over the dataset. Clients, faults, restarts and `Warm` have none.
`StpSettlement!Fairness`: weak fairness of the relay, of the end of each delay, of the worker and
of the sweeper, which loops every second. Weak fairness is enough as none of these steps is disabled
again and again by others. `AccessRequests` has no fairness: no document promises that a request is
decided, and humans decide. `GrantEnforcement`: the clock and the sweep, which is a loop that
sleeps, catches every exception and starts again. `Sessions`: the clock only; that sessions end asks
nothing of any request. `AlertDelivery`: ticks, evaluator, the minute of the cache, relay and
delivery; not the endpoints, which may stop between their commit and the invalidation. `MarketFeed`:
load, bootstrap and replay, as long as their commits succeed (a failed one ends all workers, and
`ClockSettles` says so); requests have none.

## 4. What is proved

`tlapm` checks these for every value of the constants, from the named assumptions in each module
(`NothingAssumption`: None is no other value; the ranges of tickets, prices, grants and bounds).

`OrderLifecycleProofs`
: `TypeCorrect`, `SingleFillHolds`, `ClosedStayClosed`, `BookKept`, `TermsRespected`, `NotForgotten`:
  every safety property of `order_safety` and `order_delivery`. The invariant `FillInv` is `TypeOK`
  with: `SingleFill`; `ExecutedIsClosed` (an order with an execution has a closed status, and only
  such an order is FILLED); `ReadsAreUnfilled` (an order the engine is trying to fill or is parking
  has no execution: only the engine makes one); `ParkingIsFirstOpening` (while it is parked an order
  is ACCEPTED or CANCELLED and has no amendment pending); `AmendedWasOpen` (an order with a pending
  amendment is past ACCEPTED). `SingleFill` alone is not inductive: what the engine holds in its hands
  between reading and writing has to be known unfilled. `BookInv` is `TypeOK` with `BookIsComplete`:
  unless the engine is starting or dead every OPEN order is in the book, what the rebuild has still
  to visit is in the book, and a row the engine read as closed has not become OPEN since.
  `TermsRespected` has a hypothesis, `PlainOrders`: nobody amends, and tickets carry a limit only if
  their type has one, which is what the forms of the client send (`OrderTicket.tsx:141`; the API itself
  would keep a limit sent with a MARKET order and ignore it). `TermsInv` adds to `FillInv` that the
  terms the engine decides on are those of the row (`SeenIsCurrent`); that it converts no executed order
  is `ReadsAreUnfilled` again. `NotForgotten` has the hypothesis `MaxFaults = 0`, since a failed event
  does lose an order until the next restart. `KeptInv` adds that whatever is on its way to the engine has
  a row (`RowsExist`) and that an order read as closed is not ACCEPTED (`SkippedIsClosed`): an order that
  could be queued before its row is written would be skipped for good.

`StpSettlementProofs`
: `TypeCorrect`, `Implementation` (`Spec => SettlesAsPromised`) and `LedgerHolds`: every safety property
  of `stp_books`. The invariant is `TypeOK` with:
  `EventsAreFilled` (events in the outbox, the queue and the worker's hands are of filled orders);
  `WorkIsUnbooked` (what the worker holds has no instruction); `ReadsAreCurrent` (what the worker
  has read of a client's cash and position is what is there, because nobody else writes them);
  `SweepIsCurrent`. Every step is shown to be a step of the contract or a stutter. `LedgerInv` adds
  to it that finitely many orders are booked (`BookedIsFinite`), each of them filled, and that cash and
  holdings are the sums over them: a booking adds one order to a sum (`SumAdd`), and every other step
  leaves the booked orders and what they were filled at alone. Portfolios that a reset may write are
  outside of it, as they are of the contract.

`AccessRequestsProofs`
: `TypeCorrect`, `SignedOff`, `Granted`, `Audited`. The invariant `IInv` adds to the three
  properties `StepsClimb` (a row of a level exists only if every lower level is approved in the
  audit trail) and `AssessedWell` (the length of chain a handler found is at least what the role
  asks for). The conflict matrix may shorten the chain of a flagged request between two levels, and
  that is why the properties speak of the levels the role alone needs.

`AlertDeliveryProofs`
: `TypesHold`, `FiresOnce`, `ToldIsAudited`, `NothingSlipsThrough`: every safety property of
  `price_alerts`. The invariant `IInv` is the types of the alerts with:
  `AlertedIsClosed` (a rule has one alert at most, and a rule with one is TRIGGERED or DISABLED);
  `WritesAreFirst` (what the evaluator has read ACTIVE and is about to write has no alert: only the
  evaluator makes one, and one tick is handled at a time); `PostedIsAudited` (an event of a rule is in
  the outbox only with its alert, as both are one commit); `QueuedIsPosted` and `ToldIsPosted` (only what
  is in the outbox is queued, shown, mailed or lost). That a rule is never ACTIVE again is not enough
  for the first theorem: `disable_alert` may write between the evaluator's read and its commit, so the
  invariant is about alerts and not about the status the evaluator has read. `NothingSlipsThrough`
  has an invariant of its own, `Told`: an event that has left the outbox waits in the queue or has been
  dealt with (shown, mailed, off on both channels, or lost with a failure), and no stored preference
  silences a category that may not be silenced (`PreferenceTypes`), so that `Deliver` cannot either.

`SessionsProofs`
: `TypeCorrect`, `SignedOut`, `Audited`, `TrailKept`, `OnlyLiveServe`: every safety property of the
  `sessions` run, for any number of users, sessions and requests under way and any two lifetimes. The
  invariant has three layers. `Typed` adds to the types what a request holds at each of its steps
  (`WorkOK`). `Trail`: numbers given and not committed are distinct (`Given`), a writer is chained to a
  committed and older event (`Linked`), and, until two appends overlap, a writer is alone and at the
  end (`Chained`). `Lives`: what is stored, and what a request will write back, has its age and its
  idle time within what the history says (`Young`), and nobody is about to write back a session
  that was signed out cleanly (`Gone`): without that conjunct `LoggedOutStaysOut` is not inductive.

`GrantEnforcementProofs`
: `TypeCorrect`, `AuthorityRecent`, `CheckoutIsLive`, `ClosedIsRotated`, `EmergencyReviewed`: every
  safety property of the `enforcement` run. `Typed` adds to the types what a handler holds at each of
  its steps, and `Grows` that tables only grow and a grant keeps its user and role. `Remembered`: what
  a user has now, the history has seen now, and the history does not go back. `Recent` is what makes
  the age of an authority inductive: what a handler has read was held when it came, or, from the
  cache, less than `TTL` before (`HandlerRecent`), and an entry ends `TTL` after a moment at which
  its user still had all of it (`EntryRecent`); no invalidation is needed for this bound, which is why
  none that comes too late breaks it. `Rotating` (who is about to close a checkout has had its credential
  rotated) gives `ReturnedIsRotated`; `EmergencyIsReviewed` is inductive with the types.

`MarketFeedProofs`
: `TypesHold`, `RangeHolds`, `InsertedOnceHolds`, `FirstLoadIsComplete`, `ChartsHold`: every safety
  property of `market_feed`, for any files, tape, chunk size, day length and number of requests.
  `FeedInv` is the types of the tables and the plan (`LoadTypes`: what is stored of an instrument is
  finite and `Recorded`, what is planned are chunks of that) and of the feed (`FeedTypes`). In the
  latter, `SnapOK` says that a latest price is the close of a stored row, lies with its open in the
  range, and that the range is within that of a stored row of its day at either end; and `HandlerOK`
  says what a warm has read: a row that was stored then, which stays stored, because no step deletes.
  `Fresh` is `RowsAreInsertedOnce` with what makes it inductive: the chunks of a plan have no row in common; while equities are loaded, the chunks are of equities
  and the bonds that had no ticks when the load began still have none; outside a load nothing is planned.
  `OnCourse`: while nothing has failed, what each table holds and what is still to come for it
  (`Coming`) is together what it should hold (`Target`), for the tables that are `Due`, each kind of
  which is planned at a moment of its own. `FirstLoadIsComplete` has a hypothesis: at the first start
  only the tables of another era hold rows. Otherwise a table is skipped, which is what the loader is for.
  `ChartOK` follows a chart through its three reads: the reference day is that of a row it shows, which
  stays so while tables grow, and what is served is `DailyOf` the rows: `AggregateIsDaily` shows it of the
  fold of `_aggregate_daily`, row by row (`DailyOfMore`), `PartialIsCandle` of the last candle, and
  `DailyIsOfTheDays` of the two put together. The assumptions are those a file meets:
  finitely many rows, each instrument once in the registry, live bars from `LIVE_START` on, generated
  backfill before it, and `TapeAssumption`, which the CSV bars and `_bar` (`marketdata/history.py`)
  satisfy; that a row has its open and close in its range is what `RangeHolds` rests on.

`SetLemmas`
: `MapThenSumSet` over a finite set is the sum one adds element by element, whatever order
  the library takes them in (`SumAdd`, `SumUnique`); `Max` and `Min`; and two forms of induction. The
  induction theorems of the library take an operator, so facts about all finite sets, and about the
  folds over a sequence (`FoldUnique`, `FoldExists`, `FlatExists`), are proved by a smallest
  counterexample (`MinimalSubset`), and facts about all prefixes of a sequence by `Climb`, which says
  that a set of numbers with 0 and each successor is the whole interval.

Only model-checked: the liveness properties (`AcceptedIsWorked`, `FilledIsBookedOrFlagged`,
`BookedEventuallySettles`, `EndedIsSwept`, `MetAlertsFire`, `EventsReachTheirUser`, `ClockSettles`,
`EverySessionEnds`), as `tlapm` has neither fairness nor ENABLED; and the existence of the
counterexamples of the four runs that find one. Every invariant and every action property of a passing
run is a theorem.

## 5. Disagreements between code and documents

With a run:

1. `order_cancel_race`: a cancellation answered CANCELLED is filled (`orders/workers.py:139`).
2. `stp_crash`: an execution whose event was in memory at a restart is never booked
   (`core/events.py:139`, `src/DESIGN.md:149`).
3. `stp_short`: two sales of one holding are accepted; the covering purchase cannot be booked
   (`orders/workers.py:368`, `docs/design/02:8`).
4. `access_sod`: a BLOCKED pair of roles is granted when both were asked for first
   (`access/service.py:394`, `docs/design/09:61`).

Seen while modelling, without a run of its own.

Orders and settlement: the handler for a lost key race is unreachable, the loser gets a 500
(`orders/api.py:275`, `:296`); an amendment that loses against a fill changes a FILLED row
(`docs/design/16:255` calls orders immutable); an execution whose booking fails is never retried
(`docs/design/02`); a reset writes positions (`docs/design/16:257` says only the STP worker does).

Access: a rejection is overwritten by an approval that read the request before (`docs/design/08:22`,
"Rejection is terminal"); two approvers of the last level make two grants; a permission is used for up
to a cache period after the window of its grant (`docs/design/10:8`, "no request is ever authorized
outside its grant window"; `core/security.py:213`, "even when the caller goes through the 60 s
cache"); because of reads under way, an explicit invalidation gives nothing beyond that period;
emergency and privileged grants can be extended to the general cap, and an extension of a longer grant
shortens it; a reviewer may review an activation of his own.

Sessions and audit: over Redis, a sign-out that meets another request of the session is undone by
its write (`core/security.py:150`), until one of the two lifetimes ends the session; two appends under
way together fork the chain, where `src/backend/tests/test_smoke.py:89` checks a chain of one line;
a session whose sign-in failed at its audit event is in the store, though nobody has its token.

Alerts and notifications: an invalidation during a reload is lost, against "Force the next tick to
reload" (`analytics/__init__.py:425`), and the rule waits for the minute; setting the stamp to 0 does
nothing in the first minute of the host's uptime; with both channels off the categories that
`docs/design/14:8` says can never be silenced are; an unknown channel in a patch ends it with the
earlier ones applied; a delivery that fails is dropped, not retried.

Market feed: a crash between two chunks leaves a symbol partial for good (`loader.py:306`), and
without live bars the replay idles; a failing load ends all workers; a warm under way moves the clock
to the end of the data and overwrites a live price (`registry.py:56` says consumers never see past
the replay), until the next pass, or for good in `hold` mode; a later day stored while a chart is
served is folded into its reference day.

## 6. Plan

1. `OrderLifecycle`, `StpSettlement` with `SettlementContract`, `AccessRequests`, `GrantEnforcement`,
   `Sessions`, `AlertDelivery`, `MarketFeed`: done.
2. Proofs: done for every safety property a run checks. Nothing is stated of the paper accounts of
   `StpSettlement` beyond their types, because a reset and a booking under way overwrite each other.
3. `TradingPipeline`: `OrderLifecycle` and `StpSettlement` composed, the abstract submission and fill of
   the latter refined by the former, with the valuation snapshot as a reader of both.
4. `PreTradeRules` and `RoundTrips`: the rule chain and the FIFO matching of the leaderboard as pure
   operators against reference definitions.

## 7. Not modelled, and why

* Indicators, average cost, valuation and reports: decimal arithmetic over what other components keep.
* The random walk that feeds prices without a dataset, file parsing, news providers: input.
* The mock of the vault, the assistant, admin and governance views, search and list endpoints: they
  write nothing that is kept. The restricted list is one more reason for the free verdict of validation.
* Paper account creation: two concurrent requests make two accounts, which no code forbids.
* The Redis bus: the in-process bus is the default. The code runs as one uvicorn process, which the
  models take from `src/docker-compose.yml`; with several, caches and preferences would differ.
* Audit events inside longer units of work: they append in the same way, and hold their transaction
  for longer between flush and commit.
* The web client, Terraform, seed data beyond the role catalogue.

`PROJECT.json` gives every component its reason, and names the hazards no property covers with theirs.
