--------------------------- MODULE OrderLifecycle ---------------------------
(***************************************************************************)
(* One order from POST /orders to its fill: the request handlers of        *)
(* modules/orders/api.py (submit, cancel, amend), the outbox relay as far  *)
(* as `orders.accepted` is concerned, and the execution engine of          *)
(* modules/orders/workers.py with its in-memory working book.              *)
(*                                                                         *)
(* Every database session of the program reads its rows first and writes   *)
(* later, in one transaction that neither locks nor versions what it read. *)
(* A handler is therefore two steps here: one that reads and remembers,    *)
(* one that writes the columns it changed over whatever the row holds by   *)
(* then.  An order row is named by its idempotency key, which is unique in *)
(* the orders table; the ticket a key carries is chosen once, in Init.     *)
(***************************************************************************)
EXTENDS Naturals, Sequences, FiniteSets

CONSTANTS
    Orders,       \* idempotency keys, hence order rows
    Requests,     \* concurrent request handlers
    Instruments,
    Tickets,      \* the terms a client may submit
    Amendments,   \* the changes a client may ask for
    Prices,       \* prices the feed may tick at
    Nothing,      \* None: no price, no row read, no field given
    MaxQueue,     \* bound: events waiting in front of the engine
    MaxFaults,    \* bound: failed units of work
    MaxCrashes    \* bound: restarts of the process

Types   == {"MARKET", "LIMIT", "STOP", "STOP_LIMIT"}
Resting == {"LIMIT", "STOP", "STOP_LIMIT"}
Closed  == {"FILLED", "CANCELLED", "REJECTED"}
Working == {"ACCEPTED", "OPEN"}

Optional(S) == S \cup {Nothing}

Terms == [type : Types, side : {"BUY", "SELL"}, instrument : Instruments,
          quantity : Nat, limit : Optional(Nat), stop : Optional(Nat)]

Row == [status : Working \cup Closed \cup {"NONE"}, terms : Terms]

Amendment == [quantity : Optional(Nat), limit : Optional(Nat),
              stop : Optional(Nat)]

ASSUME NothingAssumption == Nothing \notin Nat \cup Orders
ASSUME TicketAssumption  == Tickets \subseteq Terms
ASSUME AmendAssumption   == Amendments \subseteq Amendment
ASSUME PriceAssumption   == Prices \subseteq Nat
ASSUME BoundAssumption   == MaxQueue \in Nat /\ MaxFaults \in Nat
                                             /\ MaxCrashes \in Nat

VARIABLES
    orders,      \* orders table: [status, terms] per key; "NONE": no row
    executions,  \* executions table, in commit order
    outbox,      \* orders.accepted rows whose published_at is NULL
    queue,       \* the engine's asyncio queue
    book,        \* the engine's working book, over all instruments
    snapshot,    \* the registry's latest price per instrument
    engine,      \* where the engine is in its current unit of work
    req,         \* what each request handler has read
    faults, crashes

db     == <<orders, executions, outbox>>
memory == <<queue, book, snapshot>>
vars   == <<orders, executions, outbox, queue, book, snapshot, engine, req,
            faults, crashes>>

Execution == [order : Orders, price : Nat, quantity : Nat]

Event == [stream : {"orders.accepted"}, order : Orders]
           \cup [stream : {"market.ticks"}, instrument : Instruments]

\* pc "boot": about to select the working orders; "rebuild": has selected
\* them; "load"/"decide": in _fill_order before/after the row is read;
\* "reload"/"park": in _park_open likewise; "down": the worker died.
\* accepted: the event is orders.accepted; todo: orders a tick has yet to try.
EngineShape(pcs, acc, order, seen, todo) ==
    [pc : pcs, accepted : acc, order : order, seen : seen, todo : todo]

Engine ==
         EngineShape({"boot", "idle", "down"}, {FALSE}, {Nothing}, {Nothing}, {{}})
    \cup EngineShape({"rebuild"}, {FALSE}, {Nothing}, {Nothing}, SUBSET Orders)
    \cup EngineShape({"load"}, {FALSE}, Orders, {Nothing}, SUBSET Orders)
    \cup EngineShape({"decide"}, {FALSE}, Orders, Row, SUBSET Orders)
    \cup EngineShape({"load", "reload"}, {TRUE}, Orders, {Nothing}, {{}})
    \cup EngineShape({"decide", "park"}, {TRUE}, Orders, Row, {{}})

RequestShape(ops, order, change, seen) ==
    [op : ops, order : order, change : change, seen : seen]

Request ==
         RequestShape({"idle"}, {Nothing}, {Nothing}, {Nothing})
    \cup RequestShape({"submit", "cancel", "failed"}, Orders, {Nothing}, {Nothing})
    \cup RequestShape({"amend"}, Orders, Amendments, Terms)

Booting == [pc |-> "boot", accepted |-> FALSE, order |-> Nothing,
            seen |-> Nothing, todo |-> {}]
Idle    == [Booting EXCEPT !.pc = "idle"]
NoRequest == [op |-> "idle", order |-> Nothing, change |-> Nothing,
              seen |-> Nothing]
Handling(op, o) == [NoRequest EXCEPT !.op = op, !.order = o]

Init ==
    /\ orders \in [Orders -> [status : {"NONE"}, terms : Tickets]]
    /\ executions = << >>
    /\ outbox = {}
    /\ queue = << >>
    /\ book = {}
    /\ snapshot = [i \in Instruments |-> Nothing]
    /\ engine = Booting
    /\ req = [r \in Requests |-> NoRequest]
    /\ faults = 0
    /\ crashes = 0

-----------------------------------------------------------------------------
(* The price rules of the engine. *)

MarketableOneSided(t, p) ==             \* mutant: the side is ignored
    t.type = "MARKET" \/ (t.limit # Nothing /\ p <= t.limit)
MarketableLimitOnly(t, p) ==            \* mutant: MARKET is forgotten
    t.limit # Nothing /\ (IF t.side = "BUY" THEN p <= t.limit ELSE p >= t.limit)

Marketable(t, p) ==
    \/ t.type = "MARKET"
    \/ /\ t.limit # Nothing
       /\ IF t.side = "BUY" THEN p <= t.limit ELSE p >= t.limit

StopTriggered(t, p) ==
    /\ t.stop # Nothing
    /\ IF t.side = "BUY" THEN p >= t.stop ELSE p <= t.stop

\* No price yet: nothing crosses.
Crossed(t, p) ==
    /\ p # Nothing
    /\ IF t.type \in {"STOP", "STOP_LIMIT"}
       THEN StopTriggered(t, p)
       ELSE Marketable(t, p)

-----------------------------------------------------------------------------
(* Request handlers. *)

\* The rule chain of validate_order is a free verdict here, except that a BUY
\* needs a price: without one the request is answered 503.
Unpriced(t) == t.side = "BUY" /\ snapshot[t.instrument] = Nothing

SetStatus(o, s) == orders' = [orders EXCEPT ![o].status = s]

Free(r) == req[r].op \in {"idle", "failed"}

\* POST /orders up to validation; a key that has a row is answered with that
\* row and nothing changes, so only an unused key is a step.
SubmitRead(r, o) ==
    /\ Free(r)
    /\ orders[o].status = "NONE"
    /\ req' = [req EXCEPT ![r] = Handling("submit", o)]
    /\ UNCHANGED <<db, memory, engine, faults, crashes>>

SubmitSuspended(r) ==
    /\ req[r].op = "submit"
    /\ Unpriced(orders[req[r].order].terms)
    /\ req' = [req EXCEPT ![r] = NoRequest]
    /\ UNCHANGED <<db, memory, engine, faults, crashes>>

\* The INSERT, with the verdict of the rule chain.  A key taken meanwhile
\* makes db.flush() raise IntegrityError, before the try block: HTTP 500.
SubmitWrite(r) ==
    LET o == req[r].order IN
    /\ req[r].op = "submit"
    /\ IF orders[o].status = "NONE"
       THEN /\ req' = [req EXCEPT ![r] = NoRequest]
            /\ \/ /\ ~Unpriced(orders[o].terms)
                  /\ SetStatus(o, "ACCEPTED")
                  /\ outbox' = outbox \cup {o}
               \/ SetStatus(o, "REJECTED") /\ UNCHANGED outbox
       ELSE /\ req' = [req EXCEPT ![r] = Handling("failed", o)]
            /\ UNCHANGED <<orders, outbox>>
    /\ UNCHANGED <<executions, memory, engine, faults, crashes>>

CancelRead(r, o) ==
    /\ Free(r)
    /\ orders[o].status \in Working
    /\ req' = [req EXCEPT ![r] = Handling("cancel", o)]
    /\ UNCHANGED <<db, memory, engine, faults, crashes>>

CancelWrite(r) ==
    /\ req[r].op = "cancel"
    /\ SetStatus(req[r].order, "CANCELLED")
    /\ req' = [req EXCEPT ![r] = NoRequest]
    /\ UNCHANGED <<executions, outbox, memory, engine, faults, crashes>>

AmendRead(r, o, a) ==
    /\ Free(r)
    /\ \E f \in DOMAIN a : a[f] # Nothing
    /\ orders[o].status = "OPEN"
    /\ req' = [req EXCEPT ![r] = [op |-> "amend", order |-> o, change |-> a,
                                  seen |-> orders[o].terms]]
    /\ UNCHANGED <<db, memory, engine, faults, crashes>>

\* The UPDATE names only the columns whose new value differs from the one read.
Overwrite(new, read, current) ==
    IF new = Nothing \/ new = read THEN current ELSE new

Amended(t, a, read) ==
    [t EXCEPT !.quantity = Overwrite(a.quantity, read.quantity, @),
              !.limit    = Overwrite(a.limit, read.limit, @),
              !.stop     = Overwrite(a.stop, read.stop, @)]

\* A failed re-validation rejects the order; a passed one leaves its status.
AmendWrite(r) ==
    LET o == req[r].order IN
    /\ req[r].op = "amend"
    /\ \/ SetStatus(o, "REJECTED")
       \/ /\ ~Unpriced(req[r].seen)
          /\ orders' = [orders EXCEPT ![o].terms =
                                   Amended(@, req[r].change, req[r].seen)]
    /\ req' = [req EXCEPT ![r] = NoRequest]
    /\ UNCHANGED <<executions, outbox, memory, engine, faults, crashes>>

AmendSuspended(r) ==
    /\ req[r].op = "amend"
    /\ Unpriced(req[r].seen)
    /\ req' = [req EXCEPT ![r] = NoRequest]
    /\ UNCHANGED <<db, memory, engine, faults, crashes>>

-----------------------------------------------------------------------------
(* Events: the outbox relay and the price feed. *)

\* A cold registry is filled from the stored ticks, without an event.  The
\* reader looked at the registry before an await, so it may overwrite a tick
\* that came since: the step has no guard on the current price.
Warm(i, p) ==
    /\ snapshot' = [snapshot EXCEPT ![i] = p]
    /\ UNCHANGED <<db, queue, book, engine, req, faults, crashes>>

Accepted(o)  == [stream |-> "orders.accepted", order |-> o]
TickOf(i)    == [stream |-> "market.ticks", instrument |-> i]

Publish(o) ==
    /\ engine.pc # "down"                \* the supervisor stops them together
    /\ o \in outbox
    /\ Len(queue) < MaxQueue
    /\ queue' = Append(queue, Accepted(o))
    /\ UNCHANGED <<orders, executions, book, snapshot, engine, req, crashes>>

Relay(o) == Publish(o) /\ outbox' = outbox \ {o} /\ UNCHANGED faults

\* The batch's commit fails after the publish: the row is published again.
RelayUnmarked(o) ==
    /\ faults < MaxFaults
    /\ Publish(o)
    /\ faults' = faults + 1
    /\ UNCHANGED outbox

\* One place in the queue stays free for the relay (MaxQueue is a bound of
\* the model; the program's queue has none).
Tick(i, p) ==
    /\ engine.pc # "down"
    /\ Len(queue) + 1 < MaxQueue
    /\ snapshot' = [snapshot EXCEPT ![i] = p]
    /\ queue' = Append(queue, TickOf(i))
    /\ UNCHANGED <<db, book, engine, req, faults, crashes>>

-----------------------------------------------------------------------------
(* The execution engine: one event at a time. *)

RecoveredOpenOnly     == {"OPEN"}       \* mutants of the start-up query
RecoveredAcceptedOnly == {"ACCEPTED"}
Recovered             == Working

ParksAnyStatus(row) == row.terms.type \in Resting     \* mutants
Parks(row) == row.status = "ACCEPTED" /\ row.terms.type \in Resting

\* _rebuild_book: every working order goes into the book; those accepted
\* before the restart that rest in the book are then written OPEN.
RebuildRead ==
    /\ engine.pc = "boot"
    /\ book' = {o \in Orders : orders[o].status \in Recovered}
    /\ engine' = [engine EXCEPT !.pc = "rebuild",
                                !.todo = {o \in book' : Parks(orders[o])}]
    /\ UNCHANGED <<db, queue, snapshot, req, faults, crashes>>

RebuildWrite ==
    /\ engine.pc = "rebuild"
    /\ orders' = [o \in Orders |-> IF o \in engine.todo
                                   THEN [orders[o] EXCEPT !.status = "OPEN"]
                                   ELSE orders[o]]
    /\ engine' = Idle
    /\ UNCHANGED <<executions, outbox, memory, req, faults, crashes>>

\* Nothing catches an exception here: the worker, then every worker, stops.
RebuildFault ==
    /\ engine.pc \in {"boot", "rebuild"}
    /\ faults < MaxFaults
    /\ faults' = faults + 1
    /\ engine' = [Idle EXCEPT !.pc = "down"]
    /\ UNCHANGED <<db, memory, req, crashes>>

OnAccepted ==
    /\ engine.pc = "idle"
    /\ queue # << >>
    /\ Head(queue).stream = "orders.accepted"
    /\ queue' = Tail(queue)
    /\ engine' = [Idle EXCEPT !.pc = "load", !.accepted = TRUE,
                              !.order = Head(queue).order]
    /\ UNCHANGED <<db, book, snapshot, req, faults, crashes>>

\* Go on with the rest of the book, or wait for the next event.
Proceed(rest) ==
    \/ rest = {} /\ engine' = Idle
    \/ \E o \in rest : engine' = [Idle EXCEPT !.pc = "load", !.order = o,
                                              !.todo = rest \ {o}]

OnTick ==
    /\ engine.pc = "idle"
    /\ queue # << >>
    /\ Head(queue).stream = "market.ticks"
    /\ queue' = Tail(queue)
    /\ Proceed({o \in book :
                  orders[o].terms.instrument = Head(queue).instrument})
    /\ UNCHANGED <<db, book, snapshot, req, faults, crashes>>

Load ==
    /\ engine.pc = "load"
    /\ engine' = [engine EXCEPT !.pc = "decide", !.seen = orders[engine.order]]
    /\ UNCHANGED <<db, memory, req, faults, crashes>>

\* A filled or closed order leaves the book on a tick.
Drop == IF engine.accepted THEN book ELSE book \ {engine.order}

SkipClosed ==
    /\ engine.pc = "decide"
    /\ engine.seen.status \notin Working
    /\ book' = Drop
    /\ Proceed(engine.todo)
    /\ UNCHANGED <<db, queue, snapshot, req, faults, crashes>>

Price == snapshot[engine.seen.terms.instrument]

DecidingOnAnyStatus == engine.pc = "decide"           \* mutant
Deciding == engine.pc = "decide" /\ engine.seen.status \in Working

KeepWorking ==
    /\ Deciding
    /\ ~Crossed(engine.seen.terms, Price)
    /\ IF engine.accepted
       THEN engine' = [engine EXCEPT !.pc = "reload", !.seen = Nothing]
       ELSE Proceed(engine.todo)
    /\ UNCHANGED <<db, memory, req, faults, crashes>>

Crossing == Deciding /\ Crossed(engine.seen.terms, Price)

\* The order becomes a LIMIT order in place and is read again.
ConvertStopLimit ==
    /\ Crossing
    /\ engine.seen.terms.type = "STOP_LIMIT"
    /\ orders' = [orders EXCEPT ![engine.order].terms.type = "LIMIT"]
    /\ engine' = [engine EXCEPT !.pc = "load", !.seen = Nothing]
    /\ UNCHANGED <<executions, outbox, memory, req, faults, crashes>>

\* The execution takes price and quantity from what was read; the row becomes
\* FILLED whatever it is by now.
Fill ==
    /\ Crossing
    /\ engine.seen.terms.type # "STOP_LIMIT"
    /\ executions' = Append(executions,
                            [order |-> engine.order, price |-> Price,
                             quantity |-> engine.seen.terms.quantity])
    /\ SetStatus(engine.order, "FILLED")
    /\ book' = Drop
    /\ Proceed(engine.todo)
    /\ UNCHANGED <<outbox, queue, snapshot, req, faults, crashes>>

ReloadUnread ==                         \* mutant: parks without reading
    /\ engine.pc = "reload"
    /\ engine' = [engine EXCEPT !.pc = "park"]
    /\ UNCHANGED <<db, memory, req, faults, crashes>>

\* _park_open reads the order again.
Reload ==
    /\ engine.pc = "reload"
    /\ IF orders[engine.order].status \in Working
       THEN engine' = [engine EXCEPT !.pc = "park",
                                     !.seen = orders[engine.order]]
       ELSE engine' = Idle
    /\ UNCHANGED <<db, memory, req, faults, crashes>>

ParkOpen ==
    /\ engine.pc = "park"
    /\ IF Parks(engine.seen)
       THEN SetStatus(engine.order, "OPEN")
       ELSE UNCHANGED orders
    /\ book' = book \cup {engine.order}
    /\ engine' = Idle
    /\ UNCHANGED <<executions, outbox, queue, snapshot, req, faults, crashes>>

\* An exception while an event is handled: logged, and the event is gone.
EventFault ==
    /\ engine.pc \in {"load", "decide", "reload", "park"}
    /\ faults < MaxFaults
    /\ faults' = faults + 1
    /\ engine' = Idle
    /\ UNCHANGED <<db, memory, req, crashes>>

\* The process stops and starts again: only the database survives.
Restart ==
    /\ crashes < MaxCrashes
    /\ crashes' = crashes + 1
    /\ queue' = << >>
    /\ book' = {}
    /\ snapshot' = [i \in Instruments |-> Nothing]
    /\ engine' = Booting
    /\ req' = [r \in Requests |-> NoRequest]
    /\ UNCHANGED <<db, faults>>

-----------------------------------------------------------------------------
Api ==
    \E r \in Requests :
        \/ \E o \in Orders : SubmitRead(r, o) \/ CancelRead(r, o)
        \/ \E o \in Orders, a \in Amendments : AmendRead(r, o, a)
        \/ SubmitSuspended(r) \/ SubmitWrite(r)
        \/ CancelWrite(r)
        \/ AmendSuspended(r) \/ AmendWrite(r)

EngineStep ==
    \/ RebuildRead \/ RebuildWrite
    \/ OnAccepted \/ OnTick
    \/ Load \/ SkipClosed \/ KeepWorking \/ ConvertStopLimit \/ Fill
    \/ Reload \/ ParkOpen

Failure ==
    \/ \E o \in Orders : RelayUnmarked(o)
    \/ RebuildFault \/ EventFault \/ Restart

Next ==
    \/ Api
    \/ \E o \in Orders : Relay(o)
    \/ \E i \in Instruments, p \in Prices : Tick(i, p) \/ Warm(i, p)
    \/ EngineStep
    \/ Failure

Spec == Init /\ [][Next]_vars

\* Workers run for ever and the replayed feed keeps ticking; clients owe nothing.
Fairness ==
    /\ WF_vars(EngineStep)
    /\ \A o \in Orders : WF_vars(Relay(o))
    /\ \A i \in Instruments : WF_vars(\E p \in Prices : Tick(i, p))

FairSpec == Spec /\ Fairness

-----------------------------------------------------------------------------
(* Correctness. *)

Filled(o) == \E k \in DOMAIN executions : executions[k].order = o

\* Every variable has its type: the engine holds a row exactly while it
\* decides or parks, and further orders only while it serves a tick.
TypeOK ==
    /\ orders \in [Orders -> Row]
    /\ executions \in Seq(Execution)
    /\ outbox \subseteq Orders
    /\ queue \in Seq(Event)
    /\ book \subseteq Orders
    /\ snapshot \in [Instruments -> Optional(Nat)]
    /\ engine \in Engine
    /\ req \in [Requests -> Request]
    /\ faults \in 0..MaxFaults
    /\ crashes \in 0..MaxCrashes

\* No order is executed twice, whatever is redelivered, cancelled, amended or
\* restarted while the engine works on it (_fill_order, workers.py:136-209).
SingleFill ==
    \A j, k \in DOMAIN executions :
        executions[j].order = executions[k].order => j = k

\* An OPEN order is always in the working book, so that the next tick of its
\* instrument tries it; only a starting or a dead engine has an empty book.
OpenOrdersAreWorked ==
    engine.pc \notin {"boot", "down"} =>
        \A o \in Orders : orders[o].status = "OPEN" => o \in book

\* An order the API accepted is on its way to the engine, in its hands or in
\* its book: no event is both marked published and forgotten.  (Without failed
\* units of work: EventFault does lose the order until the next restart.)
AcceptedNotForgotten ==
    engine.pc # "boot" =>
        \A o \in Orders : orders[o].status = "ACCEPTED" =>
            \/ o \in outbox
            \/ \E k \in DOMAIN queue : queue[k] = Accepted(o)
            \/ engine.accepted /\ engine.order = o
            \/ o \in book

\* What was filled, or rejected, never becomes a working order again: the
\* writes of _park_open and _rebuild_book rest on rows that may be stale.
FilledAndRejectedStayClosed ==
    [][\A o \in Orders : orders[o].status \in {"FILLED", "REJECTED"} =>
                         orders'[o].status \notin Working]_vars

\* An execution keeps to the limit, or to the stop, of an order nobody
\* amended: also a STOP_LIMIT order, whose price is read again after it was
\* converted to a LIMIT order.
ExecutionsRespectTerms ==
    \A k \in DOMAIN executions :
        LET t == orders[executions[k].order].terms
            p == executions[k].price
        IN  /\ t.type # "STOP_LIMIT"
            /\ t.limit # Nothing =>
                  IF t.side = "BUY" THEN p <= t.limit ELSE p >= t.limit
            /\ t.type = "STOP" =>
                  IF t.side = "BUY" THEN p >= t.stop ELSE p <= t.stop

\* An accepted order that rests in the book does become OPEN, or is closed; a
\* MARKET order, also one accepted before its instrument had a price, is filled
\* or cancelled in the end.
AcceptedIsWorked ==
    \A o \in Orders :
        /\ orders[o].status = "ACCEPTED" /\ orders[o].terms.type \in Resting
              ~> orders[o].status # "ACCEPTED"
        /\ orders[o].status = "ACCEPTED" /\ orders[o].terms.type = "MARKET"
              ~> orders[o].status \in Closed

\* workers.py:139-141: an order that is already FILLED, CANCELLED or REJECTED
\* ("redelivered event, cancel/fill race") is skipped.  False: Fill writes
\* over a cancellation that commits between its read and its write.
ClosedOrderIsSkipped ==
    [][\A o \in Orders : ~Filled(o) /\ Filled(o)' =>
                         orders[o].status \notin Closed]_vars
=============================================================================
