---------------------------- MODULE StpSettlement ----------------------------
(***************************************************************************)
(* From an accepted order to its settlement: the pre-trade check of cash   *)
(* and holdings (modules/orders/validation.py), the fill as far as it      *)
(* leaves an execution and its event, the STP worker that books executions *)
(* and the settlement sweeper (modules/orders/workers.py), and the reset   *)
(* of a paper account (modules/paper), the only other writer of cash and   *)
(* positions.                                                              *)
(*                                                                         *)
(* The STP worker reads the portfolio, then the position, and writes the   *)
(* new absolute values of both in one transaction later; nothing it read   *)
(* is locked or versioned.  A reset is a read and a write likewise.  An    *)
(* execution is named by its order, which has at most one (theorem         *)
(* SingleFillHolds of OrderLifecycleProofs).  Money is counted in units of *)
(* one price tick times one lot; the average cost is left out, but not the *)
(* division that computes it.                                              *)
(***************************************************************************)
EXTENDS Integers, Sequences, FiniteSetsExt

CONSTANTS
    Orders,
    Portfolios,
    Papers,        \* the portfolios of type PAPER
    Instruments,
    Tickets,       \* portfolio, instrument, side and quantity of an order
    Prices,
    InitialCash,   \* what every portfolio is created with
    DefaultCash,   \* DEFAULT_INITIAL_CASH of modules/paper
    Nothing,       \* None: no row, nothing read
    MaxQueue,      \* bound: events waiting in front of the STP worker
    MaxFaults,     \* bound: failed units of work
    MaxResets,     \* bound: resets of paper accounts
    MaxCrashes     \* bound: restarts of the process

Ticket == [portfolio : Portfolios, instrument : Instruments,
           side : {"BUY", "SELL"}, quantity : Nat \ {0}]

ASSUME NothingAssumption == Nothing \notin Int \cup Orders
ASSUME PaperAssumption   == Papers \subseteq Portfolios
ASSUME TicketAssumption  == Tickets \subseteq Ticket
ASSUME PriceAssumption   == Prices \subseteq Nat \ {0}
ASSUME CashAssumption    == InitialCash \in Nat /\ DefaultCash \in Nat
ASSUME BoundAssumption   == /\ MaxQueue \in Nat /\ MaxFaults \in Nat
                            /\ MaxResets \in Nat /\ MaxCrashes \in Nat

VARIABLES
    orders,       \* ticket and status of each order, price of its execution
    cash,         \* portfolios table: cash_balance
    position,     \* positions table: quantity, or Nothing without a row
    instruction,  \* settlement_instructions: lifecycle_state, "NONE": no row
    young,        \* instructions whose delay in their state is still running
    exceptions,   \* executions with an STP_EXCEPTION audit row
    logged,       \* those of which only the log tells that they failed
    outbox,       \* trading.executions rows whose published_at is NULL
    queue,        \* the STP worker's subscription
    stp,          \* the STP worker's unit of work and what it has read
    sweep,        \* the rows the sweeper has read, when it is about to write
    reset,        \* per paper account: the cash a reset handler has read
    initials,     \* _initial_balances: the initial cash the process remembers
    faults, resets, crashes

Filled == {o \in Orders : orders[o].status = "FILLED"}

trading == <<orders, outbox>>
failures == <<exceptions, logged>>
books   == <<cash, position, instruction, young>>
bounds  == <<faults, resets, crashes>>
vars    == <<orders, cash, position, instruction, young, exceptions, logged, outbox,
             queue, stp, sweep, reset, initials, faults, resets, crashes>>

Clients  == Portfolios \ Papers
Accounts == Portfolios \X Instruments
States   == {"NONE", "EXECUTED", "AFFIRMED", "SETTLED"}
Unsettled == {"EXECUTED", "AFFIRMED"}

Account(t) == <<t.portfolio, t.instrument>>

Row == [ticket : Ticket, status : {"NEW", "ACCEPTED", "REJECTED"}, price : {Nothing}]
         \cup [ticket : Ticket, status : {"FILLED"}, price : Prices]

\* trade_value; bonds, quoted in per cent, only scale the unit.
Value(q, p)      == q * p
CashMove(t, p)   == IF t.side = "BUY" THEN -Value(t.quantity, p) ELSE Value(t.quantity, p)
HoldingMove(t)   == IF t.side = "BUY" THEN t.quantity ELSE -t.quantity

Optional(S) == S \cup {Nothing}

\* pc "read": has checked for an instruction and read the portfolio; "book":
\* has read the position too; "failed": an exception is to be recorded.
Doing(pc, o, c, q) == [pc |-> pc, order |-> o, cash |-> c, quantity |-> q]
Waiting == Doing("idle", Nothing, Nothing, Nothing)

Worker ==
         {Waiting}
    \cup [pc : {"read"}, order : Orders, cash : Int, quantity : {Nothing}]
    \cup [pc : {"book"}, order : Orders, cash : Int, quantity : Optional(Int)]
    \cup [pc : {"failed"}, order : Orders, cash : {Nothing}, quantity : {Nothing}]

Init ==
    /\ orders \in [Orders -> [ticket : Tickets, status : {"NEW"}, price : {Nothing}]]
    /\ cash = [p \in Portfolios |-> InitialCash]
    /\ position = [a \in Accounts |-> Nothing]
    /\ instruction = [o \in Orders |-> "NONE"]
    /\ young = {}
    /\ exceptions = {}
    /\ logged = {}
    /\ outbox = {}
    /\ queue = << >>
    /\ stp = Waiting
    /\ sweep = {}
    /\ reset = [p \in Papers |-> Nothing]
    /\ initials = [p \in Papers |-> InitialCash]
    /\ faults = 0
    /\ resets = 0
    /\ crashes = 0

Held(q) == IF q = Nothing THEN 0 ELSE q

-----------------------------------------------------------------------------
(* Orders: checked against the books as they are, filled at any price. *)

Covered(t, p) ==
    IF t.side = "BUY" THEN Value(t.quantity, p) <= cash[t.portfolio]
                      ELSE t.quantity <= Held(position[Account(t)])

Submit(o, p) ==
    /\ orders[o].status = "NEW"
    /\ orders' = [orders EXCEPT ![o].status =
                    IF Covered(orders[o].ticket, p) THEN "ACCEPTED" ELSE "REJECTED"]
    /\ UNCHANGED <<books, failures, outbox, queue, stp, sweep, reset, initials,
                   bounds>>

Fill(o, p) ==
    /\ orders[o].status = "ACCEPTED"
    /\ orders' = [orders EXCEPT ![o].status = "FILLED", ![o].price = p]
    /\ outbox' = outbox \cup {o}
    /\ UNCHANGED <<books, failures, queue, stp, sweep, reset, initials, bounds>>

-----------------------------------------------------------------------------
(* The outbox relay, for trading.executions. *)

Publish(o) ==
    /\ o \in outbox
    /\ Len(queue) < MaxQueue
    /\ queue' = Append(queue, o)
    /\ UNCHANGED <<orders, books, failures, stp, sweep, reset, initials,
                   resets, crashes>>

Relay(o) == Publish(o) /\ outbox' = outbox \ {o} /\ UNCHANGED faults

RelayUnmarked(o) ==
    /\ faults < MaxFaults
    /\ Publish(o)
    /\ faults' = faults + 1
    /\ UNCHANGED outbox

-----------------------------------------------------------------------------
(* The STP worker. *)

\* A redelivered event finds the instruction of its execution and is done.
StpSkip ==
    /\ stp.pc = "idle"
    /\ queue # << >>
    /\ instruction[Head(queue)] # "NONE"
    /\ queue' = Tail(queue)
    /\ UNCHANGED <<trading, books, failures, stp, sweep, reset, initials, bounds>>

StpTake ==
    /\ stp.pc = "idle"
    /\ queue # << >>
    /\ instruction[Head(queue)] = "NONE"
    /\ queue' = Tail(queue)
    /\ stp' = Doing("read", Head(queue),
                      cash[orders[Head(queue)].ticket.portfolio], Nothing)
    /\ UNCHANGED <<trading, books, failures, sweep, reset, initials, bounds>>

StpRead ==
    /\ stp.pc = "read"
    /\ stp' = [stp EXCEPT !.pc = "book",
                          !.quantity = position[Account(orders[stp.order].ticket)]]
    /\ UNCHANGED <<trading, books, failures, queue, sweep, reset, initials, bounds>>

\* A BUY that brings a short position to zero divides by it; the UPDATE of a
\* position row that is gone by now matches no row (StaleDataError).
Bookable(t) ==
    /\ ~(t.side = "BUY" /\ Held(stp.quantity) + t.quantity = 0)
    /\ stp.quantity # Nothing => position[Account(t)] # Nothing

StpBookPartly ==                        \* mutant: two commits, the second may fail
    LET o == stp.order
        t == orders[o].ticket
    IN  /\ stp.pc = "book"
        /\ Bookable(t)
        /\ position' = [position EXCEPT ![Account(t)] =
                            Held(stp.quantity) + HoldingMove(t)]
        /\ cash' = [cash EXCEPT ![t.portfolio] =
                            stp.cash + CashMove(t, orders[o].price)]
        /\ stp' = Waiting
        /\ UNCHANGED <<trading, instruction, young, failures, queue, sweep,
                       reset, initials, bounds>>

\* Position, cash, instruction and stp.lifecycle event in one transaction.
StpBook ==
    LET o == stp.order
        t == orders[o].ticket
    IN  /\ stp.pc = "book"
        /\ Bookable(t)
        /\ position' = [position EXCEPT ![Account(t)] =
                            Held(stp.quantity) + HoldingMove(t)]
        /\ cash' = [cash EXCEPT ![t.portfolio] =
                            stp.cash + CashMove(t, orders[o].price)]
        /\ instruction' = [instruction EXCEPT ![o] = "EXECUTED"]
        /\ young' = young \cup {o}
        /\ stp' = Waiting
        /\ UNCHANGED <<trading, failures, queue, sweep, reset, initials, bounds>>

StpFails == stp' = Doing("failed", stp.order, Nothing, Nothing)

StpUnbookable ==
    /\ stp.pc = "book"
    /\ ~Bookable(orders[stp.order].ticket)
    /\ StpFails
    /\ UNCHANGED <<trading, books, failures, queue, sweep, reset, initials, bounds>>

\* Any other exception in the unit of work, the failing commit included.
StpFault ==
    /\ stp.pc \in {"read", "book"}
    /\ faults < MaxFaults
    /\ faults' = faults + 1
    /\ StpFails
    /\ UNCHANGED <<trading, books, failures, queue, sweep, reset, initials,
                   resets, crashes>>

StpRecordNothing ==                     \* mutant: logged only
    /\ stp.pc = "failed"
    /\ stp' = Waiting
    /\ UNCHANGED <<trading, books, failures, queue, sweep, reset, initials, bounds>>

\* The exception is audited and the owner notified; the event is not retried.
StpRecord ==
    /\ stp.pc = "failed"
    /\ exceptions' = exceptions \cup {stp.order}
    /\ stp' = Waiting
    /\ UNCHANGED <<trading, books, logged, queue, sweep, reset, initials, bounds>>

\* Recording the exception can fail as well: it is logged, and that is all.
StpRecordFault ==
    /\ stp.pc = "failed"
    /\ faults < MaxFaults
    /\ faults' = faults + 1
    /\ logged' = logged \cup {stp.order}
    /\ stp' = Waiting
    /\ UNCHANGED <<trading, books, exceptions, queue, sweep, reset, initials,
                   resets, crashes>>

-----------------------------------------------------------------------------
(* The settlement sweeper. *)

\* The delay of an instruction in its present state is over.
Elapse(o) ==
    /\ o \in young
    /\ young' = young \ {o}
    /\ UNCHANGED <<trading, cash, position, instruction, failures, queue, stp,
                   sweep, reset, initials, bounds>>

DueAtAll      == {o \in Orders : instruction[o] # "NONE" /\ o \notin young}  \* mutants
DueToAffirm   == {o \in Orders : instruction[o] = "EXECUTED" /\ o \notin young}
Due == {o \in Orders : instruction[o] \in Unsettled /\ o \notin young}

SweepRead ==
    /\ sweep = {}
    /\ Due # {}
    /\ sweep' = {<<o, instruction[o]>> : o \in Due}
    /\ UNCHANGED <<trading, books, failures, queue, stp, reset, initials, bounds>>

FollowingAtOnce(s) == "SETTLED"         \* mutant
Following(s) == IF s = "EXECUTED" THEN "AFFIRMED" ELSE "SETTLED"

\* One commit for all rows, with the states that follow the ones read.
SweepWrite ==
    /\ sweep # {}
    /\ instruction' = [o \in Orders |->
          IF \E s \in Unsettled : <<o, s>> \in sweep
          THEN Following(CHOOSE s \in Unsettled : <<o, s>> \in sweep)
          ELSE instruction[o]]
    /\ young' = young \cup {o \in Orders : <<o, "EXECUTED">> \in sweep}
    /\ sweep' = {}
    /\ UNCHANGED <<trading, cash, position, failures, queue, stp, reset,
                   initials, bounds>>

SweepFault ==
    /\ sweep # {}
    /\ faults < MaxFaults
    /\ faults' = faults + 1
    /\ sweep' = {}
    /\ UNCHANGED <<trading, books, failures, queue, stp, reset, initials,
                   resets, crashes>>

-----------------------------------------------------------------------------
(* POST /paper/accounts/{id}/reset. *)

ResetRead(p) ==
    /\ reset[p] = Nothing
    /\ resets < MaxResets
    /\ resets' = resets + 1
    /\ reset' = [reset EXCEPT ![p] = cash[p]]
    /\ UNCHANGED <<trading, books, failures, queue, stp, sweep, initials,
                   faults, crashes>>

\* The UPDATE of cash_balance is sent only if it changes the value read; the
\* DELETE takes the positions there are.
ResetWrite(p) ==
    /\ reset[p] # Nothing
    /\ cash' = [cash EXCEPT ![p] = IF initials[p] = reset[p] THEN @ ELSE initials[p]]
    /\ position' = [a \in Accounts |-> IF a[1] = p THEN Nothing ELSE position[a]]
    /\ reset' = [reset EXCEPT ![p] = Nothing]
    /\ UNCHANGED <<trading, instruction, young, failures, queue, stp, sweep,
                   initials, bounds>>

-----------------------------------------------------------------------------
\* The process starts again.  The time of an affirmation is forgotten with
\* it, so that the delay since the booking counts, which is over.
Restart ==
    /\ crashes < MaxCrashes
    /\ crashes' = crashes + 1
    /\ queue' = << >>
    /\ stp' = Waiting
    /\ sweep' = {}
    /\ reset' = [p \in Papers |-> Nothing]
    /\ initials' = [p \in Papers |-> DefaultCash]
    /\ young' = {o \in young : instruction[o] = "EXECUTED"}
    /\ UNCHANGED <<trading, cash, position, instruction, failures, faults, resets>>

StpStep == StpSkip \/ StpTake \/ StpRead \/ StpBook \/ StpUnbookable \/ StpRecord

Next ==
    \/ \E o \in Orders, p \in Prices : Submit(o, p) \/ Fill(o, p)
    \/ \E o \in Orders : Relay(o) \/ RelayUnmarked(o)
    \/ StpStep \/ StpFault \/ StpRecordFault
    \/ \E o \in Orders : Elapse(o)
    \/ SweepRead \/ SweepWrite \/ SweepFault
    \/ \E p \in Papers : ResetRead(p) \/ ResetWrite(p)
    \/ Restart

Spec == Init /\ [][Next]_vars

\* The workers run for ever and delays end; clients owe nothing.
Fairness ==
    /\ \A o \in Orders : WF_vars(Relay(o)) /\ WF_vars(Elapse(o))
    /\ WF_vars(StpStep)
    /\ WF_vars(SweepRead) /\ WF_vars(SweepWrite)

FairSpec == Spec /\ Fairness

-----------------------------------------------------------------------------
(* Correctness. *)

\* Every variable has its type; the sweeper holds one state per row, and only
\* of rows that are not settled.
TypeOK ==
    /\ orders \in [Orders -> Row]
    /\ cash \in [Portfolios -> Int]
    /\ position \in [Accounts -> Optional(Int)]
    /\ instruction \in [Orders -> States]
    /\ young \subseteq Orders
    /\ exceptions \subseteq Orders /\ logged \subseteq Orders
    /\ outbox \subseteq Orders
    /\ queue \in Seq(Orders)
    /\ stp \in Worker
    /\ sweep \subseteq Orders \X Unsettled
    /\ reset \in [Papers -> Optional(Int)]
    /\ initials \in [Papers -> Nat]
    /\ faults \in 0..MaxFaults
    /\ resets \in 0..MaxResets
    /\ crashes \in 0..MaxCrashes

Booked(o) == instruction[o] # "NONE"

\* The books of a client portfolio are the sum of what was booked for it:
\* nothing is booked twice, in part or over another booking, whatever fails,
\* is redelivered or restarts (_process_execution, workers.py:330-394).
LedgerMatches ==
    \A p \in Clients :
        LET booked(i) == {o \in Orders : /\ Booked(o)
                                        /\ orders[o].ticket.portfolio = p
                                        /\ orders[o].ticket.instrument \in i}
        IN  /\ cash[p] = InitialCash
               + MapThenSumSet(LAMBDA o : CashMove(orders[o].ticket, orders[o].price),
                               booked(Instruments))
            /\ \A i \in Instruments :
                   Held(position[<<p, i>>]) =
                   MapThenSumSet(LAMBDA o : HoldingMove(orders[o].ticket), booked({i}))

\* The STP worker, the sweeper and the resets of paper accounts implement the
\* promise of docs/design/02 for every client portfolio.
TradeOf(r) == [portfolio  |-> r.ticket.portfolio,
               instrument |-> r.ticket.instrument,
               side       |-> r.ticket.side,
               quantity   |-> r.ticket.quantity,
               price      |-> r.price]

Contract == INSTANCE SettlementContract WITH
    trade    <- [o \in Orders |-> TradeOf(orders[o])],
    executed <- Filled,
    stage    <- instruction,
    cash     <- [p \in Clients |-> cash[p]],
    holding  <- [a \in Clients \X Instruments |-> Held(position[a])]

SettlesAsPromised == Contract!Spec

\* Once booked, an execution is affirmed and settled, also when sweeps fail
\* and the process restarts between the two states.
BookedEventuallySettles ==
    \A o \in Orders : instruction[o] = "EXECUTED" ~> instruction[o] = "SETTLED"

\* No execution slips through unless the process restarts: whatever unit of
\* work fails, it is booked or recorded as an STP exception, or it was this
\* recording that failed (workers.py:320-404).
FilledIsBookedOrFlagged ==
    \A o \in Orders :
        orders[o].status = "FILLED" ~>
            Booked(o) \/ o \in exceptions \cup logged \/ crashes > 0

\* DESIGN.md:149: an execution always triggers the position, cash and
\* settlement updates, and its event survives a crash.  False: the queue of
\* the worker is lost with the process, when the event is marked published.
ExecutionsAreBooked ==
    \A o \in Orders : orders[o].status = "FILLED" ~> Booked(o)

\* docs/design/02:8: from ticket to settlement with zero manual steps.  False
\* without any failure: two sales of one holding are both accepted, and the
\* purchase that covers the short position divides by zero.
ZeroManualSteps == exceptions = {}
=============================================================================
