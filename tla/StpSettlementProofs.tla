------------------------- MODULE StpSettlementProofs -------------------------
(***************************************************************************)
(* Theorems of StpSettlement: types, and the implementation of             *)
(* SettlementContract for the portfolios that are never reset.             *)
(***************************************************************************)
EXTENDS StpSettlement, SetLemmas, SequenceTheorems

(* The inductive invariant. *)

\* Only executions are relayed, queued and worked on.
EventsAreFilled == /\ outbox \subseteq Filled
                   /\ \A k \in DOMAIN queue : queue[k] \in Filled
                   /\ stp.pc # "idle" => stp.order \in Filled

\* The answer of the idempotency check still holds when the worker writes.
WorkIsUnbooked == stp.pc \in {"read", "book"} => instruction[stp.order] = "NONE"

\* So does what it read of the books of a client, whom nobody resets.
ReadsAreCurrent ==
    LET t == orders[stp.order].ticket
    IN  stp.pc \in {"read", "book"} /\ t.portfolio \in Clients =>
            /\ stp.cash = cash[t.portfolio]
            /\ stp.pc = "book" => stp.quantity = position[Account(t)]

\* Nobody but the sweeper moves a row it has read.
SweepIsCurrent == \A o \in Orders, s \in Unsettled :
                      <<o, s>> \in sweep => instruction[o] = s

IInv == /\ TypeOK /\ EventsAreFilled /\ WorkIsUnbooked /\ ReadsAreCurrent
        /\ SweepIsCurrent

-----------------------------------------------------------------------------
(* Types. *)

\* The invariant holds at the start.
LEMMA InitInv == Init => IInv
<1> SUFFICES ASSUME Init PROVE IInv
  OBVIOUS
<1>1. orders \in [Orders -> Row] /\ Waiting \in Worker /\ Waiting.pc = "idle"
  BY TicketAssumption DEF Init, Row, Worker, Waiting, Doing
<1>2. TypeOK
  BY <1>1, CashAssumption, BoundAssumption
  DEF Init, TypeOK, Optional, States, Accounts
<1> QED
  BY <1>1, <1>2 DEF Init, IInv, EventsAreFilled, WorkIsUnbooked,
                    ReadsAreCurrent, SweepIsCurrent

\* Values and quantities are numbers.
LEMMA Moves ==
  ASSUME NEW t \in Ticket, NEW p \in Prices
  PROVE  CashMove(t, p) \in Int /\ HoldingMove(t) \in Int
  BY PriceAssumption DEF CashMove, HoldingMove, Value, Ticket

\* What the worker takes from its queue.
LEMMA Dequeue ==
  ASSUME IInv, queue # << >>
  PROVE  /\ Head(queue) \in Filled
         /\ Tail(queue) \in Seq(Orders)
         /\ \A k \in DOMAIN Tail(queue) : Tail(queue)[k] \in Filled
<1>1. queue \in Seq(Orders)
  BY DEF IInv, TypeOK
<1>2. Len(queue) \in Nat /\ Len(queue) # 0 /\ DOMAIN queue = 1..Len(queue)
  BY <1>1, EmptySeq, LenProperties
<1>3. Head(queue) = queue[1] /\ 1 \in DOMAIN queue
  BY <1>1, <1>2
<1>4. /\ Tail(queue) \in Seq(Orders)
      /\ Len(Tail(queue)) = Len(queue) - 1
      /\ \A k \in 1..Len(Tail(queue)) : Tail(queue)[k] = queue[k + 1]
  BY <1>1, HeadTailProperties
<1>5. DOMAIN Tail(queue) = 1..Len(Tail(queue))
  BY <1>4, LenProperties
<1>6. \A k \in DOMAIN Tail(queue) : k + 1 \in DOMAIN queue
  BY <1>2, <1>4, <1>5
<1> QED
  BY <1>3, <1>4, <1>5, <1>6 DEF IInv, EventsAreFilled

\* An order is of an account.
LEMMA AccountTypes ==
  ASSUME TypeOK, NEW o \in Orders
  PROVE  /\ orders[o].ticket \in Ticket
         /\ orders[o].ticket.portfolio \in Portfolios
         /\ Account(orders[o].ticket) \in Accounts
         /\ o \in Filled => orders[o].price \in Prices
  BY DEF TypeOK, Row, Ticket, Account, Accounts, Filled

\* What the worker holds in each of its states.
LEMMA WorkTypes ==
  ASSUME TypeOK
  PROVE  /\ stp.pc \in {"idle", "read", "book", "failed"}
         /\ stp.pc # "idle" => stp.order \in Orders
         /\ stp.pc \in {"read", "book"} => stp.cash \in Int
         /\ stp.pc = "book" => stp.quantity \in Optional(Int)
  BY DEF TypeOK, Worker, Waiting, Doing

-----------------------------------------------------------------------------
(* The invariant is inductive: orders and relay. *)

\* Submission and fill keep the invariant,
LEMMA OrderStep ==
  ASSUME IInv, NEW o \in Orders, NEW p \in Prices, Submit(o, p) \/ Fill(o, p)
  PROVE  IInv'
<1>1. \A x \in Orders : orders'[x].ticket = orders[x].ticket
  <2>1. CASE Submit(o, p)
    BY <2>1 DEF Submit, IInv, TypeOK, Row
  <2>2. CASE Fill(o, p)
    <3>1. orders' = [orders EXCEPT ![o].status = "FILLED", ![o].price = p]
      BY <2>2 DEF Fill
    <3>2. orders'[o].ticket = orders[o].ticket
      BY <3>1 DEF IInv, TypeOK, Row
    <3> QED
      BY <3>1, <3>2 DEF IInv, TypeOK
  <2> QED
    BY <2>1, <2>2
<1>2. Filled \subseteq Filled'
  BY DEF Submit, Fill, IInv, TypeOK, Row, Filled
<1>3. orders' \in [Orders -> Row]
  <2> DEFINE x == orders[o]
  <2>1. /\ orders \in [Orders -> Row]
        /\ x \in Row
    BY DEF IInv, TypeOK
  <2>2. CASE Submit(o, p)
    <3>1. PICK s \in {"ACCEPTED", "REJECTED"} : orders' = [orders EXCEPT ![o].status = s]
      BY <2>2 DEF Submit
    <3>2. [x EXCEPT !.status = s] \in Row
      BY <2>1, <2>2 DEF Submit, Row
    <3> QED
      BY <2>1, <3>1, <3>2
  <2>3. CASE Fill(o, p)
    <3>1. orders' = [orders EXCEPT ![o] = [x EXCEPT !.status = "FILLED", !.price = p]]
      BY <2>3 DEF Fill
    <3>2. [x EXCEPT !.status = "FILLED", !.price = p] \in Row
      <4>1. x \in [ticket : Ticket, status : {"ACCEPTED"}, price : {Nothing}]
        BY <2>1, <2>3 DEF Fill, Row
      <4> HIDE DEF x
      <4> QED
        BY <4>1 DEF Row
    <3> HIDE DEF x
    <3> QED
      BY <2>1, <3>1, <3>2
  <2> QED
    BY <2>2, <2>3
<1>4. /\ UNCHANGED <<books, failures, queue, stp, sweep, reset, initials, bounds>>
      /\ \/ UNCHANGED outbox
         \/ outbox' = outbox \cup {o} /\ o \in Filled'
  BY DEF Submit, Fill, IInv, TypeOK, Row, Filled
<1>5. TypeOK'
  BY <1>3, <1>4 DEF IInv, TypeOK, books, bounds, failures
<1>6. EventsAreFilled'
  BY <1>2, <1>4 DEF IInv, EventsAreFilled
<1>7. WorkIsUnbooked' /\ SweepIsCurrent'
  BY <1>4 DEF IInv, WorkIsUnbooked, SweepIsCurrent, books
<1>8. ReadsAreCurrent'
  BY <1>1, <1>4, WorkTypes DEF IInv, ReadsAreCurrent, books
<1> QED
  BY <1>5, <1>6, <1>7, <1>8 DEF IInv

\* as does the relay,
LEMMA RelayStep ==
  ASSUME IInv, NEW o \in Orders, Relay(o) \/ RelayUnmarked(o)
  PROVE  IInv'
<1>1. /\ queue \in Seq(Orders) /\ o \in outbox /\ o \in Filled
      /\ queue' = Append(queue, o)
      /\ outbox' \subseteq outbox
      /\ UNCHANGED <<orders, books, failures, stp, sweep, reset, initials,
                     resets, crashes>>
  BY DEF Relay, RelayUnmarked, Publish, IInv, TypeOK, EventsAreFilled
<1>2. /\ queue' \in Seq(Orders)
      /\ DOMAIN queue' = 1..Len(queue')
      /\ DOMAIN queue = 1..Len(queue)
      /\ Len(queue') = Len(queue) + 1
      /\ queue'[Len(queue) + 1] = o
      /\ \A k \in 1..Len(queue) : queue'[k] = queue[k]
  BY <1>1, AppendProperties, LenProperties
<1>3. \A k \in DOMAIN queue' : queue'[k] \in Filled
  BY <1>1, <1>2, LenProperties DEF IInv, EventsAreFilled
<1>4. faults' \in 0..MaxFaults
  BY BoundAssumption DEF Relay, RelayUnmarked, IInv, TypeOK
<1>5. TypeOK'
  BY <1>1, <1>2, <1>4 DEF IInv, TypeOK, books, failures
<1>6. EventsAreFilled'
  BY <1>1, <1>3 DEF IInv, EventsAreFilled, Filled
<1> QED
  BY <1>1, <1>5, <1>6
  DEF IInv, WorkIsUnbooked, ReadsAreCurrent, SweepIsCurrent, books

-----------------------------------------------------------------------------
(* The STP worker. *)

\* A step that leaves the books alone and gives the worker up its reads.
LEMMA GivenUp ==
  ASSUME IInv, UNCHANGED <<trading, books, sweep, reset, initials, resets, crashes>>,
         queue' \in Seq(Orders), \A k \in DOMAIN queue' : queue'[k] \in Filled,
         stp' \in Worker, stp'.pc \in {"idle", "failed"},
         stp'.pc = "failed" => stp'.order \in Filled,
         exceptions' \subseteq Orders, logged' \subseteq Orders, faults' \in 0..MaxFaults
  PROVE  IInv'
<1>1. TypeOK'
  BY DEF IInv, TypeOK, trading, books
<1>2. EventsAreFilled'
  BY DEF IInv, EventsAreFilled, trading, Filled
<1> QED
  BY <1>1, <1>2 DEF IInv, WorkIsUnbooked, ReadsAreCurrent, SweepIsCurrent, books

\* a booking that fails,
LEMMA FailureStep ==
  ASSUME IInv, StpUnbookable \/ StpFault \/ StpRecord \/ StpRecordFault
  PROVE  IInv'
<1>1. stp.order \in Filled /\ stp.order \in Orders
  BY DEF IInv, EventsAreFilled, StpUnbookable, StpFault, StpRecord,
         StpRecordFault, Filled
<1>2. /\ Waiting \in Worker /\ Waiting.pc = "idle"
      /\ Doing("failed", stp.order, Nothing, Nothing) \in Worker
      /\ Doing("failed", stp.order, Nothing, Nothing).pc = "failed"
      /\ Doing("failed", stp.order, Nothing, Nothing).order = stp.order
  BY <1>1 DEF Worker, Waiting, Doing
<1>3. /\ queue \in Seq(Orders)
      /\ \A k \in DOMAIN queue : queue[k] \in Filled
      /\ exceptions \subseteq Orders /\ logged \subseteq Orders /\ faults \in 0..MaxFaults
  BY DEF IInv, TypeOK, EventsAreFilled
<1>4. faults' \in 0..MaxFaults /\ exceptions' \subseteq Orders /\ logged' \subseteq Orders
  BY <1>1, <1>3, BoundAssumption
  DEF StpUnbookable, StpFault, StpRecord, StpRecordFault, bounds, failures
<1>5. UNCHANGED <<trading, books, sweep, reset, initials, resets, crashes, queue>>
  BY DEF StpUnbookable, StpFault, StpRecord, StpRecordFault, bounds, failures
<1>6. stp' \in {Waiting, Doing("failed", stp.order, Nothing, Nothing)}
  BY DEF StpUnbookable, StpFault, StpRecord, StpRecordFault, StpFails
<1> QED
  BY <1>1, <1>2, <1>3, <1>4, <1>5, <1>6, GivenUp

\* and the reads of the worker, which find what is there.
LEMMA TakeStep == IInv /\ (StpSkip \/ StpTake \/ StpRead) => IInv'
<1> SUFFICES ASSUME IInv, StpSkip \/ StpTake \/ StpRead PROVE IInv'
  OBVIOUS
<1>1. CASE StpSkip
  <2>1. /\ stp' = stp /\ stp.pc = "idle" /\ queue' = Tail(queue) /\ queue # << >>
        /\ UNCHANGED <<trading, books, sweep, reset, initials, failures, bounds>>
    BY <1>1 DEF StpSkip
  <2>2. /\ stp \in Worker /\ faults \in 0..MaxFaults
        /\ exceptions \subseteq Orders /\ logged \subseteq Orders
    BY DEF IInv, TypeOK
  <2> QED
    BY <2>1, <2>2, Dequeue, GivenUp DEF bounds, failures
<1>2. CASE StpTake
  <2> DEFINE o == Head(queue)
  <2>1. /\ o \in Filled /\ o \in Orders
        /\ Tail(queue) \in Seq(Orders)
        /\ \A k \in DOMAIN Tail(queue) : Tail(queue)[k] \in Filled
    BY <1>2, Dequeue DEF StpTake, Filled
  <2>2. cash[orders[o].ticket.portfolio] \in Int
    BY <2>1, AccountTypes DEF IInv, TypeOK
  <2>3. /\ stp' \in Worker /\ stp'.pc = "read" /\ stp'.order = o
        /\ stp'.cash = cash[orders[o].ticket.portfolio]
    BY <1>2, <2>1, <2>2 DEF StpTake, Worker, Doing
  <2>4. /\ queue' = Tail(queue) /\ instruction[o] = "NONE"
        /\ UNCHANGED <<trading, books, failures, sweep, reset, initials, bounds>>
    BY <1>2 DEF StpTake
  <2>5. TypeOK'
    BY <2>1, <2>3, <2>4 DEF IInv, TypeOK, trading, books, bounds, failures
  <2>6. EventsAreFilled'
    BY <2>1, <2>3, <2>4 DEF IInv, EventsAreFilled, trading, Filled
  <2>7. WorkIsUnbooked' /\ ReadsAreCurrent' /\ SweepIsCurrent'
    BY <2>3, <2>4 DEF IInv, WorkIsUnbooked, ReadsAreCurrent, SweepIsCurrent,
                      books, trading
  <2> QED
    BY <2>5, <2>6, <2>7 DEF IInv
<1>3. CASE StpRead
  <2> DEFINE a == Account(orders[stp.order].ticket)
  <2>1. stp.pc = "read" /\ stp.order \in Orders /\ stp.cash \in Int
    BY <1>3, WorkTypes DEF StpRead, IInv
  <2>2. position[a] \in Optional(Int)
    BY <2>1, AccountTypes DEF IInv, TypeOK
  <2>3. /\ stp' \in Worker /\ stp'.pc = "book" /\ stp'.order = stp.order
        /\ stp'.cash = stp.cash /\ stp'.quantity = position[a]
    BY <1>3, <2>1, <2>2 DEF StpRead, IInv, TypeOK, Worker, Waiting, Doing
  <2>4. UNCHANGED <<trading, books, failures, queue, sweep, reset, initials, bounds>>
    BY <1>3 DEF StpRead
  <2>5. TypeOK'
    BY <2>3, <2>4 DEF IInv, TypeOK, trading, books, bounds, failures
  <2>6. EventsAreFilled'
    BY <2>1, <2>3, <2>4 DEF IInv, EventsAreFilled, trading, Filled
  <2>7. WorkIsUnbooked' /\ ReadsAreCurrent' /\ SweepIsCurrent'
    BY <2>1, <2>3, <2>4 DEF IInv, WorkIsUnbooked, ReadsAreCurrent, SweepIsCurrent,
                      books, trading
  <2> QED
    BY <2>5, <2>6, <2>7 DEF IInv
<1> QED
  BY <1>1, <1>2, <1>3

\* A waiting worker has its type.
LEMMA WaitingTypes == Waiting \in Worker /\ Waiting.pc = "idle"
  BY DEF Waiting, Worker, Doing

\* A booking writes what was read and the move of one order.
LEMMA BookStep == IInv /\ StpBook => IInv'
<1> SUFFICES ASSUME IInv, StpBook PROVE IInv'
  OBVIOUS
<1> DEFINE o == stp.order
           t == orders[o].ticket
<1>1. /\ o \in Orders /\ o \in Filled /\ stp.cash \in Int
      /\ Held(stp.quantity) \in Int /\ instruction[o] = "NONE"
  BY WorkTypes DEF StpBook, IInv, EventsAreFilled, WorkIsUnbooked, Held, Optional
<1>2. /\ t \in Ticket /\ orders[o].price \in Prices
      /\ t.portfolio \in Portfolios /\ Account(t) \in Accounts
  BY <1>1, AccountTypes DEF IInv
<1>3. /\ Held(stp.quantity) + HoldingMove(t) \in Int
      /\ stp.cash + CashMove(t, orders[o].price) \in Int
  BY <1>1, <1>2, Moves
<1>4. /\ position' = [position EXCEPT ![Account(t)] = Held(stp.quantity) + HoldingMove(t)]
      /\ cash' = [cash EXCEPT ![t.portfolio] = stp.cash + CashMove(t, orders[o].price)]
      /\ instruction' = [instruction EXCEPT ![o] = "EXECUTED"]
      /\ young' = young \cup {o}
      /\ stp' = Waiting
      /\ UNCHANGED <<trading, failures, queue, sweep, reset, initials, bounds>>
  BY DEF StpBook
<1>5. /\ position' \in [Accounts -> Optional(Int)] /\ cash' \in [Portfolios -> Int]
  BY <1>3, <1>4 DEF IInv, TypeOK, Optional
<1>6. instruction' \in [Orders -> States] /\ young' \subseteq Orders
  BY <1>1, <1>4 DEF IInv, TypeOK, States
<1>7. TypeOK'
  BY <1>4, <1>5, <1>6, WaitingTypes DEF IInv, TypeOK, trading, bounds, failures
<1>8. EventsAreFilled'
  BY <1>4, WaitingTypes DEF IInv, EventsAreFilled, trading, Filled
<1>9. SweepIsCurrent'
  BY <1>1, <1>4 DEF IInv, TypeOK, SweepIsCurrent, Unsettled
<1> QED
  BY <1>4, <1>7, <1>8, <1>9, WaitingTypes DEF IInv, WorkIsUnbooked, ReadsAreCurrent

-----------------------------------------------------------------------------
(* The sweeper, resets and the restart. *)

\* A sweep moves the rows it has read, and only those, to the next state.
LEMMA SweepEffect ==
  ASSUME IInv, SweepWrite
  PROVE  \A o \in Orders :
           IF \E s \in Unsettled : <<o, s>> \in sweep
           THEN /\ instruction[o] \in Unsettled
                /\ instruction'[o] = Following(instruction[o])
           ELSE instruction'[o] = instruction[o]
<1> SUFFICES ASSUME NEW o \in Orders
             PROVE  IF \E s \in Unsettled : <<o, s>> \in sweep
                    THEN /\ instruction[o] \in Unsettled
                         /\ instruction'[o] = Following(instruction[o])
                    ELSE instruction'[o] = instruction[o]
  OBVIOUS
<1>1. CASE \E s \in Unsettled : <<o, s>> \in sweep
  <2> DEFINE c == CHOOSE s \in Unsettled : <<o, s>> \in sweep
  <2>1. c \in Unsettled /\ <<o, c>> \in sweep
    BY <1>1
  <2>2. instruction[o] = c
    BY <2>1 DEF IInv, SweepIsCurrent
  <2>3. instruction'[o] = Following(c)
    BY <1>1 DEF SweepWrite
  <2> QED
    BY <1>1, <2>1, <2>2, <2>3
<1>2. CASE ~\E s \in Unsettled : <<o, s>> \in sweep
  BY <1>2 DEF SweepWrite
<1> QED
  BY <1>1, <1>2

\* The sweep writes what it has read.
LEMMA SweepStep == IInv /\ (SweepRead \/ SweepWrite \/ SweepFault) => IInv'
<1> SUFFICES ASSUME IInv, SweepRead \/ SweepWrite \/ SweepFault PROVE IInv'
  OBVIOUS
<1>1. CASE SweepRead
  <2>1. /\ sweep' = {<<o, instruction[o]>> : o \in Due}
        /\ UNCHANGED <<trading, books, failures, queue, stp, reset, initials, bounds>>
    BY <1>1 DEF SweepRead
  <2>2. \A o \in Due : o \in Orders /\ instruction[o] \in Unsettled
    BY DEF Due
  <2>3. sweep' \subseteq Orders \X Unsettled
    BY <2>1, <2>2
  <2>4. TypeOK'
    BY <2>1, <2>3 DEF IInv, TypeOK, trading, books, bounds, failures
  <2> QED
    BY <2>1, <2>4 DEF IInv, EventsAreFilled, WorkIsUnbooked, ReadsAreCurrent,
                      SweepIsCurrent, trading, books, Filled
<1>2. CASE SweepWrite
  <2>1. \A o \in Orders : instruction'[o] \in States
    BY <1>2, SweepEffect DEF IInv, TypeOK, States, Following
  <2>2. instruction' \in [Orders -> States] /\ young' \subseteq Orders /\ sweep' = {}
    BY <1>2, <2>1 DEF SweepWrite, IInv, TypeOK
  <2>3. UNCHANGED <<trading, cash, position, failures, queue, stp, reset,
                    initials, bounds>>
    BY <1>2 DEF SweepWrite
  <2>4. TypeOK'
    BY <2>2, <2>3 DEF IInv, TypeOK, trading, bounds, failures
  <2>5. WorkIsUnbooked'
    BY <1>2, <2>3, SweepEffect, WorkTypes DEF IInv, WorkIsUnbooked, Unsettled
  <2> QED
    BY <2>2, <2>3, <2>4, <2>5 DEF IInv, EventsAreFilled, ReadsAreCurrent,
                                  SweepIsCurrent, trading, Filled
<1>3. CASE SweepFault
  <2>1. /\ sweep' = {} /\ faults' \in 0..MaxFaults
        /\ UNCHANGED <<trading, books, failures, queue, stp, reset, initials,
                       resets, crashes>>
    BY <1>3, BoundAssumption DEF SweepFault, IInv, TypeOK
  <2>2. TypeOK'
    BY <2>1 DEF IInv, TypeOK, trading, books, failures
  <2> QED
    BY <2>1, <2>2 DEF IInv, EventsAreFilled, WorkIsUnbooked, ReadsAreCurrent,
                      SweepIsCurrent, trading, books, Filled
<1> QED
  BY <1>1, <1>2, <1>3

\* A delay ends.
LEMMA ElapseStep == ASSUME IInv, NEW o \in Orders, Elapse(o) PROVE IInv'
<1>1. TypeOK'
  BY DEF Elapse, IInv, TypeOK, trading, bounds, failures
<1> QED
  BY <1>1 DEF Elapse, IInv, EventsAreFilled, WorkIsUnbooked, ReadsAreCurrent,
              SweepIsCurrent, trading, Filled

\* A reset writes only what is of its paper account.
LEMMA ResetStep ==
  ASSUME IInv, NEW p \in Papers, ResetRead(p) \/ ResetWrite(p)
  PROVE  IInv'
<1>1. p \in Portfolios /\ p \notin Clients
  BY PaperAssumption DEF Clients
<1>2. CASE ResetRead(p)
  <2>1. /\ reset' \in [Papers -> Optional(Int)] /\ resets' \in 0..MaxResets
        /\ UNCHANGED <<trading, books, failures, queue, stp, sweep, initials,
                       faults, crashes>>
    BY <1>1, <1>2, BoundAssumption DEF ResetRead, IInv, TypeOK, Optional
  <2>2. TypeOK'
    BY <2>1 DEF IInv, TypeOK, trading, books, failures
  <2> QED
    BY <2>1, <2>2 DEF IInv, EventsAreFilled, WorkIsUnbooked, ReadsAreCurrent,
                      SweepIsCurrent, trading, books, Filled
<1>3. CASE ResetWrite(p)
  <2>1. /\ reset' \in [Papers -> Optional(Int)] /\ cash' \in [Portfolios -> Int]
        /\ position' \in [Accounts -> Optional(Int)]
        /\ UNCHANGED <<trading, instruction, young, failures, queue, stp, sweep,
                       initials, bounds>>
    BY <1>1, <1>3 DEF ResetWrite, IInv, TypeOK, Optional
  <2>2. /\ \A q \in Clients : cash'[q] = cash[q]
        /\ \A a \in Accounts : a[1] \in Clients => position'[a] = position[a]
    BY <1>1, <1>3 DEF ResetWrite, IInv, TypeOK
  <2>3. TypeOK'
    BY <2>1 DEF IInv, TypeOK, trading, bounds, failures
  <2>4. ReadsAreCurrent'
    <3>1. CASE stp.pc \in {"read", "book"}
      <4>1. stp.order \in Orders
        BY <3>1, WorkTypes DEF IInv
      <4>2. LET t == orders[stp.order].ticket
            IN  Account(t) \in Accounts /\ Account(t)[1] = t.portfolio
        BY <4>1, AccountTypes DEF IInv, Account
      <4> QED
        BY <2>1, <2>2, <4>2 DEF IInv, ReadsAreCurrent, trading
    <3>2. CASE stp.pc \notin {"read", "book"}
      BY <2>1, <3>2 DEF ReadsAreCurrent
    <3> QED
      BY <3>1, <3>2
  <2> QED
    BY <2>1, <2>3, <2>4 DEF IInv, EventsAreFilled, WorkIsUnbooked,
                            SweepIsCurrent, trading, Filled
<1> QED
  BY <1>2, <1>3

\* A restart empties what is in memory.
LEMMA RestartStep == IInv /\ Restart => IInv'
<1> SUFFICES ASSUME IInv, Restart PROVE IInv'
  OBVIOUS
<1>1. /\ queue' = << >> /\ stp' = Waiting /\ sweep' = {}
      /\ reset' \in [Papers -> Optional(Int)] /\ initials' \in [Papers -> Nat]
      /\ young' \subseteq Orders /\ crashes' \in 0..MaxCrashes
      /\ UNCHANGED <<trading, cash, position, instruction, failures, faults, resets>>
  BY CashAssumption, BoundAssumption DEF Restart, IInv, TypeOK, Optional
<1>2. TypeOK'
  BY <1>1, WaitingTypes DEF IInv, TypeOK, trading, failures
<1> QED
  BY <1>1, <1>2, WaitingTypes
  DEF IInv, EventsAreFilled, WorkIsUnbooked, ReadsAreCurrent, SweepIsCurrent,
      trading, Filled

\* Every step keeps the invariant.
LEMMA StepInv == IInv /\ [Next]_vars => IInv'
<1>1. IInv /\ UNCHANGED vars => IInv'
  BY DEF IInv, TypeOK, EventsAreFilled, WorkIsUnbooked, ReadsAreCurrent,
         SweepIsCurrent, Filled, vars
<1> QED
  BY <1>1, OrderStep, RelayStep, TakeStep, BookStep, FailureStep, SweepStep,
     ElapseStep, ResetStep, RestartStep DEF Next, StpStep

\* So it holds.
LEMMA Invariance == Spec => []IInv
  BY InitInv, StepInv, PTL DEF Spec

\* Every variable keeps its type, and every execution the worker holds has a
\* price and a ticket (workers.py:320-394).
THEOREM TypeCorrect == Spec => []TypeOK
<1>1. IInv => TypeOK
  BY DEF IInv
<1> QED
  BY <1>1, Invariance, PTL

-----------------------------------------------------------------------------
(* The implementation of the contract. *)

\* Initial states are those of the contract.
LEMMA InitRefines == Init => Contract!Init
  BY DEF Init, Contract!Init, Held, Clients, Accounts, Filled

\* The contract's reading of a trade is the worker's.
LEMMA SameMoves ==
  ASSUME NEW r
  PROVE  /\ Contract!CashMove(TradeOf(r)) = CashMove(r.ticket, r.price)
         /\ Contract!HoldingMove(TradeOf(r)) = HoldingMove(r.ticket)
         /\ Contract!Account(TradeOf(r)) = Account(r.ticket)
         /\ TradeOf(r).portfolio = r.ticket.portfolio
  BY DEF TradeOf, Contract!CashMove, Contract!HoldingMove, Contract!Account,
         Contract!Value, CashMove, HoldingMove, Account, Value

\* The accounts of the clients are accounts.
LEMMA ClientAccounts == Clients \X Instruments \subseteq Accounts
  BY DEF Clients, Accounts

\* A step that touches neither executions nor client books nor stages stutters.
LEMMA Stutters ==
  ASSUME IInv, UNCHANGED instruction,
         \A o \in Orders : TradeOf(orders[o])' = TradeOf(orders[o]),
         Filled' = Filled,
         \A p \in Clients : cash'[p] = cash[p],
         \A a \in Clients \X Instruments : position'[a] = position[a]
  PROVE  UNCHANGED Contract!vars
  BY DEF Contract!vars

\* A fill is an execution of the contract,
LEMMA FillRefines ==
  ASSUME IInv, NEW o \in Orders, NEW p \in Prices, Fill(o, p)
  PROVE  Contract!Execute(o, p)
<1>1. /\ orders' = [orders EXCEPT ![o].status = "FILLED", ![o].price = p]
      /\ orders[o].status = "ACCEPTED"
      /\ UNCHANGED <<instruction, cash, position>>
  BY DEF Fill, books
<1>2. o \notin Filled
  BY <1>1 DEF Filled
<1>3. orders \in [Orders -> Row]
  BY DEF IInv, TypeOK
<1>4. /\ orders'[o].status = "FILLED" /\ orders'[o].price = p
      /\ orders'[o].ticket = orders[o].ticket
      /\ \A x \in Orders : x # o => orders'[x] = orders[x]
  BY <1>1, <1>3 DEF Row
<1>5. Filled' = Filled \cup {o}
  BY <1>4 DEF Filled
<1>6. TradeOf(orders'[o]) = [TradeOf(orders[o]) EXCEPT !.price = p]
  BY <1>4 DEF TradeOf
<1>7. [x \in Orders |-> TradeOf(orders'[x])] =
      [[x \in Orders |-> TradeOf(orders[x])] EXCEPT ![o].price = p]
  BY <1>4, <1>6
<1>8. [x \in Orders |-> TradeOf(orders[x])]' = [x \in Orders |-> TradeOf(orders'[x])]
  BY DEF TradeOf
<1> QED
  BY <1>1, <1>2, <1>5, <1>7, <1>8 DEF Contract!Execute

\* A booking moves the books of its own portfolio by its own order, and leaves
\* those of every other client alone.
LEMMA BookEffect ==
  ASSUME IInv, StpBook
  PROVE  LET o == stp.order
             t == orders[o].ticket
         IN  /\ o \in Orders /\ o \in Filled /\ instruction[o] = "NONE"
             /\ instruction' = [instruction EXCEPT ![o] = "EXECUTED"]
             /\ orders' = orders
             /\ t \in Ticket /\ orders[o].price \in Prices
             /\ \A p \in Clients :
                   cash'[p] = IF p = t.portfolio THEN cash[p] + CashMove(t, orders[o].price)
                                                 ELSE cash[p]
             /\ \A a \in Clients \X Instruments :
                   Held(position'[a]) =
                     IF a = Account(t) THEN Held(position[a]) + HoldingMove(t)
                                       ELSE Held(position[a])
<1>0. PICK o \in Orders : o = stp.order
  BY WorkTypes DEF StpBook, IInv
<1> DEFINE t == orders[o].ticket
<1>1. /\ o \in Orders /\ o \in Filled /\ instruction[o] = "NONE" /\ stp.pc = "book"
  BY <1>0 DEF StpBook, IInv, EventsAreFilled, WorkIsUnbooked
<1>2. /\ position' = [position EXCEPT ![Account(t)] = Held(stp.quantity) + HoldingMove(t)]
      /\ cash' = [cash EXCEPT ![t.portfolio] = stp.cash + CashMove(t, orders[o].price)]
      /\ instruction' = [instruction EXCEPT ![o] = "EXECUTED"]
      /\ UNCHANGED orders
  BY <1>0 DEF StpBook, trading
<1>3. /\ t \in Ticket /\ orders[o].price \in Prices
      /\ t.portfolio \in Portfolios /\ Account(t) \in Accounts
  BY <1>1, AccountTypes DEF IInv
<1>4. HoldingMove(t) \in Int
  BY <1>3, Moves
<1>5. t.portfolio \in Clients => /\ stp.cash = cash[t.portfolio]
                                 /\ stp.quantity = position[Account(t)]
  BY <1>0, <1>1 DEF IInv, ReadsAreCurrent
<1>6. \A p \in Clients : cash'[p] = IF p = t.portfolio
                                    THEN cash[p] + CashMove(t, orders[o].price)
                                    ELSE cash[p]
  BY <1>2, <1>3, <1>5 DEF IInv, TypeOK, Clients
<1>7. \A a \in Clients \X Instruments :
         Held(position'[a]) = IF a = Account(t) THEN Held(position[a]) + HoldingMove(t)
                                                ELSE Held(position[a])
  <2> SUFFICES ASSUME NEW a \in Clients \X Instruments
               PROVE  Held(position'[a]) =
                        IF a = Account(t) THEN Held(position[a]) + HoldingMove(t)
                                          ELSE Held(position[a])
    OBVIOUS
  <2>1. a \in Accounts /\ position[a] \in Optional(Int)
    BY ClientAccounts DEF IInv, TypeOK
  <2>2. CASE a = Account(t)
    <3>1. t.portfolio \in Clients
      BY <2>2 DEF Account
    <3>2. position'[a] = Held(position[a]) + HoldingMove(t)
      BY <1>2, <1>5, <2>1, <2>2, <3>1 DEF IInv, TypeOK
    <3>3. position'[a] \in Int
      BY <1>4, <2>1, <3>2 DEF Held, Optional
    <3> QED
      BY <2>2, <3>2, <3>3, NothingAssumption DEF Held
  <2>3. CASE a # Account(t)
    BY <1>2, <2>1, <2>3 DEF IInv, TypeOK
  <2> QED
    BY <2>2, <2>3
<1> QED
  BY <1>0, <1>1, <1>2, <1>3, <1>6, <1>7

\* a booking its Book,
LEMMA BookRefines ==
  ASSUME IInv, StpBook
  PROVE  \E o \in Orders : Contract!Book(o)
<1>0. PICK o \in Orders : o = stp.order
  BY BookEffect
<1> DEFINE t == orders[o].ticket
<1>1. o \in Filled /\ instruction[o] = "NONE"
  BY <1>0, BookEffect
<1>2. instruction' = [instruction EXCEPT ![o] = "EXECUTED"] /\ UNCHANGED orders
  BY <1>0, BookEffect
<1>6. \A p \in Clients : cash'[p] = IF p = t.portfolio
                                    THEN cash[p] + CashMove(t, orders[o].price)
                                    ELSE cash[p]
  BY <1>0, BookEffect
<1>7. \A a \in Clients \X Instruments :
         Held(position'[a]) = IF a = Account(t) THEN Held(position[a]) + HoldingMove(t)
                                                ELSE Held(position[a])
  BY <1>0, BookEffect
<1>8. UNCHANGED [x \in Orders |-> TradeOf(orders[x])] /\ UNCHANGED Filled
  BY <1>2 DEF TradeOf, Filled
<1> DEFINE trade == [x \in Orders |-> TradeOf(orders[x])]
<1>9. /\ Contract!CashMove(trade[o]) = CashMove(t, orders[o].price)
      /\ Contract!HoldingMove(trade[o]) = HoldingMove(t)
      /\ Contract!Account(trade[o]) = Account(t)
      /\ trade[o].portfolio = t.portfolio
  BY <1>1, SameMoves
<1>10. [p \in Clients |-> cash'[p]] =
       [p \in Clients |-> IF p = trade[o].portfolio
                         THEN cash[p] + Contract!CashMove(trade[o]) ELSE cash[p]]
  BY <1>6, <1>9
<1>11. [p \in Clients |-> cash[p]]' =
       [p \in Clients |-> IF p = trade[o].portfolio
                         THEN [q \in Clients |-> cash[q]][p] + Contract!CashMove(trade[o])
                         ELSE [q \in Clients |-> cash[q]][p]]
  BY <1>10
<1>12. [a \in Clients \X Instruments |-> Held(position'[a])] =
       [a \in Clients \X Instruments |->
            IF a = Contract!Account(trade[o])
            THEN Held(position[a]) + Contract!HoldingMove(trade[o])
            ELSE Held(position[a])]
  BY <1>7, <1>9
<1> DEFINE holding == [a \in Clients \X Instruments |-> Held(position[a])]
<1>13. holding' = [a \in Clients \X Instruments |->
            IF a = Contract!Account(trade[o])
            THEN holding[a] + Contract!HoldingMove(trade[o]) ELSE holding[a]]
  BY <1>12 DEF Held
<1> QED
  BY <1>1, <1>2, <1>8, <1>11, <1>13 DEF Contract!Book

\* and a sweep its Advance.
LEMMA SweepRefines ==
  ASSUME IInv, SweepWrite
  PROVE  \E S \in SUBSET Orders : Contract!Advance(S)
<1> DEFINE S == {o \in Orders : \E s \in Unsettled : <<o, s>> \in sweep}
<1>1. \A o \in S : instruction[o] \in Unsettled
  BY SweepEffect
<1>2. instruction' = [o \in Orders |-> IF o \in S THEN Contract!Following(instruction[o])
                                                 ELSE instruction[o]]
  <2>1. \A o \in S : instruction'[o] = Contract!Following(instruction[o])
    BY <1>1, SweepEffect DEF Following, Contract!Following, Unsettled
  <2>2. \A o \in Orders : o \notin S => instruction'[o] = instruction[o]
    BY SweepEffect
  <2>3. DOMAIN instruction' = Orders
           /\ instruction' = [o \in Orders |-> instruction'[o]]
    BY DEF SweepWrite
  <2> QED
    BY <2>1, <2>2, <2>3
<1>3. UNCHANGED <<orders, cash, position>>
  BY DEF SweepWrite, trading
<1>4. /\ UNCHANGED [x \in Orders |-> TradeOf(orders[x])] /\ UNCHANGED Filled
      /\ UNCHANGED [p \in Clients |-> cash[p]]
      /\ UNCHANGED [a \in Clients \X Instruments |-> Held(position[a])]
  BY <1>3 DEF TradeOf, Filled
<1>5. Contract!Advance(S)
  BY <1>1, <1>2, <1>4 DEF Contract!Advance, Unsettled
<1> QED
  BY <1>5

\* The contract does not see a submission,
LEMMA SubmitStutters ==
  ASSUME IInv, NEW o \in Orders, NEW p \in Prices, Submit(o, p)
  PROVE  UNCHANGED Contract!vars
<1>1. \E s \in {"ACCEPTED", "REJECTED"} : orders' = [orders EXCEPT ![o].status = s]
  BY DEF Submit
<1>2. PICK s \in {"ACCEPTED", "REJECTED"} : orders' = [orders EXCEPT ![o].status = s]
  BY <1>1
<1>3. /\ orders[o].status = "NEW" /\ UNCHANGED books
  BY DEF Submit
<1>4. /\ orders'[o].ticket = orders[o].ticket /\ orders'[o].price = orders[o].price
      /\ orders'[o].status = s /\ \A x \in Orders : x # o => orders'[x] = orders[x]
  BY <1>2 DEF IInv, TypeOK, Row
<1>5. Filled' = Filled
  BY <1>3, <1>4 DEF Filled
<1>6. \A x \in Orders : TradeOf(orders'[x]) = TradeOf(orders[x])
  BY <1>4 DEF TradeOf
<1>7. \A x \in Orders : TradeOf(orders[x])' = TradeOf(orders[x])
  BY <1>6 DEF TradeOf
<1> QED
  BY <1>3, <1>5, <1>7, Stutters DEF books

\* nor the reset of a paper account.
LEMMA ResetStutters ==
  ASSUME IInv, NEW p \in Papers, ResetWrite(p)
  PROVE  UNCHANGED Contract!vars
<1>1. /\ UNCHANGED <<orders, instruction>>
      /\ cash' = [cash EXCEPT ![p] = IF initials[p] = reset[p] THEN @ ELSE initials[p]]
      /\ position' = [a \in Accounts |-> IF a[1] = p THEN Nothing ELSE position[a]]
  BY DEF ResetWrite, trading
<1>2. p \notin Clients
  BY DEF Clients
<1>3. \A q \in Clients : cash'[q] = cash[q]
  BY <1>1, <1>2 DEF IInv, TypeOK
<1>4. \A a \in Clients \X Instruments : position'[a] = position[a]
  BY <1>1, <1>2, ClientAccounts
<1> QED
  BY <1>1, <1>3, <1>4, Stutters DEF TradeOf, Filled

\* Every step is one of the contract or a stutter.
LEMMA StepRefines == IInv /\ [Next]_vars => [Contract!Next]_(Contract!vars)
<1> SUFFICES ASSUME IInv, [Next]_vars
             PROVE  Contract!Next \/ UNCHANGED Contract!vars
  OBVIOUS
<1>1. ASSUME NEW o \in Orders, NEW p \in Prices, Submit(o, p) \/ Fill(o, p)
      PROVE  Contract!Next \/ UNCHANGED Contract!vars
  <2>1. CASE Submit(o, p)
    BY <2>1, SubmitStutters
  <2>2. CASE Fill(o, p)
    <3>1. Contract!Execute(o, p)
      BY <2>2, FillRefines
    <3> QED
      BY <3>1 DEF Contract!Next
  <2> QED
    BY <1>1, <2>1, <2>2
<1>2. CASE StpBook
  <2>1. \E o \in Orders : Contract!Book(o)
    BY <1>2, BookRefines
  <2> QED
    BY <2>1 DEF Contract!Next
<1>3. CASE SweepWrite
  <2>1. \E S \in SUBSET Orders : Contract!Advance(S)
    BY <1>3, SweepRefines
  <2> QED
    BY <2>1 DEF Contract!Next
<1>4. ASSUME NEW p \in Papers, ResetWrite(p)
      PROVE  Contract!Next \/ UNCHANGED Contract!vars
  BY <1>4, ResetStutters
<1>5. ASSUME UNCHANGED <<orders, instruction, cash, position>>
      PROVE  UNCHANGED Contract!vars
  BY <1>5, Stutters DEF TradeOf, Filled
<1>6. ASSUME NEW o \in Orders, Relay(o) \/ RelayUnmarked(o) \/ Elapse(o)
      PROVE  UNCHANGED <<orders, instruction, cash, position>>
  BY <1>6 DEF Relay, RelayUnmarked, Publish, Elapse, trading, books
<1>7. CASE \/ StpSkip \/ StpTake \/ StpRead \/ StpUnbookable \/ StpRecord
           \/ StpFault \/ StpRecordFault \/ SweepRead \/ SweepFault \/ Restart
           \/ UNCHANGED vars
  <2>1. UNCHANGED <<orders, instruction, cash, position>>
    BY <1>7 DEF StpSkip, StpTake, StpRead, StpUnbookable, StpRecord, StpFault,
                StpRecordFault, SweepRead, SweepFault, Restart, trading, books, vars
  <2> QED
    BY <2>1, <1>5
<1>8. ASSUME NEW p \in Papers, ResetRead(p)
      PROVE  UNCHANGED <<orders, instruction, cash, position>>
  BY <1>8 DEF ResetRead, trading, books
<1> QED
  BY <1>1, <1>2, <1>3, <1>4, <1>5, <1>6, <1>7, <1>8 DEF Next, StpStep

\* For every client portfolio the STP worker and the sweeper do what the design
\* promises, whatever is redelivered, fails, is reset or restarts meanwhile:
\* an execution is booked once, by its value, and settled in order.
THEOREM Implementation == Spec => SettlesAsPromised
<1>1. Init => Contract!Init
  BY InitRefines
<1>2. IInv /\ [Next]_vars => [Contract!Next]_(Contract!vars)
  BY StepRefines
<1> QED
  BY <1>1, <1>2, Invariance, PTL DEF Spec, SettlesAsPromised, Contract!Spec

-----------------------------------------------------------------------------
(* The ledger. *)

CashMoves    == [o \in Orders |-> CashMove(orders[o].ticket, orders[o].price)]
HoldingMoves == [o \in Orders |-> HoldingMove(orders[o].ticket)]

AllBooked      == {o \in Orders : Booked(o)}
BookedOf(p, I) == {o \in AllBooked : /\ orders[o].ticket.portfolio = p
                                     /\ orders[o].ticket.instrument \in I}

\* Only finitely many executions are booked, so that they have a sum.
BookedIsFinite == IsFiniteSet(AllBooked)

\* Nothing is booked that has not been filled: what a booking has moved stays
\* what its order moves.
BookedIsFilled == AllBooked \subseteq Filled

LedgerOf(p) ==
    /\ cash[p] = InitialCash + SumOf(CashMoves, BookedOf(p, Instruments))
    /\ \A i \in Instruments :
          Held(position[<<p, i>>]) = SumOf(HoldingMoves, BookedOf(p, {i}))

LedgerInv == BookedIsFinite /\ BookedIsFilled /\ \A p \in Clients : LedgerOf(p)

\* Finitely many orders of an account are booked.
LEMMA BookedAreFinite ==
  ASSUME BookedIsFinite, NEW p, NEW I
  PROVE  IsFiniteSet(BookedOf(p, I)) /\ BookedOf(p, I) \subseteq AllBooked
<1>1. BookedOf(p, I) \in SUBSET AllBooked
  BY DEF BookedOf
<1> QED
  BY <1>1, FS_Subset DEF BookedIsFinite

\* What is booked moves by numbers.
LEMMA BookedMoves ==
  ASSUME TypeOK, BookedIsFilled, NEW o \in AllBooked
  PROVE  CashMoves[o] \in Int /\ HoldingMoves[o] \in Int
<1>1. o \in Orders /\ o \in Filled
  BY DEF BookedIsFilled, AllBooked
<1>2. orders[o].ticket \in Ticket /\ orders[o].price \in Prices
  BY <1>1, AccountTypes
<1> QED
  BY <1>1, <1>2, Moves DEF CashMoves, HoldingMoves

\* At the start nothing is booked.
LEMMA InitLedger == Init => LedgerInv
<1> SUFFICES ASSUME Init PROVE LedgerInv
  OBVIOUS
<1>1. AllBooked = {}
  BY DEF Init, AllBooked, Booked
<1>2. \A p, I : BookedOf(p, I) = {}
  BY <1>1 DEF BookedOf
<1>3. BookedIsFinite /\ BookedIsFilled
  BY <1>1, FS_EmptySet DEF BookedIsFinite, BookedIsFilled
<1>4. ASSUME NEW p \in Clients PROVE LedgerOf(p)
  <2>1. cash[p] = InitialCash /\ \A i \in Instruments : Held(position[<<p, i>>]) = 0
    BY <1>4 DEF Init, Clients, Accounts, Held
  <2>2. InitialCash + 0 = InitialCash
    BY CashAssumption
  <2> QED
    BY <1>2, <2>1, <2>2, SumEmpty DEF LedgerOf
<1> QED
  BY <1>3, <1>4 DEF LedgerInv

\* A step that books nothing keeps the ledger.
LEMMA NothingBooked ==
  ASSUME LedgerInv, AllBooked' = AllBooked,
         \A o \in AllBooked : orders'[o] = orders[o] /\ o \in Filled',
         \A p \in Clients : cash'[p] = cash[p],
         \A a \in Clients \X Instruments : Held(position'[a]) = Held(position[a])
  PROVE  LedgerInv'
<1>1. BookedIsFinite' /\ BookedIsFilled'
  BY DEF LedgerInv, BookedIsFinite, BookedIsFilled
<1>2. \A p, I : BookedOf(p, I)' = BookedOf(p, I)
  BY DEF BookedOf
<1>3. \A o \in AllBooked : CashMoves'[o] = CashMoves[o] /\ HoldingMoves'[o] = HoldingMoves[o]
  BY DEF CashMoves, HoldingMoves, AllBooked
<1>4. ASSUME NEW p, NEW I
      PROVE  /\ SumOf(CashMoves', BookedOf(p, I)) = SumOf(CashMoves, BookedOf(p, I))
             /\ SumOf(HoldingMoves', BookedOf(p, I)) = SumOf(HoldingMoves, BookedOf(p, I))
  BY <1>3, BookedAreFinite, SumAgrees DEF LedgerInv
<1>5. ASSUME NEW p \in Clients PROVE LedgerOf(p)'
  <2>1. LedgerOf(p)
    BY DEF LedgerInv
  <2>2. /\ BookedOf(p, Instruments)' = BookedOf(p, Instruments)
        /\ \A i \in Instruments : BookedOf(p, {i})' = BookedOf(p, {i})
    BY <1>2
  <2>3. \A i \in Instruments : Held(position'[<<p, i>>]) = Held(position[<<p, i>>])
    OBVIOUS
  <2> QED
    BY <1>4, <2>1, <2>2, <2>3 DEF LedgerOf, Held
<1> QED
  BY <1>1, <1>5 DEF LedgerInv

\* A booking adds its order to what is booked, and to the sums it is in.
LEMMA BookKeepsLedger ==
  ASSUME IInv, LedgerInv, StpBook
  PROVE  LedgerInv'
<1> DEFINE o == stp.order
           t == orders[o].ticket
<1>1. /\ o \in Orders /\ o \in Filled /\ instruction[o] = "NONE"
      /\ instruction' = [instruction EXCEPT ![o] = "EXECUTED"]
      /\ orders' = orders
      /\ t \in Ticket /\ orders[o].price \in Prices
  BY BookEffect
<1>2. /\ \A p \in Clients :
            cash'[p] = IF p = t.portfolio THEN cash[p] + CashMove(t, orders[o].price)
                                          ELSE cash[p]
      /\ \A a \in Clients \X Instruments :
            Held(position'[a]) = IF a = Account(t) THEN Held(position[a]) + HoldingMove(t)
                                                   ELSE Held(position[a])
  BY BookEffect
<1>3. AllBooked' = AllBooked \cup {o} /\ o \notin AllBooked
  BY <1>1 DEF AllBooked, Booked, IInv, TypeOK
<1>4. CashMoves' = CashMoves /\ HoldingMoves' = HoldingMoves /\ Filled' = Filled
  BY <1>1 DEF CashMoves, HoldingMoves, Filled
<1>5. CashMoves[o] = CashMove(t, orders[o].price) /\ HoldingMoves[o] = HoldingMove(t)
  BY <1>1 DEF CashMoves, HoldingMoves
<1>6. CashMoves[o] \in Int /\ HoldingMoves[o] \in Int
  BY <1>1, <1>5, Moves
<1>7. BookedIsFinite' /\ BookedIsFilled'
  <2>1. IsFiniteSet(AllBooked \cup {o})
    BY FS_AddElement DEF LedgerInv, BookedIsFinite
  <2>2. AllBooked \cup {o} \subseteq Filled
    BY <1>1 DEF LedgerInv, BookedIsFilled
  <2> QED
    BY <1>3, <1>4, <2>1, <2>2 DEF BookedIsFinite, BookedIsFilled
<1>8. \A p, I : BookedOf(p, I)' = IF t.portfolio = p /\ t.instrument \in I
                                 THEN BookedOf(p, I) \cup {o} ELSE BookedOf(p, I)
  BY <1>1, <1>3 DEF BookedOf
<1> HIDE DEF o, t
<1>9. ASSUME NEW p, NEW I
      PROVE  /\ SumOf(CashMoves, BookedOf(p, I) \cup {o})
                   = CashMoves[o] + SumOf(CashMoves, BookedOf(p, I))
             /\ SumOf(HoldingMoves, BookedOf(p, I) \cup {o})
                   = HoldingMoves[o] + SumOf(HoldingMoves, BookedOf(p, I))
             /\ SumOf(CashMoves, BookedOf(p, I)) \in Int
             /\ SumOf(HoldingMoves, BookedOf(p, I)) \in Int
  <2>1. IsFiniteSet(BookedOf(p, I)) /\ o \notin BookedOf(p, I)
    BY <1>3, BookedAreFinite DEF LedgerInv
  <2>2. \A y \in BookedOf(p, I) : CashMoves[y] \in Int /\ HoldingMoves[y] \in Int
    BY BookedAreFinite, BookedMoves DEF LedgerInv, IInv
  <2>3. \A y \in BookedOf(p, I) \cup {o} : CashMoves[y] \in Int /\ HoldingMoves[y] \in Int
    BY <1>6, <2>2
  <2> QED
    BY <2>1, <2>2, <2>3, SumAdd, SumIsInteger
<1>10. ASSUME NEW p \in Clients PROVE LedgerOf(p)'
  <2>1. cash'[p] = InitialCash + SumOf(CashMoves', BookedOf(p, Instruments)')
    <3>1. cash[p] = InitialCash + SumOf(CashMoves, BookedOf(p, Instruments))
      BY DEF LedgerInv, LedgerOf
    <3>2. t.instrument \in Instruments
      BY <1>1 DEF Ticket
    <3>3. CASE p = t.portfolio
      <4>1. BookedOf(p, Instruments)' = BookedOf(p, Instruments) \cup {o}
        BY <1>8, <3>2, <3>3
      <4>2. cash'[p] = cash[p] + CashMoves[o]
        BY <1>2, <1>5, <3>3
      <4>3. SumOf(CashMoves', BookedOf(p, Instruments)')
               = CashMoves[o] + SumOf(CashMoves, BookedOf(p, Instruments))
        BY <1>4, <1>9, <4>1
      <4>4. SumOf(CashMoves, BookedOf(p, Instruments)) \in Int
        BY <1>9
      <4> QED
        BY <1>6, <3>1, <4>2, <4>3, <4>4, CashAssumption
    <3>4. CASE p # t.portfolio
      BY <1>2, <1>4, <1>8, <3>1, <3>4
    <3> QED
      BY <3>3, <3>4
  <2>2. ASSUME NEW i \in Instruments
        PROVE  Held(position'[<<p, i>>]) = SumOf(HoldingMoves', BookedOf(p, {i})')
    <3>1. Held(position[<<p, i>>]) = SumOf(HoldingMoves, BookedOf(p, {i}))
      BY DEF LedgerInv, LedgerOf
    <3>2. Account(t) = <<t.portfolio, t.instrument>>
      BY DEF Account
    <3>3. CASE p = t.portfolio /\ i = t.instrument
      <4>1. BookedOf(p, {i})' = BookedOf(p, {i}) \cup {o}
        BY <1>8, <3>3
      <4>2. Held(position'[<<p, i>>]) = Held(position[<<p, i>>]) + HoldingMoves[o]
        BY <1>2, <1>5, <3>2, <3>3
      <4>3. SumOf(HoldingMoves', BookedOf(p, {i})')
               = HoldingMoves[o] + SumOf(HoldingMoves, BookedOf(p, {i}))
        BY <1>4, <1>9, <4>1
      <4>4. SumOf(HoldingMoves, BookedOf(p, {i})) \in Int
        BY <1>9
      <4> QED
        BY <1>6, <3>1, <4>2, <4>3, <4>4
    <3>4. CASE ~(p = t.portfolio /\ i = t.instrument)
      <4>1. BookedOf(p, {i})' = BookedOf(p, {i})
        BY <1>8, <3>4
      <4>2. Held(position'[<<p, i>>]) = Held(position[<<p, i>>])
        BY <1>2, <3>2, <3>4
      <4> QED
        BY <1>4, <3>1, <4>1, <4>2
    <3> QED
      BY <3>3, <3>4
  <2> QED
    BY <2>1, <2>2 DEF LedgerOf, Held
<1> QED
  BY <1>7, <1>10 DEF LedgerInv

\* Every step keeps the ledger.
LEMMA StepLedger == IInv /\ LedgerInv /\ [Next]_vars => LedgerInv'
<1> SUFFICES ASSUME IInv, LedgerInv, [Next]_vars PROVE LedgerInv'
  OBVIOUS
<1>1. AllBooked \subseteq Filled
  BY DEF LedgerInv, BookedIsFilled
<1>2. ASSUME UNCHANGED <<orders, instruction>>,
             \A p \in Clients : cash'[p] = cash[p],
             \A a \in Clients \X Instruments : position'[a] = position[a]
      PROVE  LedgerInv'
  <2>1. AllBooked' = AllBooked /\ Filled' = Filled
    BY <1>2 DEF AllBooked, Booked, Filled
  <2> QED
    BY <1>1, <1>2, <2>1, NothingBooked
<1>3. ASSUME NEW o \in Orders, NEW p \in Prices, Submit(o, p) \/ Fill(o, p)
      PROVE  LedgerInv'
  <2>1. /\ UNCHANGED <<instruction, cash, position>>
        /\ o \notin Filled
        /\ \A x \in Orders : x # o => orders'[x] = orders[x]
    BY <1>3 DEF Submit, Fill, books, Filled, IInv, TypeOK
  <2>2. AllBooked' = AllBooked
    BY <2>1 DEF AllBooked, Booked
  <2>3. \A x \in AllBooked : orders'[x] = orders[x] /\ x \in Filled'
    BY <1>1, <2>1 DEF Filled
  <2> QED
    BY <2>1, <2>2, <2>3, NothingBooked
<1>4. CASE SweepWrite
  <2>1. UNCHANGED <<orders, cash, position>>
    BY <1>4 DEF SweepWrite, trading
  <2>2. \A o \in Orders : Booked(o)' <=> Booked(o)
    BY <1>4, SweepEffect DEF Booked, Unsettled, Following
  <2>3. AllBooked' = AllBooked /\ Filled' = Filled
    BY <2>1, <2>2 DEF AllBooked, Filled
  <2> QED
    BY <1>1, <2>1, <2>3, NothingBooked
<1>5. ASSUME NEW p \in Papers, ResetWrite(p)
      PROVE  LedgerInv'
  <2>1. /\ UNCHANGED <<orders, instruction>>
        /\ cash' = [cash EXCEPT ![p] = IF initials[p] = reset[p] THEN @ ELSE initials[p]]
        /\ position' = [a \in Accounts |-> IF a[1] = p THEN Nothing ELSE position[a]]
    BY <1>5 DEF ResetWrite, trading
  <2>2. p \notin Clients
    BY DEF Clients
  <2>3. \A q \in Clients : cash'[q] = cash[q]
    BY <2>1, <2>2 DEF IInv, TypeOK
  <2>4. \A a \in Clients \X Instruments : position'[a] = position[a]
    BY <2>1, <2>2, ClientAccounts
  <2> QED
    BY <1>2, <2>1, <2>3, <2>4
<1>6. ASSUME NEW o \in Orders, Relay(o) \/ RelayUnmarked(o) \/ Elapse(o)
      PROVE  LedgerInv'
  <2>1. UNCHANGED <<orders, instruction, cash, position>>
    BY <1>6 DEF Relay, RelayUnmarked, Publish, Elapse, trading, books
  <2> QED
    BY <1>2, <2>1
<1>7. CASE \/ StpSkip \/ StpTake \/ StpRead \/ StpUnbookable \/ StpRecord
           \/ StpFault \/ StpRecordFault \/ SweepRead \/ SweepFault \/ Restart
           \/ UNCHANGED vars
  <2>1. UNCHANGED <<orders, instruction, cash, position>>
    BY <1>7 DEF StpSkip, StpTake, StpRead, StpUnbookable, StpRecord, StpFault,
                StpRecordFault, SweepRead, SweepFault, Restart, trading, books, vars
  <2> QED
    BY <1>2, <2>1
<1>8. ASSUME NEW p \in Papers, ResetRead(p)
      PROVE  LedgerInv'
  <2>1. UNCHANGED <<orders, instruction, cash, position>>
    BY <1>8 DEF ResetRead, trading, books
  <2> QED
    BY <1>2, <2>1
<1>9. CASE StpBook
  BY <1>9, BookKeepsLedger
<1> QED
  BY <1>3, <1>4, <1>5, <1>6, <1>7, <1>8, <1>9 DEF Next, StpStep

\* The sums of LedgerMatches are those of the invariant.
LEMMA LedgerSums ==
  ASSUME NEW S \in SUBSET Orders, IsFiniteSet(S)
  PROVE  /\ MapThenSumSet(LAMBDA o : CashMove(orders[o].ticket, orders[o].price), S)
               = SumOf(CashMoves, S)
         /\ MapThenSumSet(LAMBDA o : HoldingMove(orders[o].ticket), S)
               = SumOf(HoldingMoves, S)
<1> DEFINE cashSum(g) ==
             g = [s \in SUBSET S |-> IF s = {} THEN 0
                    ELSE CashMove(orders[Some(s)].ticket, orders[Some(s)].price)
                           + g[s \ {Some(s)}]]
           holdingSum(g) ==
             g = [s \in SUBSET S |-> IF s = {} THEN 0
                    ELSE HoldingMove(orders[Some(s)].ticket) + g[s \ {Some(s)}]]
<1>1. \A s \in SUBSET S : s # {} =>
         /\ CashMoves[Some(s)] = CashMove(orders[Some(s)].ticket, orders[Some(s)].price)
         /\ HoldingMoves[Some(s)] = HoldingMove(orders[Some(s)].ticket)
  BY SomeIsMember DEF CashMoves, HoldingMoves
<1>2. \A g : /\ cashSum(g) <=> IsSum(g, CashMoves, S)
             /\ holdingSum(g) <=> IsSum(g, HoldingMoves, S)
  BY <1>1 DEF IsSum
<1>3. PICK c : cashSum(c)
  BY <1>2, SumExists
<1>4. PICK h : holdingSum(h)
  BY <1>2, SumExists
<1>5. \E g : /\ cashSum(g)
             /\ MapThenSumSet(LAMBDA o : CashMove(orders[o].ticket, orders[o].price), S) = g[S]
  BY <1>3 DEF MapThenSumSet, MapThenFoldSet, Some
<1>6. \E g : /\ holdingSum(g)
             /\ MapThenSumSet(LAMBDA o : HoldingMove(orders[o].ticket), S) = g[S]
  BY <1>4 DEF MapThenSumSet, MapThenFoldSet, Some
<1>7. PICK k : IsSum(k, CashMoves, S) /\ \A V \in SUBSET S : SumOf(CashMoves, V) = k[V]
  BY SumDefined
<1>8. PICK m : IsSum(m, HoldingMoves, S) /\ \A V \in SUBSET S : SumOf(HoldingMoves, V) = m[V]
  BY SumDefined
<1> HIDE DEF cashSum, holdingSum
<1>9. MapThenSumSet(LAMBDA o : CashMove(orders[o].ticket, orders[o].price), S)
         = SumOf(CashMoves, S)
  BY <1>2, <1>5, <1>7, SumUnique
<1>10. MapThenSumSet(LAMBDA o : HoldingMove(orders[o].ticket), S) = SumOf(HoldingMoves, S)
  BY <1>2, <1>6, <1>8, SumUnique
<1> QED
  BY <1>9, <1>10

\* The ledger is what the property says.
LEMMA LedgerImplies == LedgerInv => LedgerMatches
<1> SUFFICES ASSUME LedgerInv PROVE LedgerMatches
  OBVIOUS
<1> DEFINE booked(p, i) == {o \in Orders : /\ Booked(o)
                                          /\ orders[o].ticket.portfolio = p
                                          /\ orders[o].ticket.instrument \in i}
<1>1. ASSUME NEW p, NEW i
      PROVE  /\ booked(p, i) = BookedOf(p, i) /\ booked(p, i) \in SUBSET Orders
             /\ IsFiniteSet(booked(p, i))
  <2>1. booked(p, i) = BookedOf(p, i)
    BY DEF BookedOf, AllBooked
  <2> QED
    BY <2>1, BookedAreFinite DEF LedgerInv, AllBooked
<1>2. ASSUME NEW p, NEW i
      PROVE  /\ MapThenSumSet(LAMBDA o : CashMove(orders[o].ticket, orders[o].price),
                              booked(p, i)) = SumOf(CashMoves, BookedOf(p, i))
             /\ MapThenSumSet(LAMBDA o : HoldingMove(orders[o].ticket), booked(p, i))
                   = SumOf(HoldingMoves, BookedOf(p, i))
  BY <1>1, LedgerSums
<1>3. ASSUME NEW p \in Clients
      PROVE  /\ cash[p] = InitialCash
                 + MapThenSumSet(LAMBDA o : CashMove(orders[o].ticket, orders[o].price),
                                 booked(p, Instruments))
             /\ \A i \in Instruments :
                   Held(position[<<p, i>>]) =
                   MapThenSumSet(LAMBDA o : HoldingMove(orders[o].ticket), booked(p, {i}))
  BY <1>2 DEF LedgerInv, LedgerOf
<1> QED
  BY <1>3 DEF LedgerMatches

\* The books of a client are the sum of what was booked for it: no redelivery,
\* failed unit of work or restart makes _process_execution (workers.py:330-394)
\* book an execution twice, in part, or over another booking.
THEOREM LedgerHolds == Spec => []LedgerMatches
<1>1. Init => LedgerInv
  BY InitLedger
<1>2. IInv /\ LedgerInv /\ [Next]_vars => LedgerInv'
  BY StepLedger
<1>3. LedgerInv => LedgerMatches
  BY LedgerImplies
<1> QED
  BY <1>1, <1>2, <1>3, Invariance, PTL DEF Spec
=============================================================================
