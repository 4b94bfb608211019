------------------------ MODULE OrderLifecycleProofs ------------------------
(***************************************************************************)
(* What OrderLifecycle guarantees for every number of orders, requests and *)
(* instruments and for every bound: types, one execution per order, the    *)
(* book never losing an OPEN order, and closed orders staying closed.      *)
(***************************************************************************)
EXTENDS OrderLifecycle, SequenceTheorems, TLAPS

-----------------------------------------------------------------------------
(* Types. *)

\* The types hold at the start.
LEMMA InitTypes == Init => TypeOK
  BY NothingAssumption, TicketAssumption, BoundAssumption
  DEF Init, TypeOK, Row, Booting, Engine, EngineShape, Optional, NoRequest,
      Request, RequestShape, Execution, Event, Working, Closed

\* A status or a set of terms written over a row gives a row.
LEMMA StatusTypes ==
  ASSUME orders \in [Orders -> Row], NEW o \in Orders,
         NEW s \in Working \cup Closed
  PROVE  [orders EXCEPT ![o].status = s] \in [Orders -> Row]
  BY DEF Row

\* A row with other terms is a row,
LEMMA TermsTypes ==
  ASSUME orders \in [Orders -> Row], NEW o \in Orders, NEW t \in Terms
  PROVE  [orders EXCEPT ![o].terms = t] \in [Orders -> Row]
  BY DEF Row

\* also with a converted type.
LEMMA ConvertTypes ==
  ASSUME orders \in [Orders -> Row], NEW o \in Orders
  PROVE  [orders EXCEPT ![o].terms.type = "LIMIT"] \in [Orders -> Row]
<1>1. orders[o].terms \in Terms
  BY DEF Row
<1>2. [orders[o].terms EXCEPT !.type = "LIMIT"] \in Terms
  BY <1>1 DEF Terms, Types
<1> QED
  BY <1>2 DEF Row

\* Amended terms are terms.
LEMMA AmendedTypes ==
  ASSUME NEW t \in Terms, NEW a \in Amendments, NEW read \in Terms
  PROVE  Amended(t, a, read) \in Terms
<1>1. a \in Amendment
  BY AmendAssumption
<1> QED
  BY <1>1 DEF Amended, Overwrite, Terms, Amendment, Optional

\* A handler that ends or fails leaves a request record.
LEMMA EndTypes ==
  ASSUME req \in [Requests -> Request], NEW r \in Requests
  PROVE  [req EXCEPT ![r] = NoRequest] \in [Requests -> Request]
  BY DEF NoRequest, Request, RequestShape

\* A request that is handled keeps its types.
LEMMA HandlingTypes ==
  ASSUME req \in [Requests -> Request], NEW r \in Requests, NEW o \in Orders,
         NEW p \in {"submit", "cancel", "failed"}
  PROVE  [req EXCEPT ![r] = Handling(p, o)] \in [Requests -> Request]
<1>1. Handling(p, o) \in Request
  BY DEF Handling, NoRequest, Request, RequestShape
<1> QED
  BY <1>1

\* The reads of submit and cancel keep the types,
LEMMA SubmitReadTypes ==
  ASSUME TypeOK, NEW r \in Requests, NEW o \in Orders,
         SubmitRead(r, o) \/ CancelRead(r, o)
  PROVE  TypeOK'
<1>1. req' \in [Requests -> Request]
  BY HandlingTypes DEF SubmitRead, CancelRead, TypeOK
<1> QED
  BY <1>1 DEF SubmitRead, CancelRead, TypeOK, db, memory

\* as does that of an amendment,
LEMMA AmendReadTypes ==
  ASSUME TypeOK, NEW r \in Requests, NEW o \in Orders, NEW a \in Amendments,
         AmendRead(r, o, a)
  PROVE  TypeOK'
<1>1. orders[o].terms \in Terms
  BY DEF TypeOK, Row
<1>2. req' \in [Requests -> Request]
  BY <1>1 DEF AmendRead, TypeOK, Request, RequestShape
<1> QED
  BY <1>2 DEF AmendRead, TypeOK, db, memory

\* the answer 503,
LEMMA SuspendedTypes ==
  ASSUME TypeOK, NEW r \in Requests, SubmitSuspended(r) \/ AmendSuspended(r)
  PROVE  TypeOK'
<1>1. req' \in [Requests -> Request]
  BY EndTypes DEF SubmitSuspended, AmendSuspended, TypeOK
<1> QED
  BY <1>1 DEF SubmitSuspended, AmendSuspended, TypeOK, db, memory

\* the write of a submission,
LEMMA SubmitWriteTypes ==
  ASSUME TypeOK, NEW r \in Requests, SubmitWrite(r)
  PROVE  TypeOK'
<1>1. req[r].order \in Orders
  BY DEF SubmitWrite, TypeOK, Request, RequestShape
<1>2. req' \in [Requests -> Request]
  BY <1>1, EndTypes, HandlingTypes DEF SubmitWrite, TypeOK
<1>3. orders' \in [Orders -> Row]
  <2>1. CASE SetStatus(req[r].order, "ACCEPTED")
    BY <1>1, <2>1, StatusTypes DEF SetStatus, TypeOK, Working
  <2>2. CASE SetStatus(req[r].order, "REJECTED")
    BY <1>1, <2>2, StatusTypes DEF SetStatus, TypeOK, Closed
  <2>3. CASE UNCHANGED orders
    BY <2>3 DEF TypeOK
  <2> QED
    BY <2>1, <2>2, <2>3 DEF SubmitWrite
<1>4. outbox' \subseteq Orders
  BY <1>1 DEF SubmitWrite, TypeOK
<1> QED
  BY <1>2, <1>3, <1>4 DEF SubmitWrite, TypeOK, memory

\* of a cancellation,
LEMMA CancelWriteTypes ==
  ASSUME TypeOK, NEW r \in Requests, CancelWrite(r)
  PROVE  TypeOK'
<1>1. req[r].order \in Orders
  BY DEF CancelWrite, TypeOK, Request, RequestShape
<1>2. orders' \in [Orders -> Row]
  BY <1>1, StatusTypes DEF CancelWrite, SetStatus, TypeOK, Closed
<1>3. req' \in [Requests -> Request]
  BY EndTypes DEF CancelWrite, TypeOK
<1> QED
  BY <1>2, <1>3 DEF CancelWrite, TypeOK, memory

\* of an amendment,
LEMMA AmendWriteTypes ==
  ASSUME TypeOK, NEW r \in Requests, AmendWrite(r)
  PROVE  TypeOK'
<1> DEFINE o == req[r].order
<1>1. /\ o \in Orders
      /\ req[r].change \in Amendments
      /\ req[r].seen \in Terms
  BY DEF AmendWrite, TypeOK, Request, RequestShape
<1>2. Amended(orders[o].terms, req[r].change, req[r].seen) \in Terms
  BY <1>1, AmendedTypes DEF TypeOK, Row
<1>3. orders' \in [Orders -> Row]
  <2>1. CASE SetStatus(o, "REJECTED")
    BY <2>1, <1>1, StatusTypes DEF SetStatus, TypeOK, Closed
  <2>2. CASE orders' = [orders EXCEPT ![o].terms =
                              Amended(@, req[r].change, req[r].seen)]
    BY <2>2, <1>1, <1>2, TermsTypes DEF TypeOK
  <2> QED
    BY <2>1, <2>2 DEF AmendWrite
<1>4. req' \in [Requests -> Request]
  BY EndTypes DEF AmendWrite, TypeOK
<1> QED
  BY <1>3, <1>4 DEF AmendWrite, TypeOK, memory

\* and so every step of a handler.
LEMMA ApiTypes == TypeOK /\ Api => TypeOK'
  BY SubmitReadTypes, AmendReadTypes, SuspendedTypes, SubmitWriteTypes,
     CancelWriteTypes, AmendWriteTypes DEF Api

\* The queue is one of events, before and after one is added or taken.
LEMMA QueueTypes ==
  ASSUME queue \in Seq(Event)
  PROVE  /\ \A e \in Event : Append(queue, e) \in Seq(Event)
         /\ queue # << >> => Head(queue) \in Event /\ Tail(queue) \in Seq(Event)
  BY AppendProperties, HeadTailProperties

\* Relay and feed keep the types.
LEMMA EventTypes ==
  ASSUME TypeOK
  PROVE  /\ \A o \in Orders : Relay(o) \/ RelayUnmarked(o) => TypeOK'
         /\ \A i \in Instruments, p \in Prices :
                Tick(i, p) \/ Warm(i, p) => TypeOK'
<1>1. ASSUME NEW o \in Orders, Relay(o) \/ RelayUnmarked(o)
      PROVE  TypeOK'
  <2>1. Accepted(o) \in Event
    BY DEF Accepted, Event
  <2>2. queue' \in Seq(Event)
    BY <1>1, <2>1, QueueTypes DEF Relay, RelayUnmarked, Publish, TypeOK
  <2>3. outbox' \subseteq Orders /\ faults' \in 0..MaxFaults
    BY <1>1, BoundAssumption DEF Relay, RelayUnmarked, TypeOK
  <2> QED
    BY <1>1, <2>2, <2>3 DEF Relay, RelayUnmarked, Publish, TypeOK
<1>2. ASSUME NEW i \in Instruments, NEW p \in Prices, Tick(i, p) \/ Warm(i, p)
      PROVE  TypeOK'
  <2>1. TickOf(i) \in Event
    BY DEF TickOf, Event
  <2>2. queue' \in Seq(Event)
    BY <1>2, <2>1, QueueTypes DEF Tick, Warm, TypeOK
  <2>3. snapshot' \in [Instruments -> Optional(Nat)]
    BY <1>2, PriceAssumption DEF Tick, Warm, TypeOK, Optional
  <2> QED
    BY <1>2, <2>2, <2>3 DEF Tick, Warm, TypeOK, db
<1> QED
  BY <1>1, <1>2

\* Proceed starts the next unit of work of a tick or leaves the engine idle.
LEMMA ProceedTypes ==
  ASSUME NEW rest \in SUBSET Orders, Proceed(rest)
  PROVE  engine' \in Engine
  BY DEF Proceed, Idle, Booting, Engine, EngineShape

\* An idle engine and a starting one have their types.
LEMMA IdleTypes == Idle \in Engine /\ Booting \in Engine
  BY DEF Idle, Booting, Engine, EngineShape

\* The rebuild of the book keeps the types,
LEMMA RebuildTypes ==
  ASSUME TypeOK, RebuildRead \/ RebuildWrite \/ RebuildFault
  PROVE  TypeOK'
<1>1. CASE RebuildRead
  <2>1. book' \subseteq Orders
    BY <1>1 DEF RebuildRead
  <2>2. engine' \in Engine
    BY <1>1, <2>1 DEF RebuildRead, TypeOK, Engine, EngineShape
  <2> QED
    BY <1>1, <2>1, <2>2 DEF RebuildRead, TypeOK, db
<1>2. CASE RebuildWrite
  <2>1. orders' \in [Orders -> Row]
    BY <1>2 DEF RebuildWrite, TypeOK, Row, Working
  <2> QED
    BY <1>2, <2>1, IdleTypes DEF RebuildWrite, TypeOK, memory
<1>3. CASE RebuildFault
  <2>1. engine' \in Engine
    BY <1>3 DEF RebuildFault, Idle, Booting, Engine, EngineShape
  <2> QED
    BY <1>3, <2>1, BoundAssumption DEF RebuildFault, TypeOK, db, memory
<1> QED
  BY <1>1, <1>2, <1>3

\* as does the event that is taken,
LEMMA DequeueTypes ==
  ASSUME TypeOK, OnAccepted \/ OnTick
  PROVE  TypeOK'
<1>1. Head(queue) \in Event /\ queue' \in Seq(Event)
  BY QueueTypes DEF OnAccepted, OnTick, TypeOK
<1>2. CASE OnAccepted
  <2>1. Head(queue).order \in Orders
    BY <1>1, <1>2 DEF OnAccepted, Event
  <2>2. engine' \in Engine
    BY <1>2, <2>1 DEF OnAccepted, Idle, Booting, Engine, EngineShape
  <2> QED
    BY <1>1, <1>2, <2>2 DEF OnAccepted, TypeOK, db
<1>3. CASE OnTick
  <2>1. {o \in book : orders[o].terms.instrument = Head(queue).instrument}
          \in SUBSET Orders
    BY DEF TypeOK
  <2>2. engine' \in Engine
    BY <1>3, <2>1, ProceedTypes DEF OnTick
  <2> QED
    BY <1>1, <1>3, <2>2 DEF OnTick, TypeOK, db
<1> QED
  BY <1>2, <1>3

\* In the middle of a unit of work the engine holds an order; deciding and
\* parking it also holds the row it read.
LEMMA EngineHolds ==
  ASSUME TypeOK
  PROVE  /\ engine.todo \in SUBSET Orders
         /\ engine.pc \in {"load", "decide", "reload", "park"}
               => engine.order \in Orders
         /\ engine.pc \in {"decide", "park"} => engine.seen \in Row
  BY DEF TypeOK, Engine, EngineShape

\* a row that is read,
LEMMA LoadTypes ==
  ASSUME TypeOK, Load \/ Reload
  PROVE  TypeOK'
<1>1. engine.order \in Orders
  BY EngineHolds DEF Load, Reload
<1>2. orders[engine.order] \in Row
  BY <1>1 DEF TypeOK
<1>3. engine' \in Engine
  <2>1. CASE Load
    BY <2>1, <1>1, <1>2 DEF Load, TypeOK, Engine, EngineShape
  <2>2. CASE Reload
    <3>1. [engine EXCEPT !.pc = "park", !.seen = orders[engine.order]] \in Engine
      BY <2>2, <1>1, <1>2 DEF Reload, TypeOK, Engine, EngineShape
    <3> QED
      BY <2>2, <3>1, IdleTypes DEF Reload
  <2> QED
    BY <2>1, <2>2
<1> QED
  BY <1>3 DEF Load, Reload, TypeOK, db, memory

\* an order that is not filled now,
LEMMA DecideTypes ==
  ASSUME TypeOK, SkipClosed \/ KeepWorking \/ ConvertStopLimit
  PROVE  TypeOK'
<1>1. engine.order \in Orders /\ engine.todo \in SUBSET Orders
  BY EngineHolds DEF SkipClosed, KeepWorking, ConvertStopLimit, Crossing, Deciding
<1>2. CASE SkipClosed
  BY <1>1, <1>2, ProceedTypes DEF SkipClosed, Drop, TypeOK, db
<1>3. CASE KeepWorking
  <2>1. engine' \in Engine
    <3>1. CASE engine.accepted
      <4>1. engine \in EngineShape({"decide", "park"}, {TRUE}, Orders, Row, {{}})
        BY <1>3, <3>1 DEF KeepWorking, Deciding, TypeOK, Engine, EngineShape
      <4>2. [engine EXCEPT !.pc = "reload", !.seen = Nothing]
              \in EngineShape({"load", "reload"}, {TRUE}, Orders, {Nothing}, {{}})
        BY <4>1 DEF EngineShape
      <4> QED
        BY <1>3, <3>1, <4>2 DEF KeepWorking, Engine
    <3>2. CASE ~engine.accepted
      BY <1>1, <1>3, <3>2, ProceedTypes DEF KeepWorking
    <3> QED
      BY <3>1, <3>2
  <2> QED
    BY <1>3, <2>1 DEF KeepWorking, TypeOK, db, memory
<1>4. CASE ConvertStopLimit
  <2>1. orders' \in [Orders -> Row]
    BY <1>1, <1>4, ConvertTypes DEF ConvertStopLimit, TypeOK
  <2>2. engine' \in Engine
    BY <1>1, <1>4 DEF ConvertStopLimit, Crossing, Deciding, TypeOK, Engine,
                      EngineShape
  <2> QED
    BY <1>4, <2>1, <2>2 DEF ConvertStopLimit, TypeOK, memory
<1> QED
  BY <1>2, <1>3, <1>4

\* one that is,
LEMMA FillTypes ==
  ASSUME TypeOK, Fill
  PROVE  TypeOK'
<1>1. /\ engine.order \in Orders
      /\ engine.todo \in SUBSET Orders
      /\ engine.seen \in Row
  BY EngineHolds DEF Fill, Crossing, Deciding
<1>2. Price \in Nat /\ engine.seen.terms.quantity \in Nat
  BY <1>1 DEF Fill, Crossing, Crossed, Price, TypeOK, Optional, Row, Terms
<1>3. executions' \in Seq(Execution)
  BY <1>1, <1>2 DEF Fill, TypeOK, Execution
<1>4. orders' \in [Orders -> Row]
  BY <1>1, StatusTypes DEF Fill, SetStatus, TypeOK, Closed
<1>5. engine' \in Engine
  BY <1>1, ProceedTypes DEF Fill
<1> QED
  BY <1>3, <1>4, <1>5 DEF Fill, Drop, TypeOK

\* one that is parked,
LEMMA ParkTypes ==
  ASSUME TypeOK, ParkOpen
  PROVE  TypeOK'
<1>1. engine.order \in Orders
  BY EngineHolds DEF ParkOpen
<1>2. orders' \in [Orders -> Row]
  <2>1. CASE SetStatus(engine.order, "OPEN")
    BY <1>1, <2>1, StatusTypes DEF SetStatus, TypeOK, Working
  <2>2. CASE UNCHANGED orders
    BY <2>2 DEF TypeOK
  <2> QED
    BY <2>1, <2>2 DEF ParkOpen
<1> QED
  BY <1>1, <1>2, IdleTypes DEF ParkOpen, TypeOK

\* a failure and a restart.
LEMMA FaultTypes ==
  ASSUME TypeOK, EventFault \/ Restart
  PROVE  TypeOK'
<1>1. CASE EventFault
  BY <1>1, BoundAssumption, IdleTypes DEF EventFault, TypeOK, db, memory
<1>2. CASE Restart
  <2>1. req' \in [Requests -> Request]
    BY <1>2 DEF Restart, NoRequest, Request, RequestShape
  <2> QED
    BY <1>2, <2>1, BoundAssumption, IdleTypes DEF Restart, TypeOK, db, Optional
<1> QED
  BY <1>1, <1>2

\* Every step keeps the types.
LEMMA StepTypes == TypeOK /\ [Next]_vars => TypeOK'
<1>1. TypeOK /\ UNCHANGED vars => TypeOK'
  BY DEF TypeOK, vars
<1> QED
  BY <1>1, ApiTypes, EventTypes, RebuildTypes, DequeueTypes, LoadTypes,
     DecideTypes, FillTypes, ParkTypes, FaultTypes
  DEF Next, EngineStep, Failure

\* Every variable keeps its type (tables, queue, book and the engine's and the
\* handlers' local state).
THEOREM TypeCorrect == Spec => []TypeOK
  BY InitTypes, StepTypes, PTL DEF Spec
-----------------------------------------------------------------------------
(* The inductive invariant. *)

\* The engine may fill o, resp. write it OPEN, on the strength of an earlier read.
Trying(o)  == /\ engine.pc = "decide" /\ engine.order = o
              /\ engine.seen.status \in Working
Parking(o) == \/ engine.pc = "park" /\ engine.order = o /\ Parks(engine.seen)
              \/ engine.pc = "rebuild" /\ o \in engine.todo

AmendPending(o) == \E r \in Requests : req[r].op = "amend" /\ req[r].order = o

\* An executed order is closed, and only executed orders are FILLED: the one
\* process that could reopen an order is the one that filled it.
ExecutedIsClosed ==
    \A o \in Orders : /\ Filled(o) => orders[o].status \in Closed
                      /\ orders[o].status = "FILLED" => Filled(o)

\* What the engine read as working has no execution when the engine writes.
ReadsAreUnfilled == \A o \in Orders : Trying(o) \/ Parking(o) => ~Filled(o)

\* An order on its way from ACCEPTED to OPEN can be cancelled, never amended
\* and so never rejected, before it gets there.
ParkingIsFirstOpening ==
    \A o \in Orders : Parking(o) => /\ orders[o].status \in {"ACCEPTED", "CANCELLED"}
                                    /\ ~AmendPending(o)

AmendedWasOpen ==
    \A o \in Orders : AmendPending(o) => orders[o].status \notin {"NONE", "ACCEPTED"}

\* Nothing that is, or is about to be, OPEN is outside the book.
BookIsComplete ==
    /\ OpenOrdersAreWorked
    /\ engine.pc = "rebuild" => engine.todo \subseteq book
    /\ engine.pc = "decide" /\ engine.seen.status \notin Working =>
           orders[engine.order].status # "OPEN"

FillInv == /\ TypeOK /\ SingleFill /\ ExecutedIsClosed /\ ReadsAreUnfilled
           /\ ParkingIsFirstOpening /\ AmendedWasOpen

-----------------------------------------------------------------------------
(* One execution per order. *)

\* At the start nothing is executed.
LEMMA InitFill == Init => FillInv
<1> SUFFICES ASSUME Init PROVE FillInv
  OBVIOUS
<1>1. TypeOK
  BY InitTypes
<1>2. \A o \in Orders : ~Filled(o) /\ orders[o].status = "NONE"
  BY DEF Init, Filled
<1>3. \A o \in Orders : ~Trying(o) /\ ~Parking(o) /\ ~AmendPending(o)
  BY DEF Init, Trying, Parking, AmendPending, Booting, NoRequest
<1>4. SingleFill
  BY DEF Init, SingleFill
<1> QED
  BY <1>1, <1>2, <1>3, <1>4
  DEF FillInv, ExecutedIsClosed, ReadsAreUnfilled, ParkingIsFirstOpening,
      AmendedWasOpen

\* What a request handler can do to an order: it creates it, cancels it
\* whatever it is, or rejects it under an amendment that had read it OPEN.
LEMMA ApiEffect ==
  ASSUME TypeOK, Api
  PROVE  /\ UNCHANGED <<executions, engine, book>>
         /\ \A o \in Orders :
               \/ orders'[o].status = orders[o].status
               \/ /\ orders[o].status = "NONE"
                  /\ orders'[o].status \in {"ACCEPTED", "REJECTED"}
               \/ orders'[o].status = "CANCELLED"
               \/ AmendPending(o) /\ orders'[o].status = "REJECTED"
         /\ \A o \in Orders :
               AmendPending(o)' => \/ AmendPending(o)
                                   \/ /\ orders[o].status = "OPEN"
                                      /\ orders'[o].status = "OPEN"
<1> DEFINE Effect ==
      /\ UNCHANGED <<executions, engine, book>>
      /\ \A o \in Orders :
            \/ orders'[o].status = orders[o].status
            \/ /\ orders[o].status = "NONE"
               /\ orders'[o].status \in {"ACCEPTED", "REJECTED"}
            \/ orders'[o].status = "CANCELLED"
            \/ AmendPending(o) /\ orders'[o].status = "REJECTED"
      /\ \A o \in Orders :
            AmendPending(o)' => \/ AmendPending(o)
                                \/ /\ orders[o].status = "OPEN"
                                   /\ orders'[o].status = "OPEN"
<1>1. ASSUME NEW r \in Requests, NEW o \in Orders, SubmitRead(r, o) \/ CancelRead(r, o)
      PROVE  Effect
  BY <1>1 DEF SubmitRead, CancelRead, db, memory, TypeOK, AmendPending,
              Handling, NoRequest
<1>2. ASSUME NEW r \in Requests, NEW o \in Orders, NEW a \in Amendments,
             AmendRead(r, o, a)
      PROVE  Effect
  BY <1>2 DEF AmendRead, db, memory, TypeOK, AmendPending
<1>3. ASSUME NEW r \in Requests, SubmitSuspended(r) \/ AmendSuspended(r)
      PROVE  Effect
  BY <1>3 DEF SubmitSuspended, AmendSuspended, db, memory, TypeOK,
              AmendPending, NoRequest
<1>4. ASSUME NEW r \in Requests, SubmitWrite(r) PROVE Effect
  <2>3. \/ req' = [req EXCEPT ![r] = NoRequest]
        \/ req' = [req EXCEPT ![r] = Handling("failed", req[r].order)]
    BY <1>4 DEF SubmitWrite
  <2>4. /\ NoRequest.op = "idle"
        /\ Handling("failed", req[r].order).op = "failed"
    BY DEF Handling, NoRequest
  <2>5. \A q \in Requests : req'[q] = req[q] \/ req'[q].op # "amend"
    BY <2>3, <2>4 DEF TypeOK
  <2>1. \A o \in Orders : AmendPending(o)' => AmendPending(o)
    BY <2>5 DEF AmendPending
  <2>2. \A o \in Orders :
           \/ orders'[o].status = orders[o].status
           \/ /\ orders[o].status = "NONE"
              /\ orders'[o].status \in {"ACCEPTED", "REJECTED"}
    BY <1>4 DEF SubmitWrite, SetStatus, TypeOK, Row
  <2> QED
    BY <1>4, <2>1, <2>2 DEF SubmitWrite, memory
<1>5. ASSUME NEW r \in Requests, CancelWrite(r) PROVE Effect
  <2>1. \A o \in Orders : AmendPending(o)' => AmendPending(o)
    BY <1>5 DEF CancelWrite, TypeOK, AmendPending, NoRequest
  <2>2. \A o \in Orders : orders'[o].status \in {orders[o].status, "CANCELLED"}
    BY <1>5 DEF CancelWrite, SetStatus, TypeOK, Row
  <2> QED
    BY <1>5, <2>1, <2>2 DEF CancelWrite, memory
<1>6. ASSUME NEW r \in Requests, AmendWrite(r) PROVE Effect
  <2>1. \A o \in Orders : AmendPending(o)' => AmendPending(o)
    BY <1>6 DEF AmendWrite, TypeOK, AmendPending, NoRequest
  <2>2. AmendPending(req[r].order)
    BY <1>6 DEF AmendWrite, AmendPending
  <2>3. \A o \in Orders : \/ orders'[o].status = orders[o].status
                          \/ o = req[r].order /\ orders'[o].status = "REJECTED"
    BY <1>6 DEF AmendWrite, SetStatus, TypeOK, Row
  <2> QED
    BY <1>6, <2>1, <2>2, <2>3 DEF AmendWrite, memory
<1> QED
  BY <1>1, <1>2, <1>3, <1>4, <1>5, <1>6 DEF Api

\* Handlers execute nothing and reopen nothing that is executed.
LEMMA FillApi == FillInv /\ Api => FillInv'
<1> SUFFICES ASSUME FillInv, Api PROVE FillInv'
  OBVIOUS
<1>1. TypeOK /\ TypeOK'
  BY ApiTypes DEF FillInv
<1>2. \A o \in Orders : (Filled(o)' <=> Filled(o)) /\ (Trying(o)' <=> Trying(o))
                                                  /\ (Parking(o)' <=> Parking(o))
  BY <1>1, ApiEffect DEF Filled, Trying, Parking, Parks
<1>3. SingleFill'
  BY <1>1, ApiEffect DEF SingleFill, FillInv
<1>4. ExecutedIsClosed'
  BY <1>1, <1>2, ApiEffect DEF FillInv, ExecutedIsClosed, Closed
<1>5. ReadsAreUnfilled'
  BY <1>2 DEF FillInv, ReadsAreUnfilled
<1>6. ParkingIsFirstOpening'
  BY <1>1, <1>2, ApiEffect DEF FillInv, ParkingIsFirstOpening
<1>7. AmendedWasOpen'
  BY <1>1, ApiEffect DEF FillInv, AmendedWasOpen
<1> QED
  BY <1>1, <1>3, <1>4, <1>5, <1>6, <1>7 DEF FillInv

\* The steps that write no table: requests are untouched or all gone, and
\* whatever the engine is about to write it has just read.
Reading == \/ \E o \in Orders : Relay(o) \/ RelayUnmarked(o)
           \/ \E i \in Instruments, p \in Prices : Tick(i, p) \/ Warm(i, p)
           \/ RebuildRead \/ OnAccepted \/ OnTick \/ Load \/ SkipClosed
           \/ KeepWorking \/ Reload
           \/ RebuildFault \/ EventFault \/ Restart

\* Proceed leaves the engine before its next read.
LEMMA ProceedPc ==
  ASSUME NEW rest, Proceed(rest)
  PROVE  engine'.pc \in {"idle", "load"}
  BY DEF Proceed, Idle, Booting

\* What the steps that only read change: the engine tries or parks what it has
\* read as such.
LEMMA ReadingEffect ==
  ASSUME TypeOK, Reading
  PROVE  /\ UNCHANGED <<orders, executions>>
         /\ \A o \in Orders : AmendPending(o)' => AmendPending(o)
         /\ \A o \in Orders : Trying(o)' => Trying(o) \/ orders[o].status \in Working
         /\ \A o \in Orders : Parking(o)' => Parking(o) \/ orders[o].status = "ACCEPTED"
<1>1. UNCHANGED <<orders, executions>>
  BY DEF Reading, Relay, RelayUnmarked, Publish, Tick, Warm, RebuildRead,
         OnAccepted, OnTick, Load, SkipClosed, KeepWorking, Reload,
         RebuildFault, EventFault, Restart, db
<1>2. req' = req \/ req' = [r \in Requests |-> NoRequest]
  BY DEF Reading, Relay, RelayUnmarked, Publish, Tick, Warm, RebuildRead,
         OnAccepted, OnTick, Load, SkipClosed, KeepWorking, Reload,
         RebuildFault, EventFault, Restart
<1>3. \A o \in Orders : AmendPending(o)' => AmendPending(o)
  BY <1>2 DEF AmendPending, NoRequest
<1>4. \/ engine' = engine
      \/ engine'.pc \in {"idle", "load", "reload", "boot", "down"}
      \/ RebuildRead \/ Load \/ Reload
  <2>1. CASE \/ \E o \in Orders : Relay(o) \/ RelayUnmarked(o)
             \/ \E i \in Instruments, p \in Prices : Tick(i, p) \/ Warm(i, p)
    BY <2>1 DEF Relay, RelayUnmarked, Publish, Tick, Warm
  <2>2. CASE OnTick \/ SkipClosed
    BY <2>2, ProceedPc DEF OnTick, SkipClosed
  <2>3. CASE KeepWorking
    <3>1. CASE engine.accepted
      <4>1. engine' = [engine EXCEPT !.pc = "reload", !.seen = Nothing]
        BY <2>3, <3>1 DEF KeepWorking
      <4> QED
        BY <4>1 DEF TypeOK, Engine, EngineShape
    <3>2. CASE ~engine.accepted
      BY <2>3, <3>2, ProceedPc DEF KeepWorking
    <3> QED
      BY <3>1, <3>2
  <2>4. CASE OnAccepted
    BY <2>4 DEF OnAccepted, Idle, Booting
  <2>5. CASE RebuildFault
    BY <2>5 DEF RebuildFault, Idle, Booting
  <2>6. CASE EventFault \/ Restart
    BY <2>6 DEF EventFault, Restart, Idle, Booting
  <2> QED
    BY <2>1, <2>2, <2>3, <2>4, <2>5, <2>6 DEF Reading
<1>5. CASE engine' = engine
  BY <1>1, <1>3, <1>5 DEF Trying, Parking
<1>6. CASE engine'.pc \in {"idle", "load", "reload", "boot", "down"}
  BY <1>1, <1>3, <1>6 DEF Trying, Parking
<1>7. CASE RebuildRead
  <2>1. engine'.pc = "rebuild" /\ \A o \in engine'.todo : Parks(orders[o])
    BY <1>7 DEF RebuildRead, TypeOK, Engine, EngineShape
  <2> QED
    BY <1>1, <1>3, <2>1 DEF Trying, Parking, Parks
<1>8. CASE Load
  <2>1. /\ engine'.pc = "decide" /\ engine'.order = engine.order
        /\ engine'.seen = orders[engine.order]
    BY <1>8 DEF Load, TypeOK, Engine, EngineShape
  <2> QED
    BY <1>1, <1>3, <2>1 DEF Trying, Parking
<1>9. CASE Reload
  <2>1. \/ engine'.pc = "idle"
        \/ /\ engine'.pc = "park" /\ engine'.order = engine.order
           /\ engine'.seen = orders[engine.order]
    BY <1>9 DEF Reload, TypeOK, Engine, EngineShape, Idle, Booting
  <2> QED
    BY <1>1, <1>3, <2>1 DEF Trying, Parking, Parks
<1> QED
  BY <1>4, <1>5, <1>6, <1>7, <1>8, <1>9

\* They keep the invariant,
LEMMA FillReading == FillInv /\ Reading => FillInv'
<1> SUFFICES ASSUME FillInv, Reading PROVE FillInv'
  OBVIOUS
<1>1. TypeOK /\ TypeOK'
  BY StepTypes DEF FillInv, Reading, Next, EngineStep, Failure
<1>2. UNCHANGED <<orders, executions>>
  BY <1>1, ReadingEffect
<1>3. \A o \in Orders : Filled(o)' <=> Filled(o)
  BY <1>2 DEF Filled
<1>4. \A o \in Orders : orders[o].status \in Working => ~Filled(o)
  BY DEF FillInv, ExecutedIsClosed, Working, Closed
<1>5. \A o \in Orders : orders[o].status = "ACCEPTED" => ~AmendPending(o)
  BY DEF FillInv, AmendedWasOpen
<1>6. SingleFill'
  BY <1>2 DEF SingleFill, FillInv
<1>7. ExecutedIsClosed'
  BY <1>2, <1>3 DEF FillInv, ExecutedIsClosed
<1>8. ReadsAreUnfilled'
  BY <1>1, <1>3, <1>4, ReadingEffect DEF FillInv, ReadsAreUnfilled, Working
<1>9. ParkingIsFirstOpening'
  BY <1>1, <1>2, <1>5, ReadingEffect DEF FillInv, ParkingIsFirstOpening
<1>10. AmendedWasOpen'
  BY <1>1, <1>2, ReadingEffect DEF FillInv, AmendedWasOpen
<1> QED
  BY <1>1, <1>6, <1>7, <1>8, <1>9, <1>10 DEF FillInv

\* What every one of the engine's writes has in common: it leaves no write
\* pending, and requests alone.
LEMMA FillWriting ==
  ASSUME FillInv, TypeOK', UNCHANGED req,
         engine'.pc \in {"idle", "load"},
         SingleFill', ExecutedIsClosed',
         \A o \in Orders : orders'[o].status \in {orders[o].status, "OPEN", "FILLED"}
  PROVE  FillInv'
<1>1. \A o \in Orders : ~Trying(o)' /\ ~Parking(o)'
  BY DEF Trying, Parking
<1>2. \A o \in Orders : AmendPending(o)' <=> AmendPending(o)
  BY DEF AmendPending
<1>3. AmendedWasOpen'
  BY <1>2 DEF FillInv, AmendedWasOpen
<1> QED
  BY <1>1, <1>3 DEF FillInv, ReadsAreUnfilled, ParkingIsFirstOpening

\* as does the rebuild, which reads and then opens what is not closed,
LEMMA FillRebuild == FillInv /\ RebuildWrite => FillInv'
<1> SUFFICES ASSUME FillInv, RebuildWrite PROVE FillInv'
  OBVIOUS
<1>1. TypeOK /\ TypeOK'
  BY StepTypes DEF FillInv, Next, EngineStep
<1>2. UNCHANGED <<executions, req>> /\ engine'.pc = "idle"
  BY DEF RebuildWrite, Idle, Booting
<1>3. \A o \in Orders : Filled(o)' <=> Filled(o)
  BY <1>2 DEF Filled
<1>4. \A o \in Orders : \/ orders'[o].status = orders[o].status
                        \/ orders'[o].status = "OPEN" /\ Parking(o)
  BY <1>1 DEF RebuildWrite, TypeOK, Row, Parking
<1>5. SingleFill'
  BY <1>2 DEF FillInv, SingleFill
<1>6. ExecutedIsClosed'
  BY <1>3, <1>4 DEF FillInv, ExecutedIsClosed, ReadsAreUnfilled
<1> QED
  BY <1>1, <1>2, <1>4, <1>5, <1>6, FillWriting

\* the conversion of a STOP_LIMIT, which is unfilled,
LEMMA FillConvert == FillInv /\ ConvertStopLimit => FillInv'
<1> SUFFICES ASSUME FillInv, ConvertStopLimit PROVE FillInv'
  OBVIOUS
<1>1. TypeOK /\ TypeOK'
  BY StepTypes DEF FillInv, Next, EngineStep
<1>2. UNCHANGED <<executions, req>>
  BY DEF ConvertStopLimit
<1>3. engine'.pc = "load"
  BY <1>1 DEF ConvertStopLimit, TypeOK, Engine, EngineShape
<1>4. \A o \in Orders : orders'[o].status = orders[o].status
  BY <1>1 DEF ConvertStopLimit, TypeOK, Row, Terms
<1>5. SingleFill'
  BY <1>2 DEF FillInv, SingleFill
<1>6. ExecutedIsClosed'
  BY <1>2, <1>4 DEF FillInv, ExecutedIsClosed, Filled
<1> QED
  BY <1>1, <1>2, <1>3, <1>4, <1>5, <1>6, FillWriting

\* and the parking of an order.
LEMMA FillPark == FillInv /\ ParkOpen => FillInv'
<1> SUFFICES ASSUME FillInv, ParkOpen PROVE FillInv'
  OBVIOUS
<1>1. TypeOK /\ TypeOK'
  BY StepTypes DEF FillInv, Next, EngineStep
<1>2. UNCHANGED <<executions, req>> /\ engine'.pc = "idle"
  BY DEF ParkOpen, Idle, Booting
<1>3. \A o \in Orders : Filled(o)' <=> Filled(o)
  BY <1>2 DEF Filled
<1>4. \A o \in Orders : \/ orders'[o].status = orders[o].status
                        \/ orders'[o].status = "OPEN" /\ Parking(o)
  BY <1>1 DEF ParkOpen, SetStatus, TypeOK, Row, Parking
<1>5. SingleFill'
  BY <1>2 DEF FillInv, SingleFill
<1>6. ExecutedIsClosed'
  BY <1>3, <1>4 DEF FillInv, ExecutedIsClosed, ReadsAreUnfilled
<1> QED
  BY <1>1, <1>2, <1>4, <1>5, <1>6, FillWriting

\* A fill executes an order that has no execution, and closes it.
LEMMA FillFill == FillInv /\ Fill => FillInv'
<1> SUFFICES ASSUME FillInv, Fill PROVE FillInv'
  OBVIOUS
<1> DEFINE x == [order |-> engine.order, price |-> Price,
                 quantity |-> engine.seen.terms.quantity]
<1>1. TypeOK /\ TypeOK'
  BY StepTypes DEF FillInv, Next, EngineStep
<1>2. executions' = Append(executions, x) /\ x.order = engine.order
  BY DEF Fill
<1>3. /\ Len(executions') = Len(executions) + 1
      /\ executions'[Len(executions) + 1].order = engine.order
      /\ \A k \in DOMAIN executions : executions'[k] = executions[k]
  BY <1>1, <1>2, AppendProperties DEF TypeOK
<1>4. /\ DOMAIN executions = 1..Len(executions) /\ Len(executions) \in Nat
      /\ DOMAIN executions' = 1..(Len(executions) + 1)
  BY <1>1, <1>3, LenProperties DEF TypeOK
<1>5. engine.order \in Orders /\ Trying(engine.order)
  BY <1>1 DEF Fill, Crossing, Deciding, Trying, TypeOK, Engine, EngineShape
<1>6. ~Filled(engine.order)
  BY <1>5 DEF FillInv, ReadsAreUnfilled
<1>7. \A k \in DOMAIN executions : executions[k].order # engine.order
  BY <1>6 DEF Filled
<1>8. SingleFill'
  BY <1>3, <1>4, <1>7 DEF FillInv, SingleFill
<1>9. \A o \in Orders : Filled(o)' <=> Filled(o) \/ o = engine.order
  BY <1>3, <1>4 DEF Filled
<1>10. \A o \in Orders : orders'[o].status =
                        IF o = engine.order THEN "FILLED" ELSE orders[o].status
  BY <1>1, <1>5 DEF Fill, SetStatus, TypeOK, Row
<1>11. ExecutedIsClosed'
  BY <1>9, <1>10 DEF FillInv, ExecutedIsClosed, Closed
<1>12. UNCHANGED req /\ engine'.pc \in {"idle", "load"}
  BY ProceedPc DEF Fill
<1> QED
  BY <1>1, <1>8, <1>10, <1>11, <1>12, FillWriting

\* Every step keeps the invariant.
LEMMA StepFill == FillInv /\ [Next]_vars => FillInv'
<1>1. FillInv /\ UNCHANGED vars => FillInv'
  BY DEF FillInv, vars, TypeOK, SingleFill, ExecutedIsClosed, ReadsAreUnfilled,
         ParkingIsFirstOpening, AmendedWasOpen, Filled, Trying, Parking,
         AmendPending
<1> QED
  BY <1>1, FillApi, FillReading, FillRebuild, FillConvert, FillFill, FillPark
  DEF Next, EngineStep, Failure, Reading

\* So it holds.
LEMMA FillInvariant == Spec => []FillInv
  BY InitFill, StepFill, PTL DEF Spec

\* No order is executed twice, for any number of orders, handlers, prices,
\* failed units of work and restarts (_fill_order, workers.py:136-209).
THEOREM SingleFillHolds == Spec => []SingleFill
<1>1. FillInv => SingleFill
  BY DEF FillInv
<1> QED
  BY <1>1, FillInvariant, PTL

-----------------------------------------------------------------------------
(* Closed orders stay closed. *)

\* What the engine can do to the status of an order.
LEMMA EngineEffect ==
  ASSUME TypeOK, EngineStep, NEW o \in Orders
  PROVE  \/ orders'[o].status = orders[o].status
         \/ orders'[o].status = "OPEN" /\ Parking(o) /\ (RebuildWrite \/ ParkOpen)
         \/ orders'[o].status = "FILLED" /\ o = engine.order /\ Fill
<1>1. CASE RebuildWrite
  BY <1>1 DEF RebuildWrite, TypeOK, Row, Parking
<1>2. CASE ParkOpen
  BY <1>2 DEF ParkOpen, SetStatus, TypeOK, Row, Parking
<1>3. CASE Fill
  BY <1>3 DEF Fill, SetStatus, TypeOK, Row
<1>4. CASE ConvertStopLimit
  BY <1>4 DEF ConvertStopLimit, TypeOK, Row, Terms
<1>5. CASE Reading
  BY <1>5, ReadingEffect
<1> QED
  BY <1>1, <1>2, <1>3, <1>4, <1>5 DEF EngineStep, Reading

\* No step makes a filled or rejected order a working one.
LEMMA ClosedStep ==
  ASSUME FillInv, [Next]_vars, NEW o \in Orders,
         orders[o].status \in {"FILLED", "REJECTED"}
  PROVE  orders'[o].status \notin Working
<1>1. TypeOK
  BY DEF FillInv
<1>2. CASE Api
  BY <1>1, <1>2, ApiEffect DEF Working
<1>3. CASE EngineStep
  <2>1. ~Parking(o)
    BY DEF FillInv, ParkingIsFirstOpening
  <2> QED
    BY <1>1, <1>3, <2>1, EngineEffect DEF Working
<1>4. CASE Reading
  BY <1>1, <1>4, ReadingEffect DEF Working
<1>5. CASE UNCHANGED vars
  BY <1>5 DEF vars, Working
<1> QED
  BY <1>2, <1>3, <1>4, <1>5 DEF Next, Failure, Reading

\* No stale write of _park_open or _rebuild_book (workers.py:250-292), and no
\* request, makes a filled or a rejected order a working order again.
THEOREM ClosedStayClosed == Spec => FilledAndRejectedStayClosed
<1>1. FillInv /\ [Next]_vars =>
        [\A o \in Orders : orders[o].status \in {"FILLED", "REJECTED"} =>
                           orders'[o].status \notin Working]_vars
  BY ClosedStep
<1> QED
  BY <1>1, FillInvariant, PTL DEF Spec, FilledAndRejectedStayClosed

-----------------------------------------------------------------------------
(* The working book is complete. *)

BookInv == TypeOK /\ BookIsComplete

\* At the start there is no OPEN order.
LEMMA InitBook == Init => BookInv
  BY InitTypes DEF Init, Booting, BookInv, BookIsComplete, OpenOrdersAreWorked

\* Handlers open no order that the book lacks.
LEMMA BookApi == BookInv /\ Api => BookInv'
<1> SUFFICES ASSUME BookInv, Api PROVE BookInv'
  OBVIOUS
<1>1. TypeOK /\ TypeOK'
  BY ApiTypes DEF BookInv
<1>2. UNCHANGED <<engine, book>>
  BY <1>1, ApiEffect
<1>3. \A o \in Orders : orders'[o].status = "OPEN" => orders[o].status = "OPEN"
  BY <1>1, ApiEffect
<1>4. engine.pc = "decide" => engine.order \in Orders
  BY <1>1 DEF TypeOK, Engine, EngineShape
<1> QED
  BY <1>1, <1>2, <1>3, <1>4 DEF BookInv, BookIsComplete, OpenOrdersAreWorked

\* The steps of the engine that read nothing and leave no write pending: what
\* they open is in the book, what they drop from it is not open.
LEMMA BookStep ==
  ASSUME BookInv, TypeOK', engine.pc \notin {"boot", "down"},
         engine'.pc \notin {"rebuild", "decide"},
         \A o \in Orders : orders'[o].status = "OPEN" =>
             \/ o \in book'
             \/ orders[o].status = "OPEN" /\ o \notin book \ book'
  PROVE  BookInv'
  BY DEF BookInv, BookIsComplete, OpenOrdersAreWorked

\* The engine takes an order from the book only when it is closed.
LEMMA BookEngine == BookInv /\ EngineStep => BookInv'
<1> SUFFICES ASSUME BookInv, EngineStep PROVE BookInv'
  OBVIOUS
<1>1. TypeOK /\ TypeOK'
  BY StepTypes DEF BookInv, Next
<1>2. CASE RebuildRead
  <2>1. /\ book' = {o \in Orders : orders[o].status \in Working}
        /\ engine'.pc = "rebuild" /\ engine'.todo \subseteq book'
        /\ UNCHANGED orders
    BY <1>1, <1>2 DEF RebuildRead, Recovered, TypeOK, Engine, EngineShape, db
  <2> QED
    BY <1>1, <2>1 DEF BookInv, BookIsComplete, OpenOrdersAreWorked, Working
<1>3. CASE RebuildWrite
  <2>1. /\ engine'.pc = "idle" /\ engine.pc = "rebuild" /\ book' = book
        /\ engine.todo \subseteq book
    BY <1>3 DEF RebuildWrite, memory, Idle, Booting, BookInv, BookIsComplete
  <2>2. \A o \in Orders : orders'[o].status = orders[o].status \/ o \in engine.todo
    BY <1>1, <1>3 DEF RebuildWrite, TypeOK, Row
  <2> QED
    BY <1>1, <2>1, <2>2, BookStep
<1>4. CASE OnAccepted
  BY <1>1, <1>4, BookStep DEF OnAccepted, db, Idle, Booting
<1>5. CASE OnTick
  <2>1. engine'.pc \in {"idle", "load"}
    BY <1>5, ProceedPc DEF OnTick
  <2> QED
    BY <1>1, <1>5, <2>1, BookStep DEF OnTick, db
<1>6. CASE Load
  <2>1. /\ engine'.pc = "decide" /\ engine'.order = engine.order
        /\ engine'.seen = orders[engine.order] /\ engine.pc = "load"
        /\ UNCHANGED <<orders, book>>
    BY <1>1, <1>6 DEF Load, TypeOK, Engine, EngineShape, db, memory
  <2> QED
    BY <1>1, <2>1 DEF BookInv, BookIsComplete, OpenOrdersAreWorked, Working
<1>7. CASE SkipClosed
  <2>1. engine'.pc \in {"idle", "load"}
    BY <1>7, ProceedPc DEF SkipClosed
  <2>2. engine.pc = "decide" /\ orders[engine.order].status # "OPEN"
    BY <1>7 DEF SkipClosed, BookInv, BookIsComplete
  <2>3. UNCHANGED orders /\ book \ book' \subseteq {engine.order}
    BY <1>7 DEF SkipClosed, Drop, db
  <2> QED
    BY <1>1, <2>1, <2>2, <2>3, BookStep
<1>8. CASE KeepWorking
  <2>1. engine.pc = "decide" /\ UNCHANGED <<orders, book>>
    BY <1>8 DEF KeepWorking, Deciding, db, memory
  <2>2. engine'.pc \in {"idle", "load", "reload"}
    <3>1. CASE engine.accepted
      <4>1. engine' = [engine EXCEPT !.pc = "reload", !.seen = Nothing]
        BY <1>8, <3>1 DEF KeepWorking
      <4> QED
        BY <1>1, <4>1 DEF TypeOK, Engine, EngineShape
    <3>2. CASE ~engine.accepted
      BY <1>8, <3>2, ProceedPc DEF KeepWorking
    <3> QED
      BY <3>1, <3>2
  <2> QED
    BY <1>1, <2>1, <2>2, BookStep
<1>9. CASE ConvertStopLimit
  <2>1. engine.pc = "decide" /\ book' = book
    BY <1>9 DEF ConvertStopLimit, Crossing, Deciding, memory
  <2>2. engine'.pc = "load"
    BY <1>1, <1>9 DEF ConvertStopLimit, TypeOK, Engine, EngineShape
  <2>3. \A o \in Orders : orders'[o].status = orders[o].status
    BY <1>1, <1>9 DEF ConvertStopLimit, TypeOK, Row, Terms
  <2> QED
    BY <1>1, <2>1, <2>2, <2>3, BookStep
<1>10. CASE Fill
  <2>1. engine.pc = "decide" /\ book \ book' \subseteq {engine.order}
    BY <1>10 DEF Fill, Crossing, Deciding, Drop
  <2>2. engine'.pc \in {"idle", "load"}
    BY <1>10, ProceedPc DEF Fill
  <2>3. engine.order \in Orders
    BY <1>1, <2>1 DEF TypeOK, Engine, EngineShape
  <2>4. \A o \in Orders : orders'[o].status =
                        IF o = engine.order THEN "FILLED" ELSE orders[o].status
    BY <1>1, <1>10, <2>3 DEF Fill, SetStatus, TypeOK, Row
  <2> QED
    BY <1>1, <2>1, <2>2, <2>4, BookStep
<1>11. CASE Reload
  <2>1. engine.pc = "reload" /\ UNCHANGED <<orders, book>>
    BY <1>11 DEF Reload, db, memory
  <2>2. engine'.pc \in {"idle", "park"}
    BY <1>1, <1>11 DEF Reload, TypeOK, Engine, EngineShape, Idle, Booting
  <2> QED
    BY <1>1, <2>1, <2>2, BookStep
<1>12. CASE ParkOpen
  <2>1. /\ engine.pc = "park" /\ engine'.pc = "idle"
        /\ book' = book \cup {engine.order}
    BY <1>12 DEF ParkOpen, Idle, Booting
  <2>2. \A o \in Orders : orders'[o].status = orders[o].status \/ o = engine.order
    BY <1>1, <1>12 DEF ParkOpen, SetStatus, TypeOK, Row
  <2> QED
    BY <1>1, <2>1, <2>2, BookStep
<1> QED
  BY <1>2, <1>3, <1>4, <1>5, <1>6, <1>7, <1>8, <1>9, <1>10, <1>11, <1>12
  DEF EngineStep

\* Relay, feed and restart open none.
LEMMA BookOther ==
  BookInv /\ Next /\ ~Api /\ ~EngineStep => BookInv'
<1> SUFFICES ASSUME BookInv, Next, ~Api, ~EngineStep PROVE BookInv'
  OBVIOUS
<1>1. TypeOK /\ TypeOK'
  BY StepTypes DEF BookInv
<1>2. CASE \E o \in Orders : Relay(o) \/ RelayUnmarked(o)
  BY <1>1, <1>2 DEF Relay, RelayUnmarked, Publish, BookInv, BookIsComplete,
                    OpenOrdersAreWorked
<1>3. CASE \E i \in Instruments, p \in Prices : Tick(i, p) \/ Warm(i, p)
  BY <1>1, <1>3 DEF Tick, Warm, db, BookInv, BookIsComplete, OpenOrdersAreWorked
<1>4. CASE RebuildFault
  <2>1. engine'.pc = "down"
    BY <1>4 DEF RebuildFault, Idle, Booting
  <2> QED
    BY <1>1, <2>1 DEF BookInv, BookIsComplete, OpenOrdersAreWorked
<1>5. CASE EventFault
  <2>1. /\ engine'.pc = "idle" /\ engine.pc \notin {"boot", "down"}
        /\ UNCHANGED <<orders, book>>
    BY <1>5 DEF EventFault, Idle, Booting, db, memory
  <2> QED
    BY <1>1, <2>1, BookStep
<1>6. CASE Restart
  <2>1. engine'.pc = "boot"
    BY <1>6 DEF Restart, Booting
  <2> QED
    BY <1>1, <2>1 DEF BookInv, BookIsComplete, OpenOrdersAreWorked
<1> QED
  BY <1>2, <1>3, <1>4, <1>5, <1>6 DEF Next, Failure

\* Every step keeps the book complete.
LEMMA StepBook == BookInv /\ [Next]_vars => BookInv'
<1>1. BookInv /\ UNCHANGED vars => BookInv'
  BY DEF BookInv, BookIsComplete, OpenOrdersAreWorked, TypeOK, vars
<1> QED
  BY <1>1, BookApi, BookEngine, BookOther

\* Every OPEN order is in the engine's working book, whatever is cancelled,
\* amended, redelivered or restarted meanwhile (workers.py:250-312).
THEOREM BookKept == Spec => []OpenOrdersAreWorked
<1>1. BookInv => OpenOrdersAreWorked
  BY DEF BookInv, BookIsComplete
<1> QED
  BY <1>1, InitBook, StepBook, PTL DEF Spec

-----------------------------------------------------------------------------
(* Executions keep to what was ordered. *)

\* The client's forms send a limit price for the types that have one, and
\* nobody amends.
PlainOrders ==
    /\ Amendments = {}
    /\ \A t \in Tickets : t.limit # Nothing => t.type \in {"LIMIT", "STOP_LIMIT"}

Unamended == \A r \in Requests : req[r].op # "amend"

LimitsAreForLimits ==
    \A o \in Orders : orders[o].terms.limit # Nothing => orders[o].terms.type \in {"LIMIT", "STOP_LIMIT"}

\* Only the engine changes terms, and it reads them again after it has.
SeenIsCurrent == engine.pc = "decide" => engine.seen.terms = orders[engine.order].terms

TermsInv == FillInv /\ Unamended /\ LimitsAreForLimits /\ SeenIsCurrent /\ ExecutionsRespectTerms

\* At the start plain orders have plain terms.
LEMMA InitTerms == PlainOrders /\ Init => TermsInv
<1> SUFFICES ASSUME PlainOrders, Init PROVE TermsInv
  OBVIOUS
<1>1. FillInv
  BY InitFill
<1>2. Unamended /\ SeenIsCurrent
  BY DEF Init, Unamended, NoRequest, SeenIsCurrent, Booting
<1>3. LimitsAreForLimits
  BY DEF Init, PlainOrders, LimitsAreForLimits
<1>4. ExecutionsRespectTerms
  BY DEF Init, ExecutionsRespectTerms
<1> QED
  BY <1>1, <1>2, <1>3, <1>4 DEF TermsInv

\* A change of status keeps the terms.
LEMMA StatusKeepsTerms ==
  ASSUME TypeOK, NEW x, NEW s, SetStatus(x, s)
  PROVE  \A o \in Orders : orders'[o].terms = orders[o].terms
  BY DEF SetStatus, TypeOK, Row

\* So do the handlers, when nobody amends,
LEMMA ApiKeepsTerms ==
  ASSUME PlainOrders, TypeOK, Unamended, Api
  PROVE  /\ \A o \in Orders : orders'[o].terms = orders[o].terms
         /\ Unamended' /\ UNCHANGED <<executions, engine>>
<1>1. ~\E r \in Requests : AmendSuspended(r) \/ AmendWrite(r)
  BY DEF Unamended, AmendSuspended, AmendWrite
<1>2. PICK r \in Requests : \/ \E o \in Orders : SubmitRead(r, o) \/ CancelRead(r, o)
                            \/ SubmitSuspended(r) \/ SubmitWrite(r) \/ CancelWrite(r)
  BY <1>1 DEF Api, PlainOrders
<1>3. UNCHANGED <<executions, engine>>
  BY <1>2 DEF SubmitRead, CancelRead, SubmitSuspended, SubmitWrite, CancelWrite, db
<1>4. \A o \in Orders : orders'[o].terms = orders[o].terms
  <2>1. orders' = orders \/ \E o, s : SetStatus(o, s)
    BY <1>2 DEF SubmitRead, CancelRead, SubmitSuspended, SubmitWrite, CancelWrite, db
  <2> QED
    BY <2>1, StatusKeepsTerms
<1>5. \E q : req' = [req EXCEPT ![r] = q] /\ q.op # "amend"
  <2>1. \A op \in {"submit", "cancel", "failed"} : \A o : Handling(op, o).op # "amend"
    BY DEF Handling, NoRequest
  <2>2. NoRequest.op # "amend"
    BY DEF NoRequest
  <2>3. \/ \E op \in {"submit", "cancel", "failed"} : \E o :
               req' = [req EXCEPT ![r] = Handling(op, o)]
        \/ req' = [req EXCEPT ![r] = NoRequest]
    BY <1>2 DEF SubmitRead, CancelRead, SubmitSuspended, SubmitWrite, CancelWrite
  <2> QED
    BY <2>1, <2>2, <2>3
<1>6. Unamended'
  BY <1>5 DEF Unamended, TypeOK
<1> QED
  BY <1>3, <1>4, <1>6

\* The steps of the engine that neither fill nor convert.
LEMMA EngineKeepsTerms ==
  ASSUME TypeOK, EngineStep, ~Fill, ~ConvertStopLimit
  PROVE  /\ \A o \in Orders : orders'[o].terms = orders[o].terms
         /\ UNCHANGED <<executions, req>>
         /\ engine'.pc = "decide" => Load
<1>1. UNCHANGED <<executions, req>>
  BY DEF EngineStep, RebuildRead, RebuildWrite, OnAccepted, OnTick, Load, SkipClosed,
         KeepWorking, Reload, ParkOpen, db
<1>2. \A o \in Orders : orders'[o].terms = orders[o].terms
  BY DEF EngineStep, RebuildRead, RebuildWrite, OnAccepted, OnTick, Load, SkipClosed,
         KeepWorking, Reload, ParkOpen, SetStatus, db, TypeOK, Row
<1>3. CASE RebuildRead \/ RebuildWrite \/ OnAccepted \/ Reload \/ ParkOpen
  BY <1>1, <1>2, <1>3 DEF RebuildRead, RebuildWrite, OnAccepted, Reload, ParkOpen, Idle, Booting,
                          TypeOK, Engine, EngineShape
<1>4. CASE OnTick \/ SkipClosed
  BY <1>1, <1>2, <1>4, ProceedPc DEF OnTick, SkipClosed
<1>5. CASE KeepWorking
  <2>1. CASE engine.accepted
    <3>1. engine' = [engine EXCEPT !.pc = "reload", !.seen = Nothing]
      BY <1>5, <2>1 DEF KeepWorking
    <3> QED
      BY <1>1, <1>2, <3>1 DEF TypeOK, Engine, EngineShape
  <2>2. CASE ~engine.accepted
    BY <1>1, <1>2, <1>5, <2>2, ProceedPc DEF KeepWorking
  <2> QED
    BY <2>1, <2>2
<1> QED
  BY <1>1, <1>2, <1>3, <1>4, <1>5 DEF EngineStep

\* and relay, feed and restart.
LEMMA OtherKeepsTerms ==
  ASSUME TypeOK, Next, ~Api, ~EngineStep
  PROVE  /\ UNCHANGED <<orders, executions>>
         /\ Unamended => Unamended'
         /\ engine' = engine \/ engine'.pc # "decide"
<1>1. UNCHANGED <<orders, executions>>
  BY DEF Next, Failure, Relay, RelayUnmarked, Publish, Tick, Warm, RebuildFault, EventFault,
         Restart, db
<1>2. engine' = engine \/ engine'.pc # "decide"
  <2>1. CASE RebuildFault
    <3>1. engine' = [Idle EXCEPT !.pc = "down"]
      BY <2>1 DEF RebuildFault
    <3> QED
      BY <3>1 DEF Idle, Booting
  <2>2. CASE EventFault \/ Restart
    BY <2>2 DEF EventFault, Restart, Idle, Booting
  <2>3. CASE UNCHANGED engine
    BY <2>3
  <2>4. UNCHANGED engine \/ RebuildFault \/ EventFault \/ Restart
    BY DEF Next, Failure, Relay, RelayUnmarked, Publish, Tick, Warm
  <2> QED
    BY <2>1, <2>2, <2>3, <2>4
<1>3. req' = req \/ req' = [r \in Requests |-> NoRequest]
  BY DEF Next, Failure, Relay, RelayUnmarked, Publish, Tick, Warm, RebuildFault, EventFault,
         Restart
<1> QED
  BY <1>1, <1>2, <1>3 DEF Unamended, NoRequest

\* What stays as it is.
LEMMA SameTerms ==
  ASSUME TermsInv, TypeOK, UNCHANGED executions,
         \A o \in Orders : orders'[o].terms = orders[o].terms
  PROVE  ExecutionsRespectTerms' /\ LimitsAreForLimits'
<1>1. \A k \in DOMAIN executions : executions[k].order \in Orders
  <2>1. executions \in [1..Len(executions) -> Execution] /\ DOMAIN executions = 1..Len(executions)
    BY LenProperties DEF TypeOK
  <2> QED
    BY <2>1 DEF Execution
<1>2. ExecutionsRespectTerms'
  BY <1>1 DEF TermsInv, ExecutionsRespectTerms
<1> QED
  BY <1>2 DEF TermsInv, LimitsAreForLimits

\* A STOP_LIMIT is converted to the LIMIT order it becomes.
LEMMA ConvertTerms ==
  ASSUME TermsInv, ConvertStopLimit
  PROVE  ExecutionsRespectTerms' /\ LimitsAreForLimits' /\ SeenIsCurrent' /\ Unamended'
<1>1. TypeOK /\ TypeOK'
  BY StepTypes DEF TermsInv, FillInv, Next, EngineStep
<1>2. UNCHANGED <<executions, req>>
  BY DEF ConvertStopLimit
<1>3. engine.order \in Orders /\ Trying(engine.order)
  BY <1>1, EngineHolds DEF ConvertStopLimit, Crossing, Deciding, Trying
<1>4. ~Filled(engine.order)
  BY <1>3 DEF TermsInv, FillInv, ReadsAreUnfilled
<1>5. \A o \in Orders : o # engine.order => orders'[o].terms = orders[o].terms
  BY <1>1 DEF ConvertStopLimit, TypeOK
<1>6. \A k \in DOMAIN executions : executions[k].order \in Orders /\ executions[k].order # engine.order
  <2>1. executions \in [1..Len(executions) -> Execution] /\ DOMAIN executions = 1..Len(executions)
    BY <1>1, LenProperties DEF TypeOK
  <2> QED
    BY <1>4, <2>1 DEF Execution, Filled
<1>7. ExecutionsRespectTerms'
  BY <1>2, <1>5, <1>6 DEF TermsInv, ExecutionsRespectTerms
<1>8. orders'[engine.order].terms.type = "LIMIT"
  BY <1>1, <1>3 DEF ConvertStopLimit, TypeOK, Row, Terms
<1>9. LimitsAreForLimits'
  BY <1>5, <1>8 DEF TermsInv, LimitsAreForLimits
<1>10. engine'.pc = "load"
  BY <1>1 DEF ConvertStopLimit, TypeOK, Engine, EngineShape
<1> QED
  BY <1>2, <1>7, <1>9, <1>10 DEF TermsInv, SeenIsCurrent, Unamended

\* A fill keeps to the terms the engine has seen, which are those of the row.
LEMMA FillTerms ==
  ASSUME TermsInv, Fill
  PROVE  ExecutionsRespectTerms' /\ LimitsAreForLimits' /\ SeenIsCurrent' /\ Unamended'
<1> DEFINE x == [order |-> engine.order, price |-> Price,
                 quantity |-> engine.seen.terms.quantity]
           t == orders[engine.order].terms
<1>1. TypeOK
  BY DEF TermsInv, FillInv
<1>2. /\ engine.order \in Orders /\ engine.pc = "decide" /\ engine.seen.terms = t
      /\ Crossed(t, Price) /\ t.type # "STOP_LIMIT"
  BY <1>1, EngineHolds DEF Fill, Crossing, Deciding, TermsInv, SeenIsCurrent
<1>3. \A o \in Orders : orders'[o].terms = orders[o].terms
  BY <1>1, StatusKeepsTerms DEF Fill
<1>4. executions' = Append(executions, x) /\ x.order = engine.order /\ x.price = Price
  BY DEF Fill
<1>5. t.limit # Nothing => t.type \in {"LIMIT", "STOP_LIMIT"}
  BY <1>2 DEF TermsInv, LimitsAreForLimits
<1> DEFINE Respects(p) ==
       /\ t.type # "STOP_LIMIT"
       /\ t.limit # Nothing => IF t.side = "BUY" THEN p <= t.limit ELSE p >= t.limit
       /\ t.type = "STOP" => IF t.side = "BUY" THEN p >= t.stop ELSE p <= t.stop
<1>6. Respects(Price)
  BY <1>2, <1>5 DEF Crossed, StopTriggered, Marketable
<1> HIDE DEF x
<1>7. /\ Len(executions) \in Nat /\ DOMAIN executions = 1..Len(executions)
      /\ DOMAIN executions' = 1..Len(executions) + 1
      /\ \A k \in 1..Len(executions) : executions'[k] = executions[k]
      /\ executions'[Len(executions) + 1] = x
      /\ \A k \in DOMAIN executions : executions[k] \in Execution
  BY <1>1, <1>4, AppendProperties, LenProperties DEF TypeOK
<1>8. ASSUME NEW k \in DOMAIN executions'
      PROVE  LET s == orders'[executions'[k].order].terms
                 p == executions'[k].price
             IN  /\ s.type # "STOP_LIMIT"
                 /\ s.limit # Nothing => IF s.side = "BUY" THEN p <= s.limit ELSE p >= s.limit
                 /\ s.type = "STOP" => IF s.side = "BUY" THEN p >= s.stop ELSE p <= s.stop
  <2>1. CASE k \in DOMAIN executions
    <3>1. executions'[k] = executions[k] /\ executions[k].order \in Orders
      BY <1>7, <2>1 DEF Execution
    <3> QED
      BY <1>3, <2>1, <3>1 DEF TermsInv, ExecutionsRespectTerms
  <2>2. CASE k = Len(executions) + 1
    <3>1. executions'[k].order = engine.order /\ executions'[k].price = Price
      BY <1>4, <1>7, <2>2
    <3>2. orders'[engine.order].terms = t
      BY <1>2, <1>3
    <3> QED
      BY <1>6, <3>1, <3>2
  <2> QED
    BY <1>7, <2>1, <2>2
<1>9. ExecutionsRespectTerms'
  BY <1>8 DEF ExecutionsRespectTerms
<1>10. engine'.pc \in {"idle", "load"} /\ UNCHANGED req
  BY ProceedPc DEF Fill
<1> QED
  BY <1>3, <1>9, <1>10 DEF TermsInv, LimitsAreForLimits, SeenIsCurrent, Unamended

\* Every step keeps the terms respected.
LEMMA StepTerms == PlainOrders /\ TermsInv /\ [Next]_vars => TermsInv'
<1> SUFFICES ASSUME PlainOrders, TermsInv, [Next]_vars PROVE TermsInv'
  OBVIOUS
<1>1. TypeOK /\ TypeOK' /\ FillInv'
  BY StepFill, StepTypes DEF TermsInv, FillInv
<1>2. CASE Api
  <2>1. /\ \A o \in Orders : orders'[o].terms = orders[o].terms
        /\ Unamended' /\ UNCHANGED <<executions, engine>>
    BY <1>1, <1>2, ApiKeepsTerms DEF TermsInv
  <2>2. SeenIsCurrent'
    BY <1>1, <2>1, EngineHolds DEF TermsInv, SeenIsCurrent
  <2> QED
    BY <1>1, <2>1, <2>2, SameTerms DEF TermsInv
<1>3. CASE EngineStep /\ ~Fill /\ ~ConvertStopLimit
  <2>1. /\ \A o \in Orders : orders'[o].terms = orders[o].terms
        /\ UNCHANGED <<executions, req>>
        /\ engine'.pc = "decide" => Load
    BY <1>1, <1>3, EngineKeepsTerms
  <2>2. SeenIsCurrent'
    <3>1. CASE Load
      <4>1. engine'.seen = orders[engine.order] /\ engine'.order = engine.order /\ UNCHANGED orders
        BY <1>1, <3>1 DEF Load, TypeOK, Engine, EngineShape, db
      <4> QED
        BY <4>1 DEF SeenIsCurrent
    <3>2. CASE engine'.pc # "decide"
      BY <3>2 DEF SeenIsCurrent
    <3> QED
      BY <2>1, <3>1, <3>2
  <2>3. Unamended'
    BY <2>1 DEF TermsInv, Unamended
  <2>4. ExecutionsRespectTerms' /\ LimitsAreForLimits'
    BY <1>1, <2>1, SameTerms
  <2> QED
    BY <1>1, <2>2, <2>3, <2>4 DEF TermsInv
<1>4. CASE Fill \/ ConvertStopLimit
  BY <1>1, <1>4, FillTerms, ConvertTerms DEF TermsInv
<1>5. CASE Next /\ ~Api /\ ~EngineStep
  <2>1. /\ UNCHANGED <<orders, executions>> /\ Unamended'
        /\ engine' = engine \/ engine'.pc # "decide"
    BY <1>1, <1>5, OtherKeepsTerms DEF TermsInv
  <2>2. SeenIsCurrent'
    BY <2>1 DEF TermsInv, SeenIsCurrent
  <2> QED
    BY <1>1, <2>1, <2>2, SameTerms DEF TermsInv
<1>6. CASE UNCHANGED vars
  BY <1>1, <1>6 DEF vars, TermsInv, Unamended, LimitsAreForLimits, SeenIsCurrent,
                    ExecutionsRespectTerms
<1> QED
  BY <1>2, <1>3, <1>4, <1>5, <1>6

\* An execution keeps to the limit or the stop of its order, also of one that was
\* converted while the engine worked on it, as long as clients send limits for
\* limit orders only and nobody amends (_fill_order, workers.py:136-209).
THEOREM TermsRespected == ASSUME PlainOrders PROVE Spec => []ExecutionsRespectTerms
<1>1. Init => TermsInv
  BY InitTerms
<1>2. TermsInv /\ [Next]_vars => TermsInv'
  BY StepTerms
<1>3. TermsInv => ExecutionsRespectTerms
  BY DEF TermsInv
<1> QED
  BY <1>1, <1>2, <1>3, PTL DEF Spec

-----------------------------------------------------------------------------
(* Accepted orders are not forgotten, as long as no unit of work fails. *)

Elements(q) == {q[k] : k \in DOMAIN q}

\* An element is added to a queue,
LEMMA AppendElements ==
  ASSUME NEW S, NEW q \in Seq(S), NEW e \in S
  PROVE  Elements(Append(q, e)) = Elements(q) \cup {e}
<1>1. /\ Len(q) \in Nat /\ DOMAIN q = 1..Len(q)
      /\ DOMAIN Append(q, e) = 1..Len(q) + 1
      /\ \A k \in 1..Len(q) : Append(q, e)[k] = q[k]
      /\ Append(q, e)[Len(q) + 1] = e
  BY AppendProperties, LenProperties
<1>2. \A k \in 1..Len(q) + 1 : k \in 1..Len(q) \/ k = Len(q) + 1
  BY <1>1
<1>3. 1..Len(q) \subseteq 1..Len(q) + 1 /\ Len(q) + 1 \in 1..Len(q) + 1
  BY <1>1
<1>4. Elements(Append(q, e)) \subseteq Elements(q) \cup {e}
  BY <1>1, <1>2 DEF Elements
<1>5. Elements(q) \cup {e} \subseteq Elements(Append(q, e))
  BY <1>1, <1>3 DEF Elements
<1> QED
  BY <1>4, <1>5

\* or taken from it.
LEMMA TailElements ==
  ASSUME NEW S, NEW q \in Seq(S), q # << >>
  PROVE  Elements(q) = Elements(Tail(q)) \cup {Head(q)}
<1>1. /\ Len(q) \in Nat \ {0} /\ DOMAIN q = 1..Len(q) /\ Len(Tail(q)) = Len(q) - 1
      /\ DOMAIN Tail(q) = 1..Len(q) - 1
      /\ \A k \in 1..Len(q) - 1 : Tail(q)[k] = q[k + 1]
      /\ Head(q) = q[1]
  BY HeadTailProperties, LenProperties, EmptySeq
<1>2. \A k \in 1..Len(q) : k = 1 \/ (k - 1 \in 1..Len(q) - 1 /\ k = (k - 1) + 1)
  BY <1>1
<1>3. Elements(q) \subseteq Elements(Tail(q)) \cup {Head(q)}
  <2> SUFFICES ASSUME NEW k \in 1..Len(q) PROVE q[k] \in Elements(Tail(q)) \cup {Head(q)}
    BY <1>1 DEF Elements
  <2>1. CASE k = 1
    BY <1>1, <2>1
  <2>2. CASE k - 1 \in 1..Len(q) - 1
    <3>1. Tail(q)[k - 1] = q[k]
      BY <1>1, <2>2
    <3> QED
      BY <1>1, <2>2, <3>1 DEF Elements
  <2> QED
    BY <1>2, <2>1, <2>2
<1>4. \A k \in 1..Len(q) - 1 : k + 1 \in 1..Len(q)
  BY <1>1
<1>5. 1 \in 1..Len(q)
  BY <1>1
<1>6. Elements(Tail(q)) \cup {Head(q)} \subseteq Elements(q)
  BY <1>1, <1>4, <1>5 DEF Elements
<1> QED
  BY <1>3, <1>6

\* Whatever is on its way to the engine, in its hands or in its book has a row.
Known(o) ==
    \/ o \in outbox \cup book \cup engine.todo
    \/ Accepted(o) \in Elements(queue)
    \/ engine.pc \in {"load", "decide", "reload", "park"} /\ engine.order = o

RowsExist == \A o \in Orders : Known(o) => orders[o].status # "NONE"

\* An order the engine has read closed is not accepted again.
SkippedIsClosed ==
    engine.pc = "decide" /\ engine.seen.status \notin Working =>
        orders[engine.order].status # "ACCEPTED"

\* Orders do not vanish, and are accepted once, with their event.
Onward ==
    \A o \in Orders :
        /\ orders[o].status # "NONE" => orders'[o].status # "NONE"
        /\ orders'[o].status = "ACCEPTED" =>
              orders[o].status = "ACCEPTED" \/ (orders[o].status = "NONE" /\ o \in outbox')

KeptInv == TypeOK /\ RowsExist /\ SkippedIsClosed /\ AcceptedNotForgotten

\* No order vanishes, and none is accepted but once, with its event.
LEMMA StepOnward == TypeOK /\ [Next]_vars => Onward
<1> SUFFICES ASSUME TypeOK, [Next]_vars PROVE Onward
  OBVIOUS
<1>1. CASE EngineStep
  BY <1>1, EngineEffect DEF Onward
<1>2. CASE Api
  <2>1. ASSUME NEW r \in Requests, SubmitWrite(r)
        PROVE  Onward
    <3> DEFINE o == req[r].order
    <3>1. o \in Orders
      BY <2>1 DEF SubmitWrite, TypeOK, Request, RequestShape
    <3>2. \/ orders' = orders
          \/ /\ orders[o].status = "NONE"
             /\ \/ SetStatus(o, "ACCEPTED") /\ o \in outbox'
                \/ SetStatus(o, "REJECTED")
      BY <2>1 DEF SubmitWrite
    <3> QED
      BY <3>1, <3>2 DEF SetStatus, TypeOK, Row, Onward
  <2>2. ASSUME NEW r \in Requests, CancelWrite(r) \/ AmendWrite(r)
        PROVE  Onward
    <3>1. \/ \E o, s : s \in {"CANCELLED", "REJECTED"} /\ SetStatus(o, s)
          \/ \E o, t : orders' = [orders EXCEPT ![o].terms = t]
      BY <2>2 DEF CancelWrite, AmendWrite
    <3>2. ASSUME NEW o, NEW s \in {"CANCELLED", "REJECTED"}, SetStatus(o, s)
          PROVE  Onward
      BY <3>2 DEF SetStatus, TypeOK, Row, Onward
    <3>3. ASSUME NEW o, NEW t, orders' = [orders EXCEPT ![o].terms = t]
          PROVE  Onward
      <4>1. \A p \in Orders : orders'[p].status = orders[p].status
        BY <3>3 DEF TypeOK, Row
      <4> QED
        BY <4>1 DEF Onward
    <3> QED
      BY <3>1, <3>2, <3>3
  <2>3. CASE UNCHANGED orders
    BY <2>3 DEF Onward
  <2> QED
    BY <1>2, <2>1, <2>2, <2>3
    DEF Api, SubmitRead, CancelRead, AmendRead, SubmitSuspended, AmendSuspended, db
<1>3. CASE UNCHANGED orders
  BY <1>3 DEF Onward
<1>4. UNCHANGED orders \/ Api \/ EngineStep
  BY DEF Next, Failure, Relay, RelayUnmarked, Publish, Tick, Warm, RebuildFault, EventFault,
         Restart, db, vars
<1> QED
  BY <1>1, <1>2, <1>3, <1>4

\* A step that takes nothing out of the engine's hands.
LEMMA NothingTaken ==
  ASSUME KeptInv, TypeOK', Onward,
         \A o \in outbox : o \in outbox' \/ Accepted(o) \in Elements(queue'),
         \A o \in Orders : Accepted(o) \in Elements(queue) =>
             Accepted(o) \in Elements(queue') \/ (engine'.accepted /\ engine'.order = o),
         \A o \in Orders : engine.accepted /\ engine.order = o =>
             \/ engine'.accepted /\ engine'.order = o
             \/ o \in book' \/ orders'[o].status # "ACCEPTED",
         \A o \in book : o \in book' \/ orders'[o].status # "ACCEPTED",
         engine.pc # "boot"
  PROVE  AcceptedNotForgotten'
<1> SUFFICES ASSUME NEW o \in Orders, orders'[o].status = "ACCEPTED"
             PROVE  \/ o \in outbox' \/ Accepted(o) \in Elements(queue')
                    \/ engine'.accepted /\ engine'.order = o
                    \/ o \in book'
  BY DEF AcceptedNotForgotten, Elements, Accepted
<1>1. CASE orders[o].status = "ACCEPTED"
  <2>1. \/ o \in outbox \/ Accepted(o) \in Elements(queue)
        \/ engine.accepted /\ engine.order = o
        \/ o \in book
    BY <1>1 DEF KeptInv, AcceptedNotForgotten, Elements
  <2> QED
    BY <2>1
<1>2. CASE o \in outbox'
  BY <1>2
<1> QED
  BY <1>1, <1>2 DEF Onward

\* What is on its way to the engine keeps its row.
LEMMA RowsStay ==
  ASSUME KeptInv, Onward,
         \A o \in Orders : Known(o)' => Known(o) \/ orders'[o].status # "NONE"
  PROVE  RowsExist'
<1> SUFFICES ASSUME NEW o \in Orders, Known(o)' PROVE orders'[o].status # "NONE"
  BY DEF RowsExist
<1>1. CASE Known(o)
  BY <1>1 DEF KeptInv, RowsExist, Onward
<1> QED
  BY <1>1

\* What the engine has read stays as closed as it was.
LEMMA SkippedStays ==
  ASSUME KeptInv, Onward, engine' = engine \/ engine'.pc # "decide" \/ Load
  PROVE  SkippedIsClosed'
<1>1. CASE engine' = engine
  <2> SUFFICES ASSUME engine.pc = "decide", engine.seen.status \notin Working
               PROVE  orders'[engine.order].status # "ACCEPTED"
    BY <1>1 DEF SkippedIsClosed
  <2>1. engine.order \in Orders
    BY EngineHolds DEF KeptInv
  <2>2. orders[engine.order].status \notin {"ACCEPTED", "NONE"}
    BY <2>1 DEF KeptInv, SkippedIsClosed, RowsExist, Known
  <2> QED
    BY <2>1, <2>2 DEF Onward
<1>2. CASE engine'.pc # "decide"
  BY <1>2 DEF SkippedIsClosed
<1>3. CASE Load
  <2>1. engine'.seen = orders[engine.order] /\ engine'.order = engine.order /\ UNCHANGED orders
    BY <1>3 DEF Load, KeptInv, TypeOK, Engine, EngineShape, db
  <2> QED
    BY <2>1 DEF SkippedIsClosed, Working
<1> QED
  BY <1>1, <1>2, <1>3

\* The engine goes on with the rest of what it has to do.
LEMMA ProceedHolds ==
  ASSUME NEW rest, Proceed(rest)
  PROVE  /\ engine'.pc \in {"idle", "load"} /\ ~engine'.accepted /\ engine'.todo \subseteq rest
         /\ engine'.pc = "load" => engine'.order \in rest
  BY DEF Proceed, Idle, Booting

\* A submission has its row before its event.
LEMMA KeptApi == KeptInv /\ Api => KeptInv'
<1> SUFFICES ASSUME KeptInv, Api PROVE KeptInv'
  OBVIOUS
<1>1. TypeOK /\ TypeOK' /\ Onward
  BY StepTypes, StepOnward DEF KeptInv, Next
<1>2. UNCHANGED <<engine, book>>
  BY <1>1, ApiEffect
<1>3. UNCHANGED queue /\ \A o \in outbox : o \in outbox'
  BY DEF Api, SubmitRead, CancelRead, AmendRead, SubmitSuspended, SubmitWrite, CancelWrite,
         AmendSuspended, AmendWrite, db, memory
<1>4. \A o \in outbox' : o \in outbox \/ orders'[o].status # "NONE"
  <2>1. ASSUME NEW r \in Requests, SubmitWrite(r)
        PROVE  \A o \in outbox' : o \in outbox \/ orders'[o].status # "NONE"
    <3> DEFINE o == req[r].order
    <3>1. o \in Orders
      BY <1>1, <2>1 DEF SubmitWrite, TypeOK, Request, RequestShape
    <3>2. \/ SetStatus(o, "ACCEPTED") /\ outbox' = outbox \cup {o}
          \/ outbox' = outbox
      BY <2>1 DEF SubmitWrite
    <3> QED
      BY <1>1, <3>1, <3>2 DEF SetStatus, TypeOK, Row
  <2> QED
    BY <2>1 DEF Api, SubmitRead, CancelRead, AmendRead, SubmitSuspended, CancelWrite,
                AmendSuspended, AmendWrite, db
<1>5. RowsExist'
  BY <1>1, <1>2, <1>3, <1>4, RowsStay DEF Known
<1>6. SkippedIsClosed'
  BY <1>1, <1>2, SkippedStays
<1>7. CASE engine.pc = "boot"
  BY <1>1, <1>2, <1>5, <1>6, <1>7 DEF KeptInv, AcceptedNotForgotten
<1>8. CASE engine.pc # "boot"
  BY <1>1, <1>2, <1>3, <1>5, <1>6, <1>8, NothingTaken DEF KeptInv
<1> QED
  BY <1>7, <1>8

\* The relay moves an event from the outbox to the queue.
LEMMA KeptFeed ==
  ASSUME KeptInv,
         \/ \E o \in Orders : Relay(o)
         \/ \E i \in Instruments, p \in Prices : Tick(i, p) \/ Warm(i, p)
  PROVE  KeptInv'
<1>1. TypeOK /\ TypeOK' /\ Onward
  BY StepTypes, StepOnward DEF KeptInv, Next
<1>2. UNCHANGED <<engine, book, orders>>
  BY DEF Relay, Publish, Tick, Warm, db
<1> DEFINE Moved ==
       /\ Elements(queue) \subseteq Elements(queue')
       /\ \A o \in Orders : Accepted(o) \in Elements(queue') => Accepted(o) \in Elements(queue) \/ o \in outbox
       /\ outbox' \subseteq outbox
       /\ \A o \in outbox : o \in outbox' \/ Accepted(o) \in Elements(queue')
<1>3. Moved
  <2>1. ASSUME NEW o \in Orders, Relay(o)
        PROVE  Moved
    <3>1. Accepted(o) \in Event /\ queue' = Append(queue, Accepted(o)) /\ outbox' = outbox \ {o} /\ o \in outbox
      BY <2>1 DEF Relay, Publish, Accepted, Event
    <3>2. Elements(queue') = Elements(queue) \cup {Accepted(o)}
      BY <1>1, <3>1, AppendElements DEF TypeOK
    <3>3. \A p \in Orders : Accepted(p) = Accepted(o) => p = o
      BY DEF Accepted
    <3> QED
      BY <3>1, <3>2, <3>3
  <2>2. ASSUME NEW i \in Instruments, NEW p \in Prices, Tick(i, p)
        PROVE  Moved
    <3>1. TickOf(i) \in Event /\ queue' = Append(queue, TickOf(i)) /\ outbox' = outbox
      BY <2>2 DEF Tick, TickOf, Event, db
    <3>2. Elements(queue') = Elements(queue) \cup {TickOf(i)}
      BY <1>1, <3>1, AppendElements DEF TypeOK
    <3>3. \A o \in Orders : Accepted(o).stream = "orders.accepted" /\ TickOf(i).stream = "market.ticks"
      BY DEF Accepted, TickOf
    <3>4. \A o \in Orders : Accepted(o) # TickOf(i)
      BY <3>3
    <3> QED
      BY <3>1, <3>2, <3>4
  <2>3. CASE UNCHANGED <<queue, outbox>>
    BY <2>3
  <2> QED
    BY <2>1, <2>2, <2>3 DEF Warm, db
<1>4. RowsExist'
  BY <1>1, <1>2, <1>3, RowsStay DEF Known
<1>5. SkippedIsClosed'
  BY <1>1, <1>2, SkippedStays
<1>6. CASE engine.pc = "boot"
  BY <1>1, <1>2, <1>4, <1>5, <1>6 DEF KeptInv, AcceptedNotForgotten
<1>7. CASE engine.pc # "boot"
  <2>1. AcceptedNotForgotten'
    BY <1>1, <1>2, <1>3, <1>7, NothingTaken
  <2> QED
    BY <1>1, <1>4, <1>5, <2>1 DEF KeptInv
<1> QED
  BY <1>6, <1>7

\* The steps of the engine that take an event or leave the queue alone.
LEMMA KeptRebuild == KeptInv /\ (RebuildRead \/ RebuildWrite) => KeptInv'
<1> SUFFICES ASSUME KeptInv, RebuildRead \/ RebuildWrite PROVE KeptInv'
  OBVIOUS
<1>1. TypeOK /\ TypeOK' /\ Onward
  BY StepTypes, StepOnward DEF KeptInv, Next, EngineStep
<1>2. CASE RebuildRead
  <2>1. /\ engine'.pc = "rebuild" /\ engine'.todo \subseteq book' /\ UNCHANGED <<orders, outbox, queue>>
        /\ book' = {o \in Orders : orders[o].status \in Working}
    BY <1>1, <1>2 DEF RebuildRead, Recovered, TypeOK, Engine, EngineShape, db
  <2>2. RowsExist'
    BY <1>1, <2>1, RowsStay DEF Known, Working
  <2>3. SkippedIsClosed' /\ AcceptedNotForgotten'
    BY <2>1 DEF SkippedIsClosed, AcceptedNotForgotten, Working
  <2> QED
    BY <1>1, <2>2, <2>3 DEF KeptInv
<1>3. CASE RebuildWrite
  <2>1. engine.pc = "rebuild" /\ engine' = Idle /\ UNCHANGED <<outbox, queue, book>>
    BY <1>3 DEF RebuildWrite, memory
  <2>2. ~engine.accepted
    BY <1>1, <2>1 DEF TypeOK, Engine, EngineShape
  <2>3. engine'.pc = "idle" /\ engine'.todo = {}
    BY <2>1 DEF Idle, Booting
  <2>4. RowsExist'
    BY <1>1, <2>1, <2>3, RowsStay DEF Known
  <2>5. SkippedIsClosed'
    BY <1>1, <2>3, SkippedStays
  <2>6. AcceptedNotForgotten'
    BY <1>1, <2>1, <2>2, NothingTaken
  <2> QED
    BY <1>1, <2>4, <2>5, <2>6 DEF KeptInv
<1> QED
  BY <1>2, <1>3

\* The engine takes it into its hands.
LEMMA KeptTake == KeptInv /\ (OnAccepted \/ OnTick) => KeptInv'
<1> SUFFICES ASSUME KeptInv, OnAccepted \/ OnTick PROVE KeptInv'
  OBVIOUS
<1>1. TypeOK /\ TypeOK' /\ Onward
  BY StepTypes, StepOnward DEF KeptInv, Next, EngineStep
<1>2. /\ engine.pc = "idle" /\ queue # << >> /\ queue' = Tail(queue)
      /\ UNCHANGED <<orders, outbox, book>>
  BY DEF OnAccepted, OnTick, db
<1>3. ~engine.accepted
  BY <1>1, <1>2 DEF TypeOK, Engine, EngineShape
<1>4. Elements(queue) = Elements(queue') \cup {Head(queue)} /\ Head(queue) \in Event
  BY <1>1, <1>2, TailElements, QueueTypes DEF TypeOK
<1>5. CASE OnAccepted
  <2>1. /\ engine'.pc = "load" /\ engine'.accepted /\ engine'.order = Head(queue).order
        /\ engine'.todo = {} /\ Head(queue).stream = "orders.accepted"
    BY <1>5 DEF OnAccepted, Idle, Booting
  <2>2. Head(queue) = Accepted(Head(queue).order)
    BY <1>4, <2>1 DEF Event, Accepted
  <2>3. \A o \in Orders : Accepted(o) = Head(queue) => engine'.order = o
    BY <2>1 DEF Accepted
  <2>4. RowsExist'
    BY <1>1, <1>2, <1>4, <2>1, <2>2, RowsStay DEF Known
  <2>5. SkippedIsClosed'
    BY <1>1, <2>1, SkippedStays
  <2>6. AcceptedNotForgotten'
    BY <1>1, <1>2, <1>3, <1>4, <2>1, <2>3, NothingTaken
  <2> QED
    BY <1>1, <2>4, <2>5, <2>6 DEF KeptInv
<1>6. CASE OnTick
  <2>1. PICK rest \in SUBSET book : Proceed(rest)
    BY <1>6 DEF OnTick
  <2>2. /\ engine'.pc \in {"idle", "load"} /\ engine'.todo \subseteq book
        /\ engine'.pc = "load" => engine'.order \in book
    BY <2>1, ProceedHolds
  <2>3. \A o \in Orders : Accepted(o) # Head(queue)
    BY <1>6 DEF OnTick, Accepted
  <2>4. RowsExist'
    BY <1>1, <1>2, <1>4, <2>2, RowsStay DEF Known
  <2>5. SkippedIsClosed'
    BY <1>1, <2>2, SkippedStays
  <2>6. AcceptedNotForgotten'
    BY <1>1, <1>2, <1>3, <1>4, <2>3, NothingTaken
  <2> QED
    BY <1>1, <2>4, <2>5, <2>6 DEF KeptInv
<1> QED
  BY <1>5, <1>6

\* The engine goes on with what it has, or is done with it.
LEMMA KeptOn ==
  ASSUME KeptInv, EngineStep, UNCHANGED <<outbox, queue>>,
         engine.pc \in {"load", "decide", "reload", "park"},
         engine'.todo \subseteq engine.todo,
         \A o \in book' : o \in book \/ o = engine.order,
         \A o \in book : o \in book' \/ orders'[o].status # "ACCEPTED",
         engine'.pc \in {"load", "decide", "reload", "park"} =>
             engine'.order = engine.order \/ engine'.order \in engine.todo,
         \/ engine'.accepted = engine.accepted /\ engine'.order = engine.order
         \/ engine.accepted => engine.order \in book' \/ orders'[engine.order].status # "ACCEPTED",
         engine'.pc # "decide" \/ Load
  PROVE  KeptInv'
<1>1. TypeOK /\ TypeOK' /\ Onward
  BY StepTypes, StepOnward DEF KeptInv, Next
<1>2. RowsExist'
  BY <1>1, RowsStay DEF Known
<1>3. SkippedIsClosed'
  BY <1>1, SkippedStays
<1>4. AcceptedNotForgotten'
  BY <1>1, NothingTaken
<1> QED
  BY <1>1, <1>2, <1>3, <1>4 DEF KeptInv

\* What it puts down is in the book or no longer ACCEPTED.
LEMMA KeptHandling ==
  ASSUME KeptInv,
         Load \/ SkipClosed \/ KeepWorking \/ ConvertStopLimit \/ Fill \/ Reload \/ ParkOpen
  PROVE  KeptInv'
<1>1. TypeOK /\ EngineStep
  BY DEF KeptInv, EngineStep
<1>2. engine.pc \in {"load", "decide", "reload", "park"}
  BY DEF Load, SkipClosed, KeepWorking, ConvertStopLimit, Fill, Reload, ParkOpen, Crossing, Deciding
<1>3. UNCHANGED <<outbox, queue>>
  BY DEF Load, SkipClosed, KeepWorking, ConvertStopLimit, Fill, Reload, ParkOpen, db, memory
<1>4. engine.order \in Orders
  BY <1>1, <1>2, EngineHolds
<1>5. CASE Load
  <2>1. /\ engine'.todo = engine.todo /\ engine'.accepted = engine.accepted
        /\ engine'.order = engine.order /\ UNCHANGED book
    BY <1>1, <1>5 DEF Load, TypeOK, Engine, EngineShape, memory
  <2> QED
    BY <1>1, <1>2, <1>3, <1>5, <2>1, KeptOn
<1>6. CASE SkipClosed
  <2>1. orders'[engine.order].status # "ACCEPTED" /\ book' = Drop /\ Proceed(engine.todo)
    BY <1>6 DEF SkipClosed, KeptInv, SkippedIsClosed, db
  <2>2. /\ engine'.pc \in {"idle", "load"} /\ engine'.todo \subseteq engine.todo
        /\ engine'.pc = "load" => engine'.order \in engine.todo
    BY <2>1, ProceedHolds
  <2>3. book' \subseteq book /\ \A o \in book : o \in book' \/ o = engine.order
    BY <2>1 DEF Drop
  <2> QED
    BY <1>1, <1>2, <1>3, <2>1, <2>2, <2>3, KeptOn
<1>7. CASE KeepWorking
  <2>1. UNCHANGED book
    BY <1>7 DEF KeepWorking, memory
  <2>2. CASE engine.accepted
    <3>1. engine' = [engine EXCEPT !.pc = "reload", !.seen = Nothing]
      BY <1>7, <2>2 DEF KeepWorking
    <3>2. /\ engine'.pc = "reload" /\ engine'.todo = engine.todo
          /\ engine'.accepted = engine.accepted /\ engine'.order = engine.order
      BY <1>1, <3>1 DEF TypeOK, Engine, EngineShape
    <3> QED
      BY <1>1, <1>2, <1>3, <2>1, <3>2, KeptOn
  <2>3. CASE ~engine.accepted
    <3>1. Proceed(engine.todo)
      BY <1>7, <2>3 DEF KeepWorking
    <3>2. /\ engine'.pc \in {"idle", "load"} /\ engine'.todo \subseteq engine.todo
          /\ engine'.pc = "load" => engine'.order \in engine.todo
      BY <3>1, ProceedHolds
    <3> QED
      BY <1>1, <1>2, <1>3, <2>1, <2>3, <3>2, KeptOn
  <2> QED
    BY <2>2, <2>3
<1>8. CASE ConvertStopLimit
  <2>1. engine' = [engine EXCEPT !.pc = "load", !.seen = Nothing] /\ UNCHANGED book
    BY <1>8 DEF ConvertStopLimit, memory
  <2>2. /\ engine'.pc = "load" /\ engine'.todo = engine.todo
        /\ engine'.accepted = engine.accepted /\ engine'.order = engine.order
    BY <1>1, <2>1 DEF TypeOK, Engine, EngineShape
  <2> QED
    BY <1>1, <1>2, <1>3, <2>1, <2>2, KeptOn
<1>9. CASE Fill
  <2>1. orders'[engine.order].status = "FILLED"
    BY <1>1, <1>4, <1>9 DEF Fill, SetStatus, TypeOK, Row
  <2>2. /\ engine'.pc \in {"idle", "load"} /\ engine'.todo \subseteq engine.todo
        /\ engine'.pc = "load" => engine'.order \in engine.todo
    BY <1>9, ProceedHolds DEF Fill
  <2>3. book' \subseteq book /\ \A o \in book : o \in book' \/ o = engine.order
    BY <1>9 DEF Fill, Drop
  <2> QED
    BY <1>1, <1>2, <1>3, <2>1, <2>2, <2>3, KeptOn
<1>10. CASE Reload
  <2>1. UNCHANGED book
    BY <1>10 DEF Reload, memory
  <2>2. CASE orders[engine.order].status \in Working
    <3>1. engine' = [engine EXCEPT !.pc = "park", !.seen = orders[engine.order]]
      BY <1>10, <2>2 DEF Reload
    <3>2. /\ engine'.pc = "park" /\ engine'.todo = engine.todo
          /\ engine'.accepted = engine.accepted /\ engine'.order = engine.order
      BY <1>1, <3>1 DEF TypeOK, Engine, EngineShape
    <3> QED
      BY <1>1, <1>2, <1>3, <2>1, <3>2, KeptOn
  <2>3. CASE orders[engine.order].status \notin Working
    <3>1. /\ engine'.pc = "idle" /\ engine'.todo = {}
          /\ orders'[engine.order].status # "ACCEPTED"
      BY <1>10, <2>3 DEF Reload, Idle, Booting, Working, db
    <3> QED
      BY <1>1, <1>2, <1>3, <2>1, <3>1, KeptOn
  <2> QED
    BY <2>2, <2>3
<1>11. CASE ParkOpen
  <2>1. engine'.pc = "idle" /\ engine'.todo = {} /\ book' = book \cup {engine.order}
    BY <1>11 DEF ParkOpen, Idle, Booting
  <2> QED
    BY <1>1, <1>2, <1>3, <2>1, KeptOn
<1> QED
  BY <1>5, <1>6, <1>7, <1>8, <1>9, <1>10, <1>11

\* After a restart the rebuild finds what was in memory.
LEMMA KeptRestart == KeptInv /\ Restart => KeptInv'
<1> SUFFICES ASSUME KeptInv, Restart PROVE KeptInv'
  OBVIOUS
<1>1. TypeOK' /\ Onward
  BY StepTypes, StepOnward DEF KeptInv, Next, Failure
<1>2. /\ engine'.pc = "boot" /\ engine'.todo = {} /\ queue' = << >> /\ book' = {}
      /\ UNCHANGED outbox
  BY DEF Restart, Booting, db
<1>3. Elements(queue') = {}
  BY <1>2 DEF Elements
<1>4. RowsExist'
  BY <1>1, <1>2, <1>3, RowsStay DEF Known
<1>5. SkippedIsClosed' /\ AcceptedNotForgotten'
  BY <1>2 DEF SkippedIsClosed, AcceptedNotForgotten
<1> QED
  BY <1>1, <1>4, <1>5 DEF KeptInv

\* At the start nothing is accepted.
LEMMA InitKept == Init => KeptInv
<1> SUFFICES ASSUME Init PROVE KeptInv
  OBVIOUS
<1>1. Elements(queue) = {}
  BY DEF Init, Elements
<1>2. engine.pc = "boot" /\ engine.todo = {} /\ outbox = {} /\ book = {}
  BY DEF Init, Booting
<1>3. RowsExist /\ SkippedIsClosed /\ AcceptedNotForgotten
  BY <1>1, <1>2 DEF RowsExist, Known, SkippedIsClosed, AcceptedNotForgotten
<1> QED
  BY <1>3, InitTypes DEF KeptInv

\* While no unit of work fails, no step forgets an accepted order.
LEMMA StepKept == MaxFaults = 0 /\ KeptInv /\ [Next]_vars => KeptInv'
<1> SUFFICES ASSUME MaxFaults = 0, KeptInv, [Next]_vars PROVE KeptInv'
  OBVIOUS
<1>1. ~(faults < MaxFaults)
  BY DEF KeptInv, TypeOK
<1>2. CASE EngineStep
  BY <1>2, KeptRebuild, KeptTake, KeptHandling DEF EngineStep
<1>3. CASE UNCHANGED vars
  <2>1. TypeOK'
    BY StepTypes DEF KeptInv
  <2> QED
    BY <1>3, <2>1 DEF vars, KeptInv, RowsExist, Known, SkippedIsClosed, AcceptedNotForgotten
<1> QED
  BY <1>1, <1>2, <1>3, KeptApi, KeptFeed, KeptRestart
  DEF Next, Failure, RelayUnmarked, RebuildFault, EventFault

\* While no unit of work fails, every order the API accepted is in the outbox,
\* the engine's queue, its hands or its book, however often the process restarts
\* (relay of core/events.py, execution_engine and _rebuild_book, orders/workers.py).
THEOREM NotForgotten == ASSUME MaxFaults = 0 PROVE Spec => []AcceptedNotForgotten
<1>1. Init => KeptInv
  BY InitKept
<1>2. KeptInv /\ [Next]_vars => KeptInv'
  BY StepKept
<1>3. KeptInv => AcceptedNotForgotten
  BY DEF KeptInv
<1> QED
  BY <1>1, <1>2, <1>3, PTL DEF Spec
=============================================================================
