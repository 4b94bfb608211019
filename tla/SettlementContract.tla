------------------------- MODULE SettlementContract -------------------------
(***************************************************************************)
(* What the settlement of executions promises (docs/design/02, FR-ORD-005):*)
(* an execution is booked once, in one step that moves the cash and the    *)
(* holding of its own portfolio by exactly its own value and quantity, and *)
(* is then affirmed and settled, in this order.  StpSettlement is shown to *)
(* implement it for the portfolios nobody resets.                          *)
(***************************************************************************)
EXTENDS Integers

CONSTANTS Orders, Clients, Instruments, Prices, InitialCash

Stages == {"NONE", "EXECUTED", "AFFIRMED", "SETTLED"}

VARIABLES
    trade,       \* per order: portfolio, instrument, side, quantity, price
    executed,    \* the orders that have an execution
    stage,       \* how far each execution is settled
    cash,        \* per client portfolio
    holding      \* per client portfolio and instrument

vars == <<trade, executed, stage, cash, holding>>

Init ==
    /\ executed = {}
    /\ stage = [o \in Orders |-> "NONE"]
    /\ cash = [p \in Clients |-> InitialCash]
    /\ holding = [h \in Clients \X Instruments |-> 0]

Account(t) == <<t.portfolio, t.instrument>>
Value(t)   == t.quantity * t.price
CashMove(t)    == IF t.side = "BUY" THEN -Value(t) ELSE Value(t)
HoldingMove(t) == IF t.side = "BUY" THEN t.quantity ELSE -t.quantity

Execute(o, p) ==
    /\ o \notin executed
    /\ executed' = executed \cup {o}
    /\ trade' = [trade EXCEPT ![o].price = p]
    /\ UNCHANGED <<stage, cash, holding>>

Book(o) ==
    /\ o \in executed
    /\ stage[o] = "NONE"
    /\ stage' = [stage EXCEPT ![o] = "EXECUTED"]
    /\ cash' = [p \in Clients |->
                  IF p = trade[o].portfolio THEN cash[p] + CashMove(trade[o])
                                            ELSE cash[p]]
    /\ holding' = [h \in Clients \X Instruments |->
                  IF h = Account(trade[o]) THEN holding[h] + HoldingMove(trade[o])
                                           ELSE holding[h]]
    /\ UNCHANGED <<trade, executed>>

Following(s) == CASE s = "EXECUTED" -> "AFFIRMED" [] s = "AFFIRMED" -> "SETTLED"

Advance(S) ==
    /\ \A o \in S : stage[o] \in {"EXECUTED", "AFFIRMED"}
    /\ stage' = [o \in Orders |-> IF o \in S THEN Following(stage[o])
                                             ELSE stage[o]]
    /\ UNCHANGED <<trade, executed, cash, holding>>

Next ==
    \/ \E o \in Orders : Book(o) \/ \E p \in Prices : Execute(o, p)
    \/ \E S \in SUBSET Orders : Advance(S)

Spec == Init /\ [][Next]_vars
=============================================================================
