-------------------------- MODULE MCOrderLifecycle --------------------------
(* Values of the constants of OrderLifecycle for the runs. *)
EXTENDS OrderLifecycle, TLC

CONSTANTS acme

Limit(side, price)      == [type |-> "LIMIT", side |-> side,
                            instrument |-> acme, quantity |-> 1,
                            limit |-> price, stop |-> Nothing]
Stop(side, price)       == [Limit(side, Nothing) EXCEPT !.type = "STOP",
                                                        !.stop = price]
StopLimit(side, at, lim) == [Limit(side, lim) EXCEPT !.type = "STOP_LIMIT",
                                                     !.stop = at]
Market(side)            == [Limit(side, Nothing) EXCEPT !.type = "MARKET"]

\* An order that rests at price 2 and fills at price 1.
RestingTicket == {Limit("BUY", 1)}
MixedTickets  == {Limit("BUY", 1), Market("SELL")}

\* Every type on both sides, between the prices 1, 2 and 3.
AllTickets ==
    UNION {{Market(s), Limit(s, 2), Stop(s, 2), StopLimit(s, 2, 2),
            StopLimit(s, 2, IF s = "BUY" THEN 3 ELSE 1)} : s \in {"BUY", "SELL"}}

Change(q, l, s)   == [quantity |-> q, limit |-> l, stop |-> s]
RaiseLimit        == {Change(Nothing, 2, Nothing)}
NoAmendment       == {}

TwoPrices   == {1, 2}
ThreePrices == {1, 2, 3}

OrderSymmetry == Permutations(Orders)
=============================================================================
