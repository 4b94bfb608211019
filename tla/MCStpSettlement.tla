--------------------------- MODULE MCStpSettlement ---------------------------
(* Values of the constants of StpSettlement for the runs. *)
EXTENDS StpSettlement

CONSTANTS client, paper, acme

Of(p, side, q) == [portfolio |-> p, instrument |-> acme, side |-> side,
                   quantity |-> q]

\* Purchases and sales of one client, and purchases of a paper account.
ClientAndPaper == {Of(client, "BUY", 1), Of(client, "SELL", 1), Of(paper, "BUY", 1)}
ClientTrades   == {Of(client, "BUY", 1), Of(client, "SELL", 1)}
=============================================================================
