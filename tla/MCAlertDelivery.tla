-------------------------- MODULE MCAlertDelivery --------------------------
(***************************************************************************)
(* One rule, on the price or on its fall; a price on each side of the      *)
(* threshold; one event of another module in a category that may not be    *)
(* silenced; and three patches: one that is cut short by a channel it does *)
(* not know, one that silences the alerts, one that asks to silence more   *)
(* than it may.                                                            *)
(***************************************************************************)
EXTENDS AlertDelivery

CONSTANTS r1, notice, user

MCTerms  == [condition : {"ABOVE", "CROSSES_BELOW"}, threshold : {2}]
MCPrices == {1, 3}
MCOwner  == [e \in {r1, notice} |-> user]
MCCategory == [e \in {r1, notice} |-> IF e = notice THEN "GRANT" ELSE "ALERT"]

Set(c, b) == [channel |-> c, on |-> b]
MCPatches ==
    {[channels |-> <<Set("IN_APP", FALSE), Set("SMS", TRUE)>>, off |-> {"ALERT"}, on |-> {}],
     [channels |-> <<Set("EMAIL", FALSE)>>, off |-> {"ALERT"}, on |-> {}],
     [channels |-> <<Set("EMAIL", TRUE)>>, off |-> {"GRANT", "ALERT"}, on |-> {}]}
=============================================================================
