---------------------------- MODULE MCMarketFeed ----------------------------
(***************************************************************************)
(* An equity whose daily file overlaps its minute bars, which span two     *)
(* days and more than a chunk; one that has bars at fewer minutes; a bond; *)
(* and an instrument of another era whose only row lies after the data.    *)
(***************************************************************************)
EXTENDS MarketFeed

CONSTANTS first, second, bond, other, news, r1

MCEquities   == <<first, second>>
MCBonds      == <<bond>>
MCHistorical == [i \in {first, second} |-> {0, 10}]
MCLive       == [i \in {first, second} |-> IF i = first THEN {10, 11, 20} ELSE {10, 20}]

OldEra     == [table \in Tables |-> IF table = other THEN {21} ELSE {}]
MCExisting == {OldEra}

Row(t) == LET close == 3 + ((t * 2) % 5)  open == 3 + ((t * 3) % 4) IN
          [open |-> open, close |-> close, high |-> Max({open, close}) + (t % 2),
           low |-> Min({open, close}) - 1, volume |-> 1 + (t % 3)]
MCTape == [i \in Instruments |-> [t \in {0, 10, 11, 20, 21} |-> Row(t)]]
=============================================================================
