----------------------------- MODULE MCAuctionHouse -----------------------------
(* A small instance of AuctionHouse: one character has two goods.  A        *)
(* behaviour uses either the auction, with one window open at a time, or    *)
(* the second cells of the boxes and any windows.                           *)
EXTENDS AuctionHouse

CONSTANTS a, b, g

MCBelongings == [c \in Chars |-> [x \in Goods |-> IF c = a THEN 2 ELSE 0]]
MCSavings    == [c \in Chars |-> IF c = a THEN 1 ELSE 2]

SecondCellsEmpty ==
  \A c \in Chars, s \in Cells \ {0} :
    outbox[c][s] = None /\ inbox[c][s] = None /\ window[c].cells[s] = None

OneWindow == Cardinality({c \in Chars : window[c].box # "none"}) <= 1

MCSpec == Init /\ [][Next /\ (listings' = <<>> \/ (SecondCellsEmpty' /\ OneWindow'))]_vars
=============================================================================
