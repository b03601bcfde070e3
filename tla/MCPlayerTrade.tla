----------------------------- MODULE MCPlayerTrade -----------------------------
EXTENDS PlayerTrade, TLC

CONSTANTS gil, arrow, potion, none, p1, p2, p3

MCStackSize == [k \in Kinds |-> CASE k = gil -> 3 [] k = arrow -> 2 [] OTHER -> 1]

Has(uid, kind, qty) == [uid |-> uid, kind |-> kind, qty |-> qty, state |-> "Free"]

(* p1 has arrows, p2 a rare potion; each has room for one more stack.       *)
Goods == p1 :> (0 :> Has(1, gil, 2) @@ 1 :> Has(2, arrow, 2) @@ 2 :> NoStack)
      @@ p2 :> (0 :> Has(3, gil, 1) @@ 1 :> Has(4, potion, 1) @@ 2 :> NoStack)

(* Three players with gil only, for the handshake.                          *)
Purses == [p \in Players |-> 0 :> Has(CASE p = p1 -> 1 [] p = p2 -> 2 [] OTHER -> 3, gil, 1)]

Interchangeable == Permutations(Trades)
=============================================================================
