-------------------------- MODULE MCItemTransaction --------------------------
(* The character of ItemTransaction's runs.                                 *)
EXTENDS ItemTransaction, TLC

CONSTANTS gil, arrow, ring, none, p1

MCStackSize == [k \in Kinds |-> IF k = ring THEN 1 ELSE 2]

Has(uid, kind, qty) == [uid |-> uid, kind |-> kind, qty |-> qty, state |-> "Free"]

(* Arrows to wear, spend, sell and move, and an empty slot.                 *)
OneBag == p1 :> (0 :> Has(1, gil, 1) @@ 1 :> Has(2, arrow, 2) @@ 2 :> NoStack)
=============================================================================
