------------------------------ MODULE MCOrders ------------------------------
(* Values of the constants of Orders for TLC. *)
EXTENDS Orders, TLC

Ask2(side, stop, tif) == [side |-> side, qty |-> 1, limit |-> 2, stop |-> stop, tif |-> tif]

MCRequest ==
    {Ask2("buy", 1, "day"), Ask2("sell", 1, "gtc")}

Terminals == Permutations(Client)
=============================================================================
