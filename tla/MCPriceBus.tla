----------------------------- MODULE MCPriceBus -----------------------------
(* Values of the constants of PriceBus for TLC. *)
EXTENDS PriceBus

CONSTANTS A, B

MCWanted == <<A, B>>

Element(shape, t, bid, ask, ref) ==
    [shape |-> shape, ticker |-> t, bid |-> bid, ask |-> ask, ref |-> ref]

\* A frame with two quotes of A around one that has no price, and one with quotes of
\* both symbols, of which the second has its bid from the reference price.
MCFrame ==
    {<<Element("dict", A, "number", "number", "none"),
       Element("array", A, "junk", "number", "number"),
       Element("array", A, "number", "none", "number")>>,
     <<Element("short", B, "none", "none", "number"),
       Element("dict", A, "none", "number", "number"),
       Element("array", B, "none", "number", "number")>>}

\* Every stream competes with the watch for its first symbol.
MCSymbolOf == [c \in Stream |-> A]
=============================================================================
