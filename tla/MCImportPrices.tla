--------------------------- MODULE MCImportPrices ---------------------------
(* Values of the constants of ImportPrices for TLC. *)
EXTENDS ImportPrices, TLC

CONSTANTS A, B, V, VIndex

MCDate == 1..3
MCYahooAlias == (V :> VIndex)

Raw(day, hour, open, close) ==
    [at |-> 24 * day + hour, open |-> open, close |-> close, adjOpen |-> None, adjClose |-> None]
Adjusted(row, adjOpen, adjClose) == [row EXCEPT !.adjOpen = adjOpen, !.adjClose = adjClose]

\* A pays a dividend of half its price on day 3, so that its history is adjusted, and
\* its bar of day 2 is provisional until then.  Yahoo pads V's day 1 with nulls.
\* Tiingo has a row of B with its open adjusted only, and of V none on day 1, one with
\* a null close on day 2, and one without a close on day 3.
Close(day, on) == IF day = on THEN 60 ELSE 40
Ratio(on) == IF on = 3 THEN 2 ELSE 1

YahooA(on) == <<Adjusted(Raw(1, 14, 20, Close(1, on)), None, Close(1, on) \div Ratio(on)),
                Adjusted(Raw(2, 14, 20, Close(2, on)), None, Close(2, on) \div Ratio(on))>>
YahooV(on) == <<Raw(1, 14, None, None), Adjusted(Raw(2, 14, 16, 15), None, 15)>>
TiingoA(on) == <<Adjusted(Raw(1, 0, 20, Close(1, on)), 20 \div Ratio(on), Close(1, on) \div Ratio(on)),
                 Adjusted(Raw(2, 0, 20, Close(2, on)), 20 \div Ratio(on), Close(2, on) \div Ratio(on))>>
AlpacaA(on) == <<Raw(1, 5, 20 \div Ratio(on), Close(1, on) \div Ratio(on)),
                 Raw(2, 5, 20 \div Ratio(on), Close(2, on) \div Ratio(on))>>
TiingoV(on) ==
    IF on = 1 THEN Unknown ELSE <<Raw(2, 0, 15, IF on = 2 THEN None ELSE Missing)>>
TiingoB(on) == <<Adjusted(Raw(2, 0, 10, 10), 5, Missing)>>

MCFeed(by, name, on) ==
    CASE by = "yahoo" /\ name = A -> YahooA(on)
      [] by = "yahoo" /\ name = VIndex -> YahooV(on)
      [] by = "tiingo" /\ name = A -> TiingoA(on)
      [] by = "tiingo" /\ name = B -> TiingoB(on)
      [] by = "tiingo" /\ name = V -> TiingoV(on)
      [] by = "alpaca" /\ name = A -> AlpacaA(on)
      [] OTHER -> Unknown

MCAsk ==
    {[by |-> "yahoo", symbols |-> <<V, A>>, from |-> 1, to |-> None],
     [by |-> "tiingo", symbols |-> <<B, V, A>>, from |-> 2, to |-> 2],
     [by |-> "alpaca", symbols |-> <<A, V>>, from |-> 1, to |-> 2],
     [by |-> "alpaca", symbols |-> <<>>, from |-> 1, to |-> None],
     [by |-> "yahoo", symbols |-> <<A>>, from |-> 2, to |-> 1]}
=============================================================================
