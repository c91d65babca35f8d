---------------------------- MODULE PriceSources ----------------------------
(***************************************************************************)
(* The daily-price sources of mrmkt (alpaca_prices.py, tiingo_prices.py,   *)
(* yahoo_prices.py): how get_prices turns a window of days into a request, *)
(* and the rows a provider answers with into split- and dividend-adjusted  *)
(* bars, for all symbols of a batch or none.  A time is a number of hours, *)
(* a day is 24 of them; a row's high and low are treated like its open.    *)
(***************************************************************************)
EXTENDS Integers, Sequences, SequencesExt

CONSTANTS
    Symbol,
    Date,
    YahooAlias, \* the names Yahoo has for symbols it calls differently
    Feed(_, _, _), \* the rows a provider has for a name on some day: they are revised
    Unknown,    \* no symbol of that name
    None,       \* null
    Missing     \* no such field

Provider == {"alpaca", "tiingo", "yahoo"}
Price == Nat \cup {None}
Field == Price \cup {Missing}
Row == [at: Int, open: Field, close: Field, adjOpen: Field, adjClose: Field]
DayOf(hour) == hour \div 24

\* _yahoo_symbol; the other providers are asked for the symbol itself.
AskedAs(by, s) == IF by = "yahoo" /\ s \in DOMAIN YahooAlias THEN YahooAlias[s] ELSE s

Published(by, s, day) == Feed(by, AskedAs(by, s), day)

-----------------------------------------------------------------------------
(* The window: both its days are meant to be in. *)

\* Deviation: the last day begins at the end of Yahoo's half-open period.
InWindowShort(by, hour, from, to) ==
    /\ hour >= 24 * from
    /\ CASE by = "yahoo" -> hour < 24 * to
         [] by = "alpaca" -> hour <= 24 * to + 23
         [] by = "tiingo" -> DayOf(hour) <= to

\* period1 up to period2 for Yahoo, time.min to time.max for Alpaca, dates for Tiingo.
InWindow(by, hour, from, to) ==
    /\ hour >= 24 * from
    /\ CASE by = "yahoo" -> hour < 24 * (to + 1)
         [] by = "alpaca" -> hour <= 24 * to + 23
         [] by = "tiingo" -> DayOf(hour) <= to

-----------------------------------------------------------------------------
(* A row. *)

\* An adjusted field, or else the raw one, whatever that holds.
OrElse(adjusted, raw) == IF adjusted \notin {None, Missing} THEN adjusted ELSE raw
Bar(s, r, open, close) == [symbol |-> s, date |-> DayOf(r.at), open |-> open, close |-> close]

\* Yahoo has an adjusted close only; the other prices are scaled along with it.
YahooBar(s, r) ==
    IF r.adjClose # None /\ r.close # 0
    THEN Bar(s, r, (r.open * r.adjClose) \div r.close, r.adjClose)
    ELSE Bar(s, r, r.open, r.close)

TiingoBar(s, r) == Bar(s, r, OrElse(r.adjOpen, r.open), OrElse(r.adjClose, r.close))

\* Alpaca adjusts on its side (Adjustment.ALL).
AlpacaBar(s, r) == Bar(s, r, r.open, r.close)

BarOf(by, s, r) ==
    CASE by = "yahoo" -> YahooBar(s, r)
      [] by = "tiingo" -> TiingoBar(s, r)
      [] by = "alpaca" -> AlpacaBar(s, r)

\* Yahoo pads days without trading with nulls, and only these rows are passed over.
Padding(by, r) == by = "yahoo" /\ (r.open = None \/ r.close = None)

\* A Tiingo row without the field for a price, adjusted or not, is a KeyError; a null
\* there is passed on, and stored, as a bar without that price.
Malformed(by, r) ==
    /\ by = "tiingo"
    /\ OrElse(r.adjOpen, r.open) = Missing \/ OrElse(r.adjClose, r.close) = Missing

\* A row that becomes a bar.
Complete(by, r) == ~Padding(by, r) /\ ~Malformed(by, r)

\* What the providers answer with.  Only Tiingo's rows are read field by field, with
\* any of them adjusted, null or missing; Alpaca's bars have their prices.  The unit of
\* a price is small enough for Yahoo's close to divide what it scales.
Divides(r) == (r.open * r.adjClose) % r.close = 0

Answerable(by, r) ==
    CASE by = "alpaca" -> r.open \in Nat /\ r.close \in Nat
      [] by = "yahoo" ->
             /\ r.open \in Price /\ r.close \in Price /\ r.adjClose \in Price
             /\ ~Padding(by, r) /\ r.adjClose # None /\ r.close # 0 => Divides(r)
      [] by = "tiingo" -> TRUE

ASSUME FeedAssumption ==
    \A by \in Provider, s \in Symbol, day \in Date :
        LET rows == Published(by, s, day) IN
        \/ rows = Unknown
        \/ rows \in Seq(Row) /\ \A i \in DOMAIN rows : Answerable(by, rows[i])

-----------------------------------------------------------------------------
(* get_prices. *)

\* One symbol that fails fails its batch: raise_for_status, a chart error, a bad row.
\* Alpaca's one request for the batch leaves out what it does not know.
Refuses(by, symbols, from, to, day) ==
    \E i \in DOMAIN symbols :
        LET rows == Published(by, symbols[i], day) IN
        IF rows = Unknown THEN by # "alpaca"
        ELSE \E k \in DOMAIN rows : InWindow(by, rows[k].at, from, to) /\ Malformed(by, rows[k])

\* A row of the window is a bar, or none when it is padding.
BarsOf(by, s, r, from, to) ==
    IF InWindow(by, r.at, from, to) /\ ~Padding(by, r) THEN <<BarOf(by, s, r)>> ELSE <<>>

GetPrices(by, s, from, to, day) ==
    LET rows == Published(by, s, day) IN
    IF rows = Unknown THEN <<>>
    ELSE FlattenSeq([i \in DOMAIN rows |-> BarsOf(by, s, rows[i], from, to)])
=============================================================================
