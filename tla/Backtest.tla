------------------------------- MODULE Backtest -------------------------------
(***************************************************************************)
(* mrmkt backtest run: command/backtest_run.py loads the bars of the       *)
(* selected symbols chunk by chunk, StrategyRunner.run_chunked generates   *)
(* signals and simulates the fills of each chunk, and aggregate_trades     *)
(* books the fills in order of their entries under a cap on positions.     *)
(* Symbols are numbered in the order of their names, days in theirs.       *)
(***************************************************************************)
EXTENDS StrategyRegistry, ImportBatches

CONSTANTS
    Symbol, Day,
    History,      \* the price tables a run may find: [Symbol -> [Day -> bar]]
    Request,      \* the requests of the command line
    MinBars,      \* bars a symbol needs to be loaded (360)
    Warmup,       \* rows before the default start of the test window (300)
    StopPct,      \* stop, in percent
    MaxPositions  \* max_positions

Price == Nat \cup {NaN}

\* A bar has all of its prices, and the symbols differ: one typed twice would be traded twice.
ASSUME BacktestAssumption ==
    /\ Symbol \subseteq Nat \ {0} /\ IsFiniteSet(Symbol)
    /\ Day \subseteq Nat \ {0} /\ IsFiniteSet(Day)
    /\ Warmup \in Nat /\ MinBars \in Nat /\ Warmup < MinBars
    /\ StopPct \in 1..99
    /\ MaxPositions \in Nat \ {0}
    /\ History \subseteq [Symbol -> [Day -> [close: Price, high: Price, low: Price]]]
    /\ \A h \in History : \A s \in Symbol, d \in Day : Known(h[s][d].low) => Known(h[s][d].close)
    /\ \A q \in Request :
          /\ q.selected \in Seq(Symbol) /\ IsInjective(q.selected)
          /\ q.chunkSize \in Int /\ {q.start, q.end} \subseteq Nat
          /\ Built(q.ask) => Chosen(q.ask) = Params(q.ask.strategy)

VARIABLES
    phase,    \* what the run is doing, or the status it ended with
    req,      \* RunBacktestRequest
    bars,     \* table daily_price
    whole,    \* the frame of all columns that are traded
    chunks,   \* the frames of the chunks not simulated yet
    signals,  \* the SignalSet of the whole frame, or of the first chunk
    records,  \* the trade records of the chunks simulated so far
    pending,  \* records of the test window not booked yet
    booked, refused,  \* records that were booked, and those the cap kept out
    opened,   \* opened_today: the entry day being booked and its entries
    open,     \* open_count
    fees,     \* day_cost, counted in fees_per_side
    marks     \* the marks day_sum adds up

book == <<booked, refused, opened, open, fees, marks>>
tape == <<req, bars, whole>>
vars == <<phase, tape, chunks, signals, records, pending, book>>

Ended == {"invalid", "no_symbols", "no_history", "error", "no_trades", "done"}

-----------------------------------------------------------------------------
(* Loading. *)

\* What StrategyRunner accepts, checked by the command before and by the runner again.
Fillable(q) ==
    /\ q.fillLag \in 0..1
    /\ q.fillModel \in {"close", "limit-touch"} /\ q.fillPrice \in {"close", "limit"}
    /\ q.fillPrice = "limit" => q.fillModel = "limit-touch"

\* One selection of symbols, from <= to, and a strategy that can be built.
Valid(q) ==
    /\ q.sources = 1 /\ q.chunkSize >= 1 /\ Fillable(q)
    /\ q.start <= q.end
    /\ Built(q.ask)

\* split_benchmark_symbol: the benchmark is not traded unless it is all that is selected.
Tradables(q) ==
    IF Len(q.selected) = 1 THEN q.selected
    ELSE Sub(q.selected, {i \in DOMAIN q.selected : q.selected[i] # q.benchmark})

DaysOf(s) == {d \in Day : d <= req.end /\ Known(bars[s][d].close)}
Loaded(batch) == {s \in ToSet(batch) : Cardinality(DaysOf(s)) >= MinBars}

\* A frame has a row for each day that any of its columns has a bar.
Frame(cols) ==
    LET days == Ascending(UNION {DaysOf(s) : s \in cols})
    IN [days |-> days,
        close |-> [s \in cols |-> [i \in DOMAIN days |-> bars[s][days[i]].close]],
        high |-> [s \in cols |-> [i \in DOMAIN days |-> bars[s][days[i]].high]],
        low |-> [s \in cols |-> [i \in DOMAIN days |-> bars[s][days[i]].low]]]

\* The symbols of each chunk.
Parts ==
    LET batches == Batches(Tradables(req), req.chunkSize)
        loaded == [i \in DOMAIN batches |-> Loaded(batches[i])]
    IN Sub(loaded, {i \in DOMAIN loaded : loaded[i] # {}})

\* --from, or the row after the warm-up; the days of the test window.
First == IF req.start # 0 THEN req.start ELSE whole.days[Warmup + 1]
Index == {d \in ToSet(whole.days) : d >= First}

Benchmark ==
    IF req.benchmark = 0 THEN <<>>
    ELSE [d \in DaysOf(req.benchmark) |-> bars[req.benchmark][d].close]

-----------------------------------------------------------------------------
(* Fills of one column. *)

\* Prices that can be traded at, and that a return can be taken from.
Priced(price) == Known(price) /\ price # 0

StopPrice(price) == price - (price * StopPct) \div 100

Record(s, entry, entryPx, exit, exitPx) ==
    [symbol |-> s, entry |-> entry, entryPx |-> entryPx, exit |-> exit, exitPx |-> exitPx]

\* No holding; a record still open has no exit.
None == [entry |-> 0, price |-> NaN]
IsOpen(r) == r.exit = 0

\* The signals of a row, known fill_lag rows before it.
Signalled(cells, s, i) == <<s, i - req.fillLag>> \in cells
LimitAt(f, s, i) == IF i - req.fillLag > 0 THEN BuyLevel(f.close[s], i - req.fillLag) ELSE NaN

\* Deviation: a limit fills whether or not the bar reaches it.
EntryAtUntouched(f, s, i) == Signalled(signals.entry, s, i)

\* Under the touch model an entry needs its limit touched; NaN is a market entry.
EntryAt(f, s, i) ==
    /\ Signalled(signals.entry, s, i)
    /\ req.fillModel = "limit-touch" =>
          ~Known(LimitAt(f, s, i)) \/ AtMost(f.low[s][i], LimitAt(f, s, i))

FillPrice(f, s, i) ==
    IF req.fillPrice = "limit" /\ Priced(LimitAt(f, s, i)) THEN LimitAt(f, s, i)
    ELSE f.close[s][i]

BarAt(f, s, i) == [close |-> f.close[s][i], high |-> f.high[s][i], low |-> f.low[s][i]]
Top(bar) == IF Known(bar.high) THEN bar.high ELSE bar.close

\* What a stop sells at on a bar, if it does.  A fill at limits sells at the stop itself,
\* wherever the bar opened.  vectorbt, which fills at closes and is given no opens, takes
\* the close for the open: it sells there when that is at or below the stop already, and
\* at the stop when the bar reaches from its low to its high across it.
StopFill(bar, stop) ==
    IF req.fillPrice = "close" /\ AtMost(bar.close, stop) THEN bar.close
    ELSE IF /\ AtMost(bar.low, stop)
            /\ req.fillPrice = "limit" \/ AtMost(stop, Top(bar))
    THEN stop
    ELSE NaN

\* One row: the stop wins over the strategy's exit, and a row that exits enters nothing.
FillRow(f, s, st, i) ==
    LET out(price) ==
            [held |-> None,
             done |-> st.done \cup {Record(s, st.held.entry, st.held.price, f.days[i], price)}]
        stop == StopFill(BarAt(f, s, i), StopPrice(st.held.price))
        stopped == Priced(stop)
    IN CASE st.held # None /\ stopped -> out(stop)
         [] st.held # None /\ ~stopped ->
                IF Signalled(signals.exit, s, i) /\ Priced(f.close[s][i]) THEN out(f.close[s][i]) ELSE st
         [] st.held = None ->
                IF EntryAt(f, s, i) /\ Priced(FillPrice(f, s, i))
                THEN [st EXCEPT !.held = [entry |-> f.days[i], price |-> FillPrice(f, s, i)]]
                ELSE st

\* The holding and the records of a column after each row.
Fills(f, s) ==
    LET fill[i \in 0..Len(f.days)] ==
            IF i = 0 THEN [held |-> None, done |-> {}] ELSE FillRow(f, s, fill[i - 1], i)
    IN fill

FillColumn(f, s) ==
    LET end == Fills(f, s)[Len(f.days)]
    IN end.done \cup IF end.held = None THEN {}
                     ELSE {Record(s, end.held.entry, end.held.price, 0, NaN)}
-----------------------------------------------------------------------------
(* The run, up to the records of its test window. *)

Init ==
    /\ phase = "idle" /\ req \in Request /\ bars \in History
    /\ whole = <<>> /\ chunks = <<>> /\ signals = <<>>
    /\ records = {} /\ pending = {}
    /\ booked = {} /\ refused = {} /\ marks = {}
    /\ opened = [day |-> 0, count |-> 0]
    /\ open = [d \in Day |-> 0] /\ fees = [d \in Day |-> 0]

End(status) == phase' = status /\ UNCHANGED <<tape, chunks, signals, records, pending, book>>

Refuse == phase = "idle" /\ ~Valid(req) /\ End("invalid")
SelectNothing == phase = "idle" /\ Valid(req) /\ req.selected = <<>> /\ End("no_symbols")
LoadNothing ==
    phase = "idle" /\ Valid(req) /\ req.selected # <<>> /\ Parts = <<>> /\ End("no_history")

Load ==
    /\ phase = "idle" /\ Valid(req) /\ Parts # <<>>
    /\ chunks' = [i \in DOMAIN Parts |-> Frame(Parts[i])]
    /\ whole' = Frame(UNION ToSet(Parts))
    /\ phase' = "generating"
    /\ UNCHANGED <<req, bars, signals, records, pending, book>>

\* Strategies with needs_universe rank all columns at once; the others see a chunk.
GenerateSignals ==
    /\ phase = "generating"
    /\ signals' = Generate(req.ask.strategy, IF NeedsUniverse(req.ask.strategy) THEN whole ELSE Head(chunks),
                           Benchmark, First)
    /\ phase' = "filling"
    /\ UNCHANGED <<tape, chunks, records, pending, book>>

LimitsMissing == req.fillModel = "limit-touch" /\ ~HasLimits(req.ask.strategy)

\* simulate_fills wants frames that share an index: signals of the whole universe do not
\* share that of a chunk with days of its own.
Misaligned == NeedsUniverse(req.ask.strategy) /\ Head(chunks).days # whole.days

Unrunnable == LimitsMissing \/ Misaligned

Fail == phase = "filling" /\ Unrunnable /\ End("error")

\* The records of a chunk; the last one is followed by the cut to the test window.
RunChunk ==
    /\ phase = "filling" /\ ~Unrunnable
    /\ records' = records \cup UNION {FillColumn(Head(chunks), s) : s \in Cols(Head(chunks))}
    /\ chunks' = Tail(chunks)
    /\ phase' = IF Len(chunks) = 1 THEN "cutting"
                ELSE IF NeedsUniverse(req.ask.strategy) THEN "filling" ELSE "generating"
    /\ UNCHANGED <<tape, signals, pending, book>>

\* kept: the records entered in the test window.
CutWindow ==
    /\ phase = "cutting"
    /\ pending' = {r \in records : r.entry >= First}
    /\ phase' = "booking"
    /\ UNCHANGED <<tape, chunks, signals, records, book>>

-----------------------------------------------------------------------------
(* aggregate_trades: the records in order of their entry days. *)

\* The records of a day are in the order of their chunks, those of a chunk in that of its columns.
PartOf(s) == CHOOSE i \in DOMAIN Parts : s \in Parts[i]
Before(a, b) ==
    \/ a.entry < b.entry
    \/ a.entry = b.entry /\ PartOf(a.symbol) < PartOf(b.symbol)
    \/ a.entry = b.entry /\ PartOf(a.symbol) = PartOf(b.symbol) /\ a.symbol < b.symbol

LastDay == Max(Index)
ExitDay(r) == IF IsOpen(r) THEN LastDay ELSE r.exit

\* The days a booked record is counted open, and those it has a close of its own.
Held(r) == {d \in Index : r.entry < d /\ d <= ExitDay(r)}
Marked(r) == {d \in Held(r) : Known(bars[r.symbol][d].close) \/ d = r.exit}

\* Deviation: a mark compounds from the close of the day before, if there is one.
BaseAcrossNoGap(r, d) ==
    LET e == Max({x \in Day \cup {0} : x < d})
    IN IF e \in Held(r) /\ Known(bars[r.symbol][e].close) THEN bars[r.symbol][e].close ELSE r.entryPx

\* The price a mark compounds from: the last such close, or the entry fill.
Base(r, d) ==
    LET closes == {e \in Held(r) : e < d /\ Priced(bars[r.symbol][e].close)}
    IN IF closes = {} THEN r.entryPx ELSE bars[r.symbol][Max(closes)].close

\* The last mark is pinned to the exit fill, with or without a close.
Mark(r, d) ==
    [of |-> <<r.symbol, r.entry>>, day |-> d, from |-> Base(r, d),
     to |-> IF d = r.exit THEN r.exitPx ELSE bars[r.symbol][d].close]

Opened(r) == IF opened.day = r.entry THEN opened.count ELSE 0

\* Deviation: the entries of the day are not counted.
AtCapForgetsToday(r) == open[r.entry] >= MaxPositions

AtCap(r) == open[r.entry] + Opened(r) >= MaxPositions

Take(r) ==
    /\ phase = "booking"
    /\ r \in pending /\ \A o \in pending : o = r \/ Before(r, o)
    /\ pending' = pending \ {r}
    /\ UNCHANGED <<phase, tape, chunks, signals, records>>

SkipFull(r) ==
    /\ Take(r) /\ AtCap(r)
    /\ refused' = refused \cup {r}
    /\ opened' = [day |-> r.entry, count |-> Opened(r)]
    /\ UNCHANGED <<booked, open, fees, marks>>

\* The entry fee goes to the first day held, the exit fee to the exit day.
Book(r) ==
    /\ Take(r) /\ ~AtCap(r) /\ Held(r) # {}
    /\ booked' = booked \cup {r}
    /\ opened' = [day |-> r.entry, count |-> Opened(r) + 1]
    /\ open' = [d \in Day |-> IF d \in Held(r) THEN open[d] + 1 ELSE open[d]]
    /\ marks' = marks \cup {Mark(r, d) : d \in Marked(r)}
    /\ fees' = [d \in Day |->
                   fees[d] + (IF d = Min(Held(r)) THEN 1 ELSE 0)
                           + (IF d = r.exit THEN 1 ELSE 0)]
    /\ UNCHANGED refused

\* Opened on the last bar: the fee, and the position, are booked to that day.
BookLastBar(r) ==
    /\ Take(r) /\ ~AtCap(r) /\ Held(r) = {}
    /\ booked' = booked \cup {r}
    /\ opened' = [day |-> r.entry, count |-> Opened(r) + 1]
    /\ open' = [open EXCEPT ![r.entry] = @ + 1]
    /\ fees' = [fees EXCEPT ![r.entry] = @ + 1]
    /\ UNCHANGED <<refused, marks>>

\* n_trades counts the closed records only.
Report ==
    /\ phase = "booking" /\ pending = {}
    /\ End(IF \A r \in booked : IsOpen(r) THEN "no_trades" ELSE "done")

Next ==
    \/ Refuse \/ SelectNothing \/ LoadNothing \/ Load
    \/ GenerateSignals \/ Fail \/ RunChunk \/ CutWindow \/ Report
    \/ \E r \in pending : SkipFull(r) \/ Book(r) \/ BookLastBar(r)

Spec == Init /\ [][Next]_vars
-----------------------------------------------------------------------------
(* Properties. *)

Holding == [symbol: Symbol, entry: Day, entryPx: Nat, exit: Day \cup {0}, exitPx: Nat \cup {NaN}]

\* Types (BacktestOutcome, aggregate_trades).
TypeOK ==
    /\ phase \in Ended \cup {"idle", "generating", "filling", "cutting", "booking"}
    /\ req \in Request /\ bars \in History
    /\ records \cup pending \cup booked \cup refused \subseteq Holding
    /\ opened \in [day: Day \cup {0}, count: 0..MaxPositions]
    /\ open \in [Day -> Nat] /\ fees \in [Day -> Nat]
    /\ marks \subseteq [of: Symbol \X Day, day: Day, from: Nat, to: Nat]

\* A price of a bar: its close, or one between its low and its high.
OnBar(bar, px) == px = bar.close \/ (AtMost(bar.low, px) /\ AtMost(px, Top(bar)))

\* The bar lies below a price altogether: it gapped through what rested there.
GappedBelow(bar, px) == AtMost(bar.low, px) /\ ~AtMost(px, Top(bar))

\* A bar has to end what is held above a stop when its low reaches the stop; the close
\* fill is asked this of bars with a close, and prices in order, only.
Ends(bar, stop) ==
    /\ AtMost(bar.low, stop)
    /\ req.fillPrice = "limit" \/ (Priced(bar.close) /\ AtMost(bar.close, Top(bar)))

\* Bought at a price of the bar.  Only an order that rested at a limit may be given a
\* price above everything traded, on a bar that gapped below the limit: it then pays more
\* than a real order would (_limit_fill_prices, "conservative on gap-throughs").
BoughtAt(bar, px) ==
    /\ Priced(px)
    /\ OnBar(bar, px) \/ (req.fillPrice = "limit" /\ GappedBelow(bar, px))

\* Sold at the stop when the bar ends the holding, or under close pricing at the lower one
\* of the stop and the close; else at the close.  Only a stop of a limit fill may be given
\* a price above everything traded, on a bar that gapped below it: better than a real one.
SoldAt(bar, stop, px) ==
    /\ px \in {stop, bar.close}
    /\ OnBar(bar, px) \/ (req.fillPrice = "limit" /\ px = stop /\ GappedBelow(bar, px))
    /\ Ends(bar, stop) =>
           px = IF req.fillPrice = "close" /\ AtMost(bar.close, stop) THEN bar.close ELSE stop

\* A symbol is never held twice, nor bought on the bar it was sold; no holding outlives a
\* bar whose low reached its stop.  Under close pricing every fill is at a price of its
\* bar.  Under limit pricing none is below its bar's low, and one above its high is at a
\* limit, or a stop, that the bar gapped below: nothing else is given a price nobody could
\* have had (simulate_fills, simulate_limit_touch_fills).
FillsAreHonest ==
    \A r \in records :
        LET bar(d) == bars[r.symbol][d]
            stop == StopPrice(r.entryPx)
            later == {d \in Day : d > r.entry /\ d <= req.end}
        IN /\ BoughtAt(bar(r.entry), r.entryPx)
           /\ \A d \in later : IsOpen(r) \/ d < r.exit => ~Ends(bar(d), stop)
           /\ ~IsOpen(r) => r.exit \in later /\ SoldAt(bar(r.exit), stop, r.exitPx)
           /\ \A o \in records : o.symbol = r.symbol /\ o.entry > r.entry =>
                 ~IsOpen(r) /\ r.exit < o.entry

\* The cap is exact: no day counts more than max_positions open, and a record is refused only
\* if max_positions are carried into, through, or opened on its entry day (aggregate_trades,
\* "Chronological cap-sweep").  On the last bar a position opened there is counted twice.
CapIsExact ==
    /\ \A d \in Day : open[d] <= MaxPositions
    /\ \A r \in refused : r.entry < LastDay =>
           Cardinality({b \in booked : r.entry \in Held(b) \/ b.entry = r.entry}) >= MaxPositions

MarksOf(r) == {m \in marks : m.of = <<r.symbol, r.entry>>}
Latest(S) == {m \in S : \A o \in S : o.day <= m.day}

\* The marks of a booked position lead from its entry fill to its exit fill: each compounds from
\* where the last one before it led, unless that was to nothing, and the last one of a position
\* that was sold leads to its exit price.  Each side's fee is booked once and on a day that counts
\* positions open, and every day counts exactly the positions held on it (_book_holding,
\* aggregate_trades).  States are well typed.
BooksBalance ==
    /\ TypeOK
    /\ \A r \in booked :
          /\ \A m \in MarksOf(r) :
                LET before == {o \in MarksOf(r) : o.day < m.day /\ o.to # 0}
                IN {m.from} = IF before = {} THEN {r.entryPx} ELSE {o.to : o \in Latest(before)}
          /\ ~IsOpen(r) => {m.to : m \in Latest(MarksOf(r))} = {r.exitPx}
    /\ SumFunctionOnSet(fees, Day) =
          Cardinality(booked) + Cardinality({r \in booked : ~IsOpen(r)})
    /\ \A d \in Day :
          /\ fees[d] > 0 => open[d] > 0
          /\ open[d] = Cardinality({r \in booked : d \in Held(r) \/ (d = LastDay /\ d = r.entry)})

Prefix(f, n) ==
    LET cut(part) == [s \in DOMAIN part |-> SubSeq(part[s], 1, n)]
    IN [days |-> SubSeq(f.days, 1, n),
        close |-> cut(f.close), high |-> cut(f.high), low |-> cut(f.low)]

\* What the signals were generated from.
Seen == IF NeedsUniverse(req.ask.strategy) THEN whole ELSE Head(chunks)

\* What a strategy says of a row depends on no later row: without the last row of the history
\* it says the same of the others (the promise nopeek.py audits the strategies for).
SignalsNeverPeek ==
    phase = "filling" /\ Len(Seen.days) > 1 =>
        LET n == Len(Seen.days) - 1
            cut == Generate(req.ask.strategy, Prefix(Seen, n), Benchmark, First)
        IN Seen.days[n] >= First =>
              /\ cut.entry = {x \in signals.entry : x[2] <= n}
              /\ cut.exit = {x \in signals.exit : x[2] <= n}

\* From the start of the test window on, momentum-rotation's signals lead on every scheduled
\* row to the names it wants there, whatever it held during the warm-up, and never ask to buy
\* and sell a name on one row (MomentumRotationStrategy.generate).
RotationIsFollowed ==
    phase = "filling" /\ req.ask.strategy = "momentum-rotation" =>
        LET seed == SeedRow(whole, First)
            gate == Gate(whole, Benchmark, FALSE)
            held(i) == {s \in Cols(whole) : \E k \in seed..i :
                           <<s, k>> \in signals.entry /\ \A j \in k..i : <<s, j>> \notin signals.exit}
        IN \A i \in Schedule(whole, First) : seed # 0 /\ i >= seed => held(i) = Target(whole, gate, i)
=============================================================================
