------------------------------- MODULE Screens -------------------------------
(***************************************************************************)
(* The reports mrmkt makes from stored bars: screen (command/screen.py),   *)
(* signals current (signals_current.py), prices freshness                  *)
(* (prices_freshness.py) and ranges (ranges.py).  A report is a function   *)
(* of the universe, the bars and the query.  bars[s] is the sequence of    *)
(* the bars of s, oldest first; a query's asOf of 0 asks for the newest    *)
(* bar and its top of 0 for every row.  Windows and moving averages are    *)
(* those of Strategies: Short stands for the 63-day windows and Trail for  *)
(* the momentum lookback.                                                  *)
(***************************************************************************)
EXTENDS StrategyRegistry

CONSTANTS
    RangeBars,  \* MIN_BARS of ranges
    Weekend     \* the days that are no business days

\* A formation floor leaves enough bars for the short average (PULLBACK_PERIOD, MOM_LOOKBACK).
ASSUME ScreenAssumption == Pullback <= Trail + Skip + 1

NoRow == <<>>
UpTo(x, day) == Sub(x, {i \in DOMAIN x : x[i].day <= day})
Closes(x) == [i \in DOMAIN x |-> x[i].close]
DaysIn(bars, universe) == UNION {{b.day : b \in ToSet(bars[s])} : s \in universe}
Newest(days) == IF days = {} THEN 0 ELSE Max(days)

\* The query's date, or the newest bar of the universe; 0 when it has none.
AsOf(bars, universe, q) == IF q.asOf # 0 THEN q.asOf ELSE Newest(DaysIn(bars, universe))

\* Deviation: the rows are cut from the end.
CutLast(rows, top) ==
    IF top = 0 \/ top >= Len(rows) THEN rows ELSE SubSeq(rows, Len(rows) - top + 1, Len(rows))

Cut(rows, top) == IF top = 0 \/ top >= Len(rows) THEN rows ELSE SubSeq(rows, 1, top)

Failed(status) == [status |-> status]

-----------------------------------------------------------------------------
(* screen: rank the universe by momentum, trend, pullback and calm.        *)

\* Formation floors; min_bars can only raise them.
Floor(q) == Max({q.minBars, Trail + Skip + 1, Long})

Median(values) ==
    LET sorted == SortSeq(values, <)
        n == Len(values)
    IN (sorted[(n + 1) \div 2] + sorted[n \div 2 + 1]) \div 2

DollarVolume(x) ==
    LET recent == SubSeq(x, Len(x) - Short + 1, Len(x))
    IN Median([i \in DOMAIN recent |-> recent[i].close * recent[i].volume])

\* Why a symbol is left out; "none" when it is a candidate.  x are its bars up to asOf.
Excluded(x, asOf, q) ==
    IF Len(x) < Floor(q) THEN "short_history"
    ELSE IF asOf - Last(x).day > q.maxStale THEN "stale"
    ELSE IF Last(x).close < q.minPrice THEN "min_price"
    ELSE IF DollarVolume(x) < q.minDollarVol THEN "min_dollar_vol"
    ELSE IF \E i \in DOMAIN x : x[i].close <= 0 THEN "vol_unavailable"
    ELSE "none"

\* The close that momentum divides by, read before the volatility is.
MomentumBase(x) == x[Len(x) - Skip - Trail].close
Divides(x, asOf, q) == Excluded(x, asOf, q) \in {"none", "vol_unavailable"}

\* The gap below the short average as a share of its cap, in percent.
Depth(close, average) ==
    IF average = 0 THEN 0 ELSE Max({0, Min({100, (1000 * (average - close)) \div average})})

Candidate(s, x) ==
    LET c == Closes(x)
        n == Len(x)
        above == {p \in {Short, Long} : c[n] > Mean(c, n, p)}
    IN [symbol |-> s, day |-> x[n].day, close |-> c[n],
        momentum |-> (100 * x[n - Skip].close) \div MomentumBase(x),
        vol |-> Swing(c, n, Short), trend |-> Cardinality(above),
        depth |-> Depth(c[n], Mean(c, n, Pullback))]

\* Twice the mean rank among the candidates, from 0; ties share it (_pct_rank).
TiedRank(candidates, r, by) ==
    2 * Cardinality({o \in candidates : o[by] < r[by]})
        + Cardinality({o \in candidates : o[by] = r[by]}) - 1

\* The weighted score, times 4000 and the highest rank.
Score(candidates, r) ==
    LET top == Max({Cardinality(candidates) - 1, 1})
    IN 800 * TiedRank(candidates, r, "momentum")
       + 500 * r.trend * top + 8 * r.depth * top
       + 600 * top - 300 * TiedRank(candidates, r, "vol")

Ranked(candidates) ==
    LET score == [r \in candidates |-> Score(candidates, r)]
        ahead(r) == {o \in candidates :
                        score[o] > score[r] \/ (score[o] = score[r] /\ o.symbol < r.symbol)}
    IN [i \in 1..Cardinality(candidates) |->
            CHOOSE r \in candidates : Cardinality(ahead(r)) = i - 1]

Reasons == {"short_history", "stale", "min_price", "min_dollar_vol", "vol_unavailable"}

\* Which questions are answered; a top of 0 and a maxStale of 0 or more stand for options left out.
ScreenAccepts(q) ==
    /\ q.mode = "technical-only"
    /\ \A least \in {q.minPrice, q.minDollarVol, q.minBars, q.maxStale, q.top} : least >= 0
    /\ q.asOf >= 0

Screen(bars, universe, q) ==
    LET asOf == AsOf(bars, universe, q)
        x == [s \in universe |-> UpTo(bars[s], asOf)]
        out(reason) == {s \in universe : Excluded(x[s], asOf, q) = reason}
    IN IF q.asOf = 0 /\ asOf = 0 THEN
          [status |-> "success", asOf |-> 0, vintage |-> 0, size |-> 0,
           excluded |-> [r \in Reasons |-> 0], rows |-> NoRow]
       ELSE IF \E s \in universe : Divides(x[s], asOf, q) /\ MomentumBase(x[s]) = 0 THEN
          Failed("error")
       ELSE
          [status |-> "success", asOf |-> asOf, vintage |-> Newest(DaysIn(x, universe)),
           size |-> Cardinality(universe),
           excluded |-> [r \in Reasons |-> Cardinality(out(r))],
           rows |-> Cut(Ranked({Candidate(s, x[s]) : s \in out("none")}), q.top)]

-----------------------------------------------------------------------------
(* signals current: what a strategy says of the newest row. *)

\* The columns are the symbols with a bar, the rows all days any of them has one.
FrameOf(x) ==
    LET cols == {s \in DOMAIN x : x[s] # <<>>}
        days == Ascending(DaysIn(x, cols))
        at(s, d, part(_)) ==
            LET found == {b \in ToSet(x[s]) : b.day = d}
            IN IF found = {} THEN NaN ELSE part(CHOOSE b \in found : TRUE)
        column(part(_)) == [s \in cols |-> [i \in DOMAIN days |-> at(s, days[i], part)]]
    IN [cols |-> Ascending(cols), days |-> days, close |-> column(LAMBDA b : b.close),
        high |-> column(LAMBDA b : b.high), low |-> column(LAMBDA b : b.low)]

\* _load_benchmark
BenchmarkOf(x) == [d \in {b.day : b \in ToSet(x)} |-> (CHOOSE b \in ToSet(x) : b.day = d).close]

\* The legs of buy-red's entry that are known to hold on a row; a buy level of 0 shows none.
BuyRedLegs(f, s, i) ==
    LET c == f.close[s]
    IN {leg \in {"above_fast", "above_slow", "dist_lo_ok", "drawdown_ok", "vov_ok", "touch_ok"} :
            CASE leg = "above_fast" -> Above(c[i], Mean(c, i, Short))
              [] leg = "vov_ok" -> UseVov /\ Compressed(c, i)
              [] leg = "above_slow" -> Above(c[i], Mean(c, i, Long))
              [] leg = "dist_lo_ok" -> Known(c[i]) /\ Known(Lowest(c, i, Trail))
                                         /\ 100 * c[i] > 110 * Lowest(c, i, Trail)
              [] leg = "drawdown_ok" -> Shallow(c, i)
              [] leg = "touch_ok" -> /\ Known(f.low[s][i])
                                     /\ BuyLevel(c, i) # 0 /\ AtMost(f.low[s][i], BuyLevel(c, i))}

\* At or below an average that has a distance to it.
Distant(c, i) == Mean(c, i, Pullback) # 0 /\ AtMost(c[i], Mean(c, i, Pullback))

\* Deviation: the trend is read a row late.
PullbackLegsLate(f, gate, s, i) ==
    LET c == f.close[s]
        trend(k) == Mean(c, k, Long)
    IN {leg \in {"gate", "above_slow", "above_fast", "mom_rank", "pullback_dist"} :
            CASE leg = "gate" -> i \in gate
              [] leg = "above_slow" -> Above(c[i], trend(i - 1))
              [] leg = "above_fast" -> Above(trend(i), trend(i - Rising))
              [] leg = "mom_rank" -> InTopThird(f, s, i)
              [] leg = "pullback_dist" -> Distant(c, i)}

\* Those of trend-pullback; its recovery over the day before is not shown.
PullbackLegs(f, gate, s, i) ==
    LET c == f.close[s]
        trend(k) == Mean(c, k, Long)
    IN {leg \in {"gate", "above_slow", "above_fast", "mom_rank", "pullback_dist"} :
            CASE leg = "gate" -> i \in gate
              [] leg = "above_slow" -> Above(c[i], trend(i))
              [] leg = "above_fast" -> Above(trend(i), trend(i - Rising))
              [] leg = "mom_rank" -> InTopThird(f, s, i)
              [] leg = "pullback_dist" -> Distant(c, i)}

\* A row without asOf has no attribution.
Legs(strategy, f, benchmark, asOf, s) ==
    LET i == Len(f.days)
    IN IF f.days[i] # asOf THEN {}
       ELSE CASE strategy = "buy-red" -> BuyRedLegs(f, s, i)
              [] strategy = "trend-pullback" -> PullbackLegs(f, Gate(f, benchmark, FALSE), s, i)
              [] OTHER -> {}

\* The newest row counts only for a symbol with a bar of its own on asOf; an entry hides an exit.
SignalStatus(signals, f, asOf, s) ==
    LET i == Len(f.days)
    IN IF f.days[i] # asOf \/ ~Known(f.close[s][i]) THEN "neutral"
       ELSE IF <<s, i>> \in signals.entry THEN "entry_signal"
       ELSE IF <<s, i>> \in signals.exit THEN "exit_signal"
       ELSE "neutral"

LastOf(cells, f, s) == Newest({f.days[x[2]] : x \in {y \in cells : y[1] = s}})

SignalRow(strategy, signals, f, benchmark, asOf, s) ==
    LET known == {i \in Rows(f) : Known(f.close[s][i])}
    IN [symbol |-> s, day |-> f.days[Max(known)], close |-> f.close[s][Max(known)],
        status |-> SignalStatus(signals, f, asOf, s),
        lastEntry |-> LastOf(signals.entry, f, s), lastExit |-> LastOf(signals.exit, f, s),
        nBars |-> Cardinality(known), legs |-> Legs(strategy, f, benchmark, asOf, s)]

\* The benchmark is context: it is scored only when asked for.
Scored(universe, q) == IF q.includeBenchmark THEN universe ELSE universe \ {q.benchmark}

\* The attribution of momentum-rotation looks a rank of symbols up by date.
RankIsMissing(strategy, f, asOf) == strategy = "momentum-rotation" /\ asOf \in ToSet(f.days)

SignalsAccepts(q) == q.top >= 0 /\ q.asOf >= 0 /\ Built(q.ask)

\* Without --as-of an empty universe lacks required arguments of its answer.
Signals(bars, universe, q) ==
    LET scored == Scored(universe, q)
        asOf == AsOf(bars, scored, q)
        x == [s \in scored |-> UpTo(bars[s], asOf)]
        f == FrameOf(x)
        benchmark == IF q.benchmark = 0 THEN <<>> ELSE BenchmarkOf(UpTo(bars[q.benchmark], asOf))
        signals == Generate(q.ask.strategy, f, benchmark, asOf + 1)
        rows == [i \in DOMAIN f.cols |->
                    SignalRow(q.ask.strategy, signals, f, benchmark, asOf, f.cols[i])]
    IN IF asOf = 0 THEN Failed("error")
       ELSE IF f.cols = <<>> THEN
          [status |-> "success", asOf |-> asOf, vintage |-> 0,
           size |-> Cardinality(scored), rows |-> NoRow]
       ELSE IF RankIsMissing(q.ask.strategy, f, asOf) THEN Failed("error")
       ELSE [status |-> "success", asOf |-> asOf,
             vintage |-> Newest({r.day : r \in ToSet(rows)}),
             size |-> Cardinality(scored), rows |-> Cut(rows, q.top)]

-----------------------------------------------------------------------------
(* ranges: one risk range per symbol that has the bars for it. *)

Rangeable(x) == Len(x) >= RangeBars /\ \A i \in DOMAIN x : x[i].close > 0

\* Symbols or tags are named; without, there is nothing to report.
RangesAccepts(cmd) == (cmd.explicit # {} \/ cmd.include # <<>>) /\ cmd.query.asOf >= 0

Ranges(bars, wanted, q) ==
    LET asOf == AsOf(bars, wanted, q)
        x == [s \in wanted |-> UpTo(bars[s], asOf)]
        row(s) == [symbol |-> s, day |-> Last(x[s]).day, close |-> Last(x[s]).close,
                   low |-> BuyLevel(Closes(x[s]), Len(x[s])),
                   high |-> SellLevel(Closes(x[s]), Len(x[s])), nBars |-> Len(x[s])]
        found == Ascending({s \in wanted : Rangeable(x[s])})
        rows == [i \in DOMAIN found |-> row(found[i])]
    IN [status |-> "success", asOf |-> asOf, vintage |-> Newest({r.day : r \in ToSet(rows)}),
        size |-> Cardinality(wanted), rows |-> rows]

-----------------------------------------------------------------------------
(* prices freshness: what looks wrong with the stored bars. *)

\* The business days from the first bar of the window to the last bar.
Expected(x, start) == (Max({x[1].day, start})..Last(x).day) \ Weekend

BadBar(b) ==
    \/ b.high < b.low
    \/ ~(b.low <= b.close /\ b.close <= b.high)
    \/ ~(b.low <= b.open /\ b.open <= b.high)
    \/ Min({b.open, b.high, b.low, b.close}) <= 0

\* A bar that opens away from the close before it, in percent.
Jumps(window, threshold) ==
    \E i \in 2..Len(window) :
        LET before == window[i - 1].close
            gap == window[i].open - before
        IN before > 0 /\ window[i].open > 0 /\ 100 * Max({gap, -gap}) >= threshold * before

FlagNames == {"NO_BARS", "STALE", "GAPS", "OHLC_VIOLATION", "ZERO_VOLUME", "NEGATIVE_VOLUME",
              "GAP_JUMP_HEURISTIC"}

\* x are the bars of s up to today.
FreshnessRow(s, x, q) ==
    LET start == q.today - q.lookback
        window == SelectSeq(x, LAMBDA b : b.day >= start)
        missing == Expected(x, start) \ {b.day : b \in ToSet(window)}
        some(Test(_)) == \E b \in ToSet(window) : Test(b)
        raised(flag) ==
            CASE flag = "NO_BARS" -> FALSE
              [] flag = "STALE" -> q.today - Last(x).day > q.staleAfter
              [] flag = "GAPS" -> missing # {}
              [] flag = "OHLC_VIOLATION" -> some(BadBar)
              [] flag = "ZERO_VOLUME" -> some(LAMBDA b : b.volume = 0)
              [] flag = "NEGATIVE_VOLUME" -> some(LAMBDA b : b.volume < 0)
              [] flag = "GAP_JUMP_HEURISTIC" -> Jumps(window, q.gapThreshold)
    IN IF x = <<>> THEN [symbol |-> s, nBars |-> 0, expected |-> 0, missing |-> 0, flags |-> {"NO_BARS"}]
       ELSE [symbol |-> s, nBars |-> Len(x), expected |-> Cardinality(Expected(x, start)),
             missing |-> Cardinality(missing), flags |-> {g \in FlagNames : raised(g)}]

FreshnessAccepts(q) == q.lookback >= 1 /\ q.staleAfter >= 0 /\ q.gapThreshold > 0

Freshness(bars, universe, q) ==
    LET order == Ascending(universe)
    IN [status |-> "success", size |-> Cardinality(universe),
        rows |-> [i \in DOMAIN order |-> FreshnessRow(order[i], UpTo(bars[order[i]], q.today), q)]]
=============================================================================
