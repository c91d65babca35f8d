----------------------------- MODULE Strategies -----------------------------
(***************************************************************************)
(* mrmkt's backtest strategies (src/mrmkt/backtest/strategy, signals.py):  *)
(* which cells of a price frame are entries and exits.  A frame f has the  *)
(* days of its rows and, per column (symbol), the sequences f.close[s],    *)
(* f.high[s] and f.low[s]; a day the symbol has no bar is a row of NaN.    *)
(* Prices are natural numbers; standard deviations of log returns are      *)
(* modelled by the swing of the closes over the same window.               *)
(***************************************************************************)
EXTENDS Integers, Sequences, FiniteSets, SequencesExt

CONSTANTS
    Short,      \* fast_period, trend_fast, anchor_period, vol_period
    Long,       \* slow_period, trend_slow, trend_sma, market_sma
    Pullback,   \* pullback_period
    Rising,     \* rising_bars
    Trail,      \* trail, trail_lookback, mom_lookback
    Skip,       \* mom_skip
    HoldDays,   \* hold_days
    TopN,       \* top_n
    Rebalance,  \* rebalance_days
    Fallback,   \* benchmark_fallback
    UseVov,     \* use_vov
    VovLookback, VovMax  \* vov_lookback, vov_max

ASSUME StrategyAssumption ==
    /\ {Short, Long, Pullback, Rising, Trail, HoldDays, TopN, Rebalance,
        VovLookback} \subseteq Nat \ {0}
    /\ Skip \in 0..(Trail - 1)
    /\ Fallback \in {"universe", "none"}
    /\ UseVov \in BOOLEAN /\ VovMax \in 0..100

NaN == -1
Cols(f) == DOMAIN f.close
Rows(f) == DOMAIN f.days

-----------------------------------------------------------------------------
(* Columns of numbers with gaps.  A comparison with NaN is false. *)

Known(a) == a # NaN
Above(a, b) == Known(a) /\ Known(b) /\ a > b
AtMost(a, b) == Known(a) /\ Known(b) /\ a <= b

\* The members of a set of numbers in ascending order, and the elements of a sequence at a
\* set of positions.  (SortSeq, which SetToSortSeq needs, has no definition to reason from.)
Ascending(S) ==
    [i \in 1..Cardinality(S) |-> CHOOSE x \in S : Cardinality({y \in S : y < x}) = i - 1]
Sub(x, at) == LET rows == Ascending(at) IN [k \in DOMAIN rows |-> x[rows[k]]]

Shift(x, i, n) == IF i - n \in DOMAIN x THEN x[i - n] ELSE NaN
Window(x, i, n) == SubSeq(x, i - n + 1, i)
Full(x, i, n) == i >= n /\ \A v \in ToSet(Window(x, i, n)) : Known(v)

Sum(x) == FoldLeft(LAMBDA a, b : a + b, 0, x)
Mean(x, i, n) == IF Full(x, i, n) THEN Sum(Window(x, i, n)) \div n ELSE NaN
Lowest(x, i, n) == IF Full(x, i, n) THEN Min(ToSet(Window(x, i, n))) ELSE NaN
Highest(x, i, n) == IF Full(x, i, n) THEN Max(ToSet(Window(x, i, n))) ELSE NaN

\* n returns need n + 1 closes, and the logarithm of 0 spoils the deviation.
Swing(x, i, n) ==
    IF Lowest(x, i, n + 1) > 0 THEN Highest(x, i, n + 1) - Lowest(x, i, n + 1) ELSE NaN

\* In percent; a division by 0 is not an error in a frame.
Infinite == 1000
Return(x, i, n) ==
    LET base == Shift(x, i, n)
    IN IF ~Known(x[i]) \/ ~Known(base) \/ (base = 0 /\ x[i] = 0) THEN NaN
       ELSE IF base = 0 THEN Infinite
       ELSE (100 * x[i]) \div base

-----------------------------------------------------------------------------
(* sma-cross and naive-dip look at one column. *)

CrossEntry(c, i) ==
    /\ Known(c[i])
    /\ Above(Mean(c, i, Short), Mean(c, i, Long))
    /\ AtMost(Mean(c, i - 1, Short), Mean(c, i - 1, Long))

CrossExit(c, i) ==
    /\ Known(c[i])
    /\ Above(Mean(c, i, Long), Mean(c, i, Short))
    /\ AtMost(Mean(c, i - 1, Long), Mean(c, i - 1, Short))

\* Deviation: the trailing window is a row ahead.
DipEntryPeeks(c, i) ==
    LET peak == Highest(c, Min({i + 1, Len(c)}), Trail)
    IN Known(peak) /\ Known(c[i]) /\ 100 * c[i] <= 95 * peak

DipEntry(c, i) ==
    LET peak == Highest(c, i, Trail) IN Known(peak) /\ 100 * c[i] <= 95 * peak

DipExit(c, i) ==
    \/ i > HoldDays /\ DipEntry(c, i - HoldDays)
    \/ LET trough == Lowest(c, i, Trail) IN Known(trough) /\ 100 * c[i] >= 105 * trough

-----------------------------------------------------------------------------
(* buy-red: an uptrend whose low touches the bottom of the risk range. *)

HalfWidth(c, i) == Swing(c, i, Short) \div 2

\* No price reaches a level below 0.
Unreachable == -2
BuyLevel(c, i) ==
    LET level == Mean(c, i, Short) - HalfWidth(c, i)
    IN IF ~Known(Swing(c, i, Short)) THEN NaN ELSE IF level < 0 THEN Unreachable ELSE level
SellLevel(c, i) == IF Known(Swing(c, i, Short)) THEN Mean(c, i, Short) + HalfWidth(c, i) ELSE NaN

\* The peak and the drawdown are taken over whatever the window holds (min_periods=1).
Shallow(c, i) ==
    \A k \in Max({1, i - Trail + 1})..i :
        \A p \in Max({1, k - Trail + 1})..k : Known(c[k]) => 100 * c[k] > 65 * c[p]

\* How much the volatility itself swings, in percent of the values before it that are
\* lower; unknown while any of them is.
VolOfVol(c) ==
    LET vol == [k \in DOMAIN c |-> Swing(c, k, Short)] IN [k \in DOMAIN c |-> Swing(vol, k, Short)]

VovRank(c, i) ==
    LET vov == VolOfVol(c)
    IN IF ~Full(vov, i, VovLookback + 1) THEN NaN
       ELSE (100 * Cardinality({k \in (i - VovLookback)..(i - 1) : vov[k] < vov[i]})) \div VovLookback

Compressed(c, i) == AtMost(VovRank(c, i), VovMax)

BuyRedEntry(f, s, i) ==
    LET c == f.close[s] IN
    /\ Above(c[i], Mean(c, i, Short))
    /\ Above(c[i], Mean(c, i, Long))
    /\ Known(Lowest(c, i, Trail)) /\ 100 * c[i] > 110 * Lowest(c, i, Trail)
    /\ Shallow(c, i)
    /\ AtMost(f.low[s][i], BuyLevel(c, i))
    /\ UseVov => Compressed(c, i)

BuyRedExit(f, s, i) ==
    LET c == f.close[s] IN
    /\ Known(c[i]) /\ Known(Mean(c, i, Short)) /\ Known(SellLevel(c, i))
    /\ AtMost(SellLevel(c, i), f.high[s][i]) \/ Above(Mean(c, i, Short), c[i])

-----------------------------------------------------------------------------
(* The market gate: the benchmark, or an equal-weight index of the columns. *)

\* The mean of the columns' returns on a row, in percent; 100 without coverage.
RowReturn(f, i) ==
    LET covered == {s \in Cols(f) : Return(f.close[s], i, 1) \notin {NaN, Infinite}}
    IN IF covered = {} THEN 100
       ELSE SumFunctionOnSet([s \in covered |-> Return(f.close[s], i, 1)], covered) \div Cardinality(covered)

EqualWeightIndex(f) ==
    LET level[i \in 0..Len(f.days)] == IF i = 0 THEN 10000 ELSE (level[i - 1] * RowReturn(f, i)) \div 100
    IN [i \in Rows(f) |-> level[i]]

\* The last known benchmark close of each row's day.
FilledBenchmark(f, benchmark) ==
    LET known(i) == {k \in 1..i : f.days[k] \in DOMAIN benchmark}
    IN [i \in Rows(f) |-> IF known(i) = {} THEN NaN ELSE benchmark[f.days[Max(known(i))]]]

Gate(f, benchmark, rising) ==
    LET market == IF DOMAIN benchmark # {} THEN FilledBenchmark(f, benchmark)
                  ELSE EqualWeightIndex(f)
        sma == [i \in Rows(f) |-> Mean(market, i, Long)]
    IN IF DOMAIN benchmark = {} /\ Fallback = "none" THEN Rows(f)
       ELSE {i \in Rows(f) : /\ Above(market[i], sma[i])
                             /\ rising => Above(sma[i], Shift(sma, i, Rising))}

Momentum(c, i) ==
    IF i > Skip /\ Known(c[i - Skip]) THEN Return(c, i - Skip, Trail - Skip) ELSE NaN

-----------------------------------------------------------------------------
(* trend-pullback: the leaders of the universe, back at their short average. *)

\* In the top third of the columns by momentum; a tie shares its mean rank.
InTopThird(f, s, i) ==
    LET mom(t) == Momentum(f.close[t], i)
        ranked == {t \in Cols(f) : Known(mom(t))}
        below == {t \in ranked : mom(t) < mom(s)}
        level == {t \in ranked : mom(t) = mom(s)}
    IN s \in ranked /\ 3 * (2 * Cardinality(below) + Cardinality(level) + 1) >= 4 * Cardinality(ranked)

PullbackEntry(f, s, i) ==
    LET c == f.close[s] IN
    /\ Above(c[i], Mean(c, i, Long))
    /\ Above(Mean(c, i, Long), Mean(c, i - Rising, Long))
    /\ InTopThird(f, s, i)
    /\ AtMost(c[i], Mean(c, i, Pullback))
    /\ i > 1 /\ Above(c[i], f.high[s][i - 1])

PullbackExit(c, i) == Above(Mean(c, i, Long), c[i])

-----------------------------------------------------------------------------
(* momentum-rotation: hold the strongest names, rebalanced on a schedule.   *)

Tradable(f, i) == {s \in Cols(f) : Known(f.close[s][i]) /\ Known(Momentum(f.close[s], i))}

\* Ties go to the name that is last in the alphabet, as sorted() leaves it.
Wanted(f, i) ==
    LET mom(s) == Momentum(f.close[s], i)
        ahead(s) == {t \in Tradable(f, i) : mom(t) > mom(s) \/ (mom(t) = mom(s) /\ t > s)}
    IN {s \in Tradable(f, i) : Cardinality(ahead(s)) < TopN}

\* The first row on or after the start of the test window; 0 when there is none.
SeedRow(f, start) ==
    LET rows == {i \in Rows(f) : f.days[i] >= start} IN IF rows = {} THEN 0 ELSE Min(rows)

Schedule(f, start) ==
    {i \in Rows(f) : (i - 1) % Rebalance = 0} \cup ({SeedRow(f, start)} \ {0})

Target(f, gate, i) == IF i \in gate THEN Wanted(f, i) ELSE {}

\* Deviation: the positions of the warm-up are kept at the start of the test window.
RebalancedFromWarmup(f, gate, seed, plan, i) ==
    LET wanted == Target(f, gate, i)
    IN [held |-> wanted,
        entry |-> plan.entry \cup ((wanted \ plan.held) \X {i}),
        exit |-> plan.exit \cup ((plan.held \ wanted) \X {i})]

\* One rebalance: the positions of the warm-up never entered the test portfolio.
Rebalanced(f, gate, seed, plan, i) ==
    LET held == IF i = seed THEN {} ELSE plan.held
        wanted == Target(f, gate, i)
    IN [held |-> wanted,
        entry |-> plan.entry \cup ((wanted \ held) \X {i}),
        exit |-> plan.exit \cup ((held \ wanted) \X {i})]

\* The plan after each row.
RotationPlans(f, gate, start) ==
    LET plan[i \in 0..Len(f.days)] ==
            IF i = 0 THEN [held |-> {}, entry |-> {}, exit |-> {}]
            ELSE IF i \in Schedule(f, start)
                 THEN Rebalanced(f, gate, SeedRow(f, start), plan[i - 1], i)
            ELSE plan[i - 1]
    IN plan

RotationPlan(f, gate, start) ==
    LET plan == RotationPlans(f, gate, start)[Len(f.days)]
    IN [entry |-> {x \in plan.entry : x[2] >= SeedRow(f, start)}, exit |-> plan.exit]

-----------------------------------------------------------------------------
(* StrategyRunner's view of a strategy. *)

NeedsUniverse(strategy) == strategy \in {"trend-pullback", "momentum-rotation"}
HasLimits(strategy) == strategy = "buy-red"

Cells(f, Test(_, _)) == {x \in Cols(f) \X Rows(f) : Test(x[1], x[2])}

\* The entries and exits of a frame, as pairs of a column and a row.
Generate(strategy, f, benchmark, start) ==
    CASE strategy = "sma-cross" ->
            [entry |-> Cells(f, LAMBDA s, i : CrossEntry(f.close[s], i)),
             exit |-> Cells(f, LAMBDA s, i : CrossExit(f.close[s], i))]
      [] strategy = "naive-dip" ->
            [entry |-> Cells(f, LAMBDA s, i : DipEntry(f.close[s], i)),
             exit |-> Cells(f, LAMBDA s, i : DipExit(f.close[s], i))]
      [] strategy = "buy-red" ->
            [entry |-> Cells(f, LAMBDA s, i : BuyRedEntry(f, s, i)),
             exit |-> Cells(f, LAMBDA s, i : BuyRedExit(f, s, i))]
      [] strategy = "trend-pullback" ->
            LET gate == Gate(f, benchmark, FALSE)
            IN [entry |-> Cells(f, LAMBDA s, i : i \in gate /\ PullbackEntry(f, s, i)),
                exit |-> Cells(f, LAMBDA s, i : PullbackExit(f.close[s], i))]
      [] strategy = "momentum-rotation" ->
            RotationPlan(f, Gate(f, benchmark, FALSE), start)
=============================================================================
