--------------------------- MODULE StrategyRegistry ---------------------------
(***************************************************************************)
(* Building a strategy from what a command line asks for                   *)
(* (src/mrmkt/backtest/strategy/registry.py): an ask names the strategy,   *)
(* gives its parameters as k=v pairs and may name a file that registers    *)
(* strategies of its own.  A parameter is a sequence: <<v>> for a value,   *)
(* <<>> for text that is none of its type.                                 *)
(***************************************************************************)
EXTENDS Strategies

-----------------------------------------------------------------------------
(* The parameters of each strategy: their names, the values this instance  *)
(* gives them, and the values a strategy accepts.                          *)

SmaCrossParams == [fast_period |-> Short, slow_period |-> Long]
SmaCrossAccepts(p) == 1 <= p.fast_period /\ p.fast_period < p.slow_period

NaiveDipParams == [dip_pct |-> 5, rip_pct |-> 5, trail |-> Trail, hold_days |-> HoldDays]
NaiveDipAccepts(p) ==
    p.dip_pct \in 1..99 /\ p.rip_pct > 0 /\ p.trail >= 2 /\ p.hold_days >= 1

\* BacktestParams checks nothing.
BuyRedParams ==
    [width |-> 1, vol_period |-> Short, anchor_period |-> Short, horizon_days |-> 1,
     trend_fast |-> Short, trend_slow |-> Long, dist_lo_min |-> 10, dd_max |-> 35,
     vov_max |-> VovMax, use_vov |-> UseVov, vov_lookback |-> VovLookback, trail_lookback |-> Trail]

PullbackParams ==
    [market_sma |-> Long, require_rising |-> FALSE, rising_bars |-> Rising,
     benchmark_fallback |-> Fallback, trend_sma |-> Long, mom_lookback |-> Trail, mom_skip |-> Skip,
     momentum_top_share |-> 33, pullback_period |-> Pullback, pullback_tol |-> 0,
     recovery_bars |-> 1, exit_mode |-> "trend", width |-> 1, vol_period |-> Short,
     anchor_period |-> Short, horizon_days |-> 1]
PullbackAccepts(p) ==
    /\ p.exit_mode \in {"trend", "range"}
    /\ p.benchmark_fallback \in {"universe", "none"}
    /\ p.momentum_top_share \in 1..100
    /\ p.recovery_bars \in 0..1

RotationParams ==
    [mom_lookback |-> Trail, mom_skip |-> Skip, top_n |-> TopN, rebalance_days |-> Rebalance,
     market_sma |-> Long, use_gate |-> TRUE, benchmark_fallback |-> Fallback,
     require_trend |-> FALSE, trend_sma |-> Long, rising_bars |-> Rising]
RotationAccepts(p) ==
    /\ 0 <= p.mom_skip /\ p.mom_skip < p.mom_lookback
    /\ p.top_n >= 1 /\ p.rebalance_days >= 1
    /\ p.benchmark_fallback \in {"universe", "none"}

-----------------------------------------------------------------------------

\* The strategies of the package, registered when it is imported.
Builtin == {"sma-cross", "naive-dip", "buy-red", "trend-pullback", "momentum-rotation"}

Params(strategy) ==
    CASE strategy = "sma-cross" -> SmaCrossParams
      [] strategy = "naive-dip" -> NaiveDipParams
      [] strategy = "buy-red" -> BuyRedParams
      [] strategy = "trend-pullback" -> PullbackParams
      [] strategy = "momentum-rotation" -> RotationParams

Accepts(strategy, p) ==
    CASE strategy = "sma-cross" -> SmaCrossAccepts(p)
      [] strategy = "naive-dip" -> NaiveDipAccepts(p)
      [] strategy = "buy-red" -> TRUE
      [] strategy = "trend-pullback" -> PullbackAccepts(p)
      [] strategy = "momentum-rotation" -> RotationAccepts(p)

\* A file is executed; it must register something, and nothing that is registered
\* already.  What a failing one had registered is taken back.
FileLoads(file) ==
    file.exists /\ ~file.raises /\ file.names # {} /\ file.names \cap Builtin = {}

NoFile == [exists |-> FALSE, raises |-> FALSE, names |-> {}]

\* k=v,k2=v2: every chunk has a key and a value.
Parsed(ask) == ask.text = "k=v"

Given(ask) == {k \in DOMAIN ask.params : ask.params[k] # <<>>}
Chosen(ask) ==
    [k \in DOMAIN Params(ask.strategy) |->
        IF k \in Given(ask) THEN Head(ask.params[k]) ELSE Params(ask.strategy)[k]]

\* build_strategy: a known name, known parameters, values of their types, and a
\* constructor that accepts them.
Builds(ask) ==
    /\ ask.strategy \in Builtin
    /\ DOMAIN ask.params \subseteq DOMAIN Params(ask.strategy)
    /\ DOMAIN ask.params = Given(ask)
    /\ Accepts(ask.strategy, Chosen(ask))

Built(ask) == (ask.file # NoFile => FileLoads(ask.file)) /\ Parsed(ask) /\ Builds(ask)

\* A request for the parameters of this instance.
Plain(strategy) == [strategy |-> strategy, file |-> NoFile, text |-> "k=v", params |-> <<>>]
=============================================================================
