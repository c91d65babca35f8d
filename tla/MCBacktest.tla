----------------------------- MODULE MCBacktest -----------------------------
(* Values of the constants of Backtest for TLC: two symbols and six days.  *)
EXTENDS Backtest

MCSymbol == 1..2
MCDay == 1..6

NoBar == [close |-> NaN, high |-> NaN, low |-> NaN]
Bar(c, h, l) == [close |-> c, high |-> h, low |-> l]
Flat(c) == Bar(c, c, c)
Quiet == Flat(100)
Rally == Flat(160)
Dip == Bar(100, 100, 60)
Crash == Flat(60)
Touch == Bar(160, 170, 70)
Spoilt == Bar(0, 100, 90)

\* The first symbol's week is any four of these bars between two quiet ones, or a leader's
\* pullback; the second symbol's week is one of a few with gaps, and a close of nothing.
Weeks ==
    {<<Quiet>> \o w \o <<Quiet>> : w \in [1..4 -> {Quiet, Rally, Touch, Crash, NoBar}]}
    \cup {[i \in 1..6 |-> Flat(<<50, 160, 100, 100, 120, 100>>[i])]}
OtherWeeks ==
    {<<Quiet, Rally, Dip, Quiet, Rally, NoBar>>,
     <<NoBar, Quiet, Bar(90, NaN, NaN), Spoilt, NoBar, Flat(85)>>}

MCHistory == {<<a, b>> : a \in Weeks, b \in OtherWeeks}

Ask == [sources |-> 1, selected |-> <<1, 2>>, benchmark |-> 0, ask |-> Plain("naive-dip"),
        start |-> 0, end |-> 6, chunkSize |-> 2, fillLag |-> 1, fillModel |-> "close",
        fillPrice |-> "close"]
With(strategy) == [Ask EXCEPT !.ask = Plain(strategy)]

\* What the registry refuses, and a file that registers a strategy nobody asks for.
Plugin == [exists |-> TRUE, raises |-> FALSE, names |-> {"plugin"}]
Odd ==
    {[Plain("naive-dip") EXCEPT !.file = x] :
        x \in {[NoFile EXCEPT !.names = {"missing"}], [Plugin EXCEPT !.raises = TRUE], Plugin,
                [Plugin EXCEPT !.names = {}], [Plugin EXCEPT !.names = Builtin]}}
    \cup {[Plain("naive-dip") EXCEPT !.text = "k"], Plain("nope")}
    \cup {[Plain("sma-cross") EXCEPT !.params = x] :
            x \in {[top_n |-> <<1>>], [fast_period |-> <<>>], [fast_period |-> <<Long>>]}}
    \cup {[Plain("momentum-rotation") EXCEPT !.params = [mom_skip |-> <<Trail>>]],
          [Plain("trend-pullback") EXCEPT !.params = [recovery_bars |-> <<2>>]],
          [Plain("naive-dip") EXCEPT !.params = [trail |-> <<1>>]],
          [Plain("buy-red") EXCEPT !.params = [use_vov |-> <<>>]]}

MCRequest ==
    {With(s) : s \in {"sma-cross", "momentum-rotation", "trend-pullback"}}
    \cup {[Ask EXCEPT !.ask = a] : a \in Odd}
    \cup {[Ask EXCEPT !.fillLag = n, !.start = 2 + 2 * n] : n \in 0..1}
    \cup {[With("buy-red") EXCEPT !.fillModel = "limit-touch", !.fillPrice = p, !.chunkSize = 1] :
            p \in {"close", "limit"}}
    \cup {[With("momentum-rotation") EXCEPT !.chunkSize = 1, !.fillLag = 0, !.start = 4],
          [With("momentum-rotation") EXCEPT !.selected = <<2, 1>>, !.benchmark = 2, !.end = 5],
          [Ask EXCEPT !.fillModel = "limit-touch"], [Ask EXCEPT !.fillPrice = "limit"],
          [Ask EXCEPT !.selected = <<>>]}
=============================================================================
