------------------------------ MODULE MCCatalog ------------------------------
(* Values of the constants of Catalog for TLC: three symbols, six days.    *)
EXTENDS Catalog

CONSTANTS analyst, operator, etf, tech, junk, N, Q, beta

MCSymbol == 1..3
MCDay == 1..6
MCClient == {analyst, operator}
MCTag == {etf, tech}
MCExchange == {N, Q}

MCTickers == {<<1, N>>, <<2, N>>, <<2, Q>>}
MCTags == {<<<<1, N>>, etf>>, <<<<2, Q>>, etf>>, <<<<2, N>>, tech>>}
MCRemote == {<<2, N>>, <<3, N>>}
MCFeatures == {[symbol |-> 1, exchange |-> N, feature |-> beta, day |-> d] : d \in 1..2}

Bar(d, o, h, l, c, v) == [day |-> d, open |-> o, high |-> h, low |-> l, close |-> c, volume |-> v]
Flat(d, c) == Bar(d, c, c, c, c, 10)
Week(closes) == SelectSeq([d \in 1..6 |-> Flat(d, closes[d])], LAMBDA b : b.close # NaN)
Touched(x, low) == [x EXCEPT ![Len(x)].low = low]

\* Rises and pullbacks that enter, a late, a halted and a missing history, a bar that violates the rules.
Calm == Week(<<100, 100, 100, 100, 100, 100>>)
Slipped == Week(<<100, 100, 103, 100, 100, 100>>)
Leader == Week(<<50, 160, 100, 100, 120, 110>>)
Runner == Touched(Week(<<100, 100, 160, 100, 100, 160>>), 70)
Late == Week(<<NaN, 90, 80, NaN, 85, NaN>>)
Halted == Week(<<80, 90, 80, 85, NaN, NaN>>)
Broken == Week(<<100, 0, 120, 100, 120, 140>>)
Spoilt == [Week(<<100, 100, 100, 120, 90, 90>>) EXCEPT ![4].volume = 0, ![5].low = 95, ![6].volume = -1]

MCHistory ==
    {<<Leader, Late, Calm>>, <<Leader, Runner, Late>>, <<Runner, Runner, Leader>>, <<Calm, Broken, Leader>>,
     <<Spoilt, Leader, <<>>>>, <<Calm, Calm, Runner>>, <<Slipped, Calm, Calm>>,
     <<Halted, Runner, Calm>>, <<<<>>, <<>>, <<>>>>}

Query == [asOf |-> 0, top |-> 0, minBars |-> 0, maxStale |-> 100, minPrice |-> 0, minDollarVol |-> 0,
          ask |-> Plain("buy-red"), mode |-> "technical-only", benchmark |-> 0, includeBenchmark |-> FALSE,
          today |-> 6, lookback |-> 4, staleAfter |-> 1, gapThreshold |-> 20]
Ask(op, include, exclude, query) ==
    [op |-> op, explicit |-> {}, include |-> include, exclude |-> exclude, query |-> query]

MCReports ==
    {Ask("screen", <<>>, <<>>, Query), Ask("screen", <<etf, tech>>, <<>>, [Query EXCEPT !.top = 1]),
     Ask("screen", <<>>, <<>>, [Query EXCEPT !.top = 2]),
     Ask("screen", <<etf>>, <<tech>>, [Query EXCEPT !.asOf = 5, !.maxStale = 0, !.minPrice = 110]),
     Ask("screen", <<>>, <<tech>>, [Query EXCEPT !.asOf = 6, !.minBars = 6, !.minDollarVol = 1100]),
     Ask("screen", <<junk>>, <<>>, Query),
     Ask("screen", <<>>, <<>>, [Query EXCEPT !.mode = "fundamental"]),
     Ask("signals", <<>>, <<>>, [Query EXCEPT !.ask.text = "k"]), Ask("ranges", <<>>, <<>>, Query),
     Ask("freshness", <<>>, <<>>, [Query EXCEPT !.lookback = 0]),
     Ask("freshness", <<tech, etf>>, <<>>, Query), Ask("freshness", <<>>, <<>>, Query),
     [Ask("ranges", <<>>, <<>>, Query) EXCEPT !.explicit = {2, 3}],
     [Ask("ranges", <<etf>>, <<>>, [Query EXCEPT !.asOf = 5]) EXCEPT !.explicit = {3}]}
    \cup {Ask("signals", <<>>, <<>>, [Query EXCEPT !.ask = Plain(s), !.asOf = a]) :
            s \in {"buy-red", "trend-pullback", "naive-dip", "momentum-rotation"}, a \in {0, 5, 7}}
    \cup {Ask("signals", <<etf>>, <<tech>>,
              [Query EXCEPT !.ask = Plain("trend-pullback"), !.benchmark = 1, !.includeBenchmark = b, !.top = 1]) :
            b \in BOOLEAN}

MCWrites ==
    {[op |-> "import", provider |-> p] : p \in {"alpaca", "other"}}
    \cup {[op |-> o, symbols |-> <<2, 1>>, tag |-> t] : o \in {"label", "unlabel"}, t \in MCTag}
    \cup {[op |-> "label", symbols |-> <<3>>, tag |-> tech], [op |-> "label", symbols |-> <<>>, tag |-> tech]}
    \cup {[op |-> "create", symbol |-> s, feature |-> beta, day |-> 3] : s \in MCSymbol}
    \cup {[op |-> "create", symbol |-> 1, feature |-> beta, day |-> 1]}
    \cup {[op |-> "delete", symbol |-> s, feature |-> beta] : s \in 1..2}

MCCommand == [c \in MCClient |-> IF c = analyst THEN MCReports \cup MCWrites ELSE MCWrites]
=============================================================================
