------------------------------- MODULE Catalog -------------------------------
(***************************************************************************)
(* The symbol catalog of mrmkt on Postgres: the tables ticker, ticker_tag, *)
(* feature and daily_price, the commands that change them (symbols import, *)
(* label, unlabel, feature create, feature delete) and the reports that    *)
(* resolve a universe from the tags and read its bars.  Each client runs   *)
(* one command; every SQL statement is a step, and a client may be killed  *)
(* between two of them.                                                    *)
(***************************************************************************)
EXTENDS Screens

CONSTANTS
    Symbol, Exchange, Tag, Feature, Day,
    Client,
    Command,       \* the commands each client may run
    Remote,        \* the tickers of the broker's catalog
    InitTickers,   \* the tables when the clients start
    InitTags,
    InitFeatures,
    History        \* the bars the table daily_price may hold

Ticker == Symbol \X Exchange
FeatureKey == [symbol: Symbol, exchange: Exchange, feature: Feature, day: Day]

DailyBar == [day: Day, open: Nat, high: Nat, low: Nat, close: Nat, volume: Int]

Reports == {"screen", "signals", "freshness", "ranges"}

\* What the arguments of a command are; the tags of a report may be any text.
WellFormed(cmd) ==
    /\ cmd.op \in Reports =>
          /\ cmd.explicit \subseteq Symbol
          /\ cmd.include \in Seq(ToSet(cmd.include)) /\ cmd.exclude \in Seq(ToSet(cmd.exclude))
          /\ \A option \in {"asOf", "top", "minBars"} : cmd.query[option] \in Int
    /\ cmd.op \in {"label", "unlabel"} => cmd.symbols \in Seq(Symbol) /\ cmd.tag \in Tag
    /\ cmd.op \in {"create", "delete"} => cmd.symbol \in Symbol /\ cmd.feature \in Feature
    /\ cmd.op = "create" => cmd.day \in Day

ASSUME CatalogAssumption ==
    /\ Symbol \subseteq Nat \ {0} /\ IsFiniteSet(Symbol) /\ IsFiniteSet(Client)
    /\ IsFiniteSet(Exchange) /\ IsFiniteSet(Tag) /\ IsFiniteSet(Feature) /\ IsFiniteSet(Day)
    /\ InitTickers \subseteq Ticker /\ Remote \subseteq Ticker
    /\ InitTags \subseteq InitTickers \X Tag
    /\ InitFeatures \subseteq FeatureKey
    /\ Day \subseteq Nat \ {0} /\ History \subseteq [Symbol -> Seq(DailyBar)]
    /\ \A c \in Client : \A cmd \in Command[c] : WellFormed(cmd)

VARIABLES
    ticker, ticker_tag, feature, daily_price,
    call,    \* what each client is doing
    during   \* the tags a report may have read: at some moment since it started, and at all

tables == <<ticker, ticker_tag, feature, daily_price>>
vars == <<tables, call, during>>

Ended == {"done", "killed"}
Idle == [pc |-> "idle", cmd |-> [op |-> "none"], todo |-> {}, reads |-> <<>>, found |-> {},
         count |-> 0, raced |-> FALSE, answer |-> [status |-> "none"]]

\* A call moves on, or ends with an answer, at once or after its statements.
With(changes, r) == [x \in DOMAIN r |-> IF x \in DOMAIN changes THEN changes[x] ELSE r[x]]
Go(c, changes) == call' = [call EXCEPT ![c] = With(changes, @)]
Answer(status) == [pc |-> "done", answer |-> [status |-> status]]
AnswerAtOnce(cmd, status) == [cmd |-> cmd, pc |-> "done", answer |-> [status |-> status]]

\* The tags a report has seen so far, after a step that may change them.
Watching(c) == call[c].pc = "resolving"
Observe ==
    during' = [c \in Client |->
                  IF Watching(c) THEN [ever |-> during[c].ever \cup ticker_tag',
                                       always |-> during[c].always \cap ticker_tag']
                  ELSE during[c]]

Init ==
    /\ ticker = InitTickers /\ ticker_tag = InitTags /\ feature = InitFeatures
    /\ daily_price \in History
    /\ call = [c \in Client |-> Idle]
    /\ during = [c \in Client |-> [ever |-> {}, always |-> {}]]

-----------------------------------------------------------------------------
(* symbols import: one insert for each ticker of the broker. *)

ImportGet(c, cmd) ==
    /\ call[c].pc = "idle" /\ cmd.op = "import"
    /\ IF cmd.provider # "alpaca" THEN Go(c, AnswerAtOnce(cmd, "invalid"))
       ELSE \/ Go(c, AnswerAtOnce(cmd, "error"))
            \/ Go(c, [cmd |-> cmd, pc |-> "importing", todo |-> Remote])
    /\ UNCHANGED <<tables, during>>

AddTicker(c) ==
    /\ call[c].pc = "importing"
    /\ \E t \in call[c].todo :
          /\ ticker' = ticker \cup {t}
          /\ Go(c, [todo |-> call[c].todo \ {t},
                    count |-> call[c].count + IF t \in ticker THEN 0 ELSE 1])
    /\ UNCHANGED <<ticker_tag, feature, daily_price, during>>

-----------------------------------------------------------------------------
(* label and unlabel: the tickers are listed once, then tagged one by one. *)

\* The listed tickers of the command's symbols.
Matching(cmd) == {t \in ticker : t[1] \in ToSet(cmd.symbols)}

LabelList(c, cmd) ==
    /\ call[c].pc = "idle" /\ cmd.op \in {"label", "unlabel"}
    /\ Go(c, IF cmd.symbols = <<>> THEN AnswerAtOnce(cmd, "invalid")
             ELSE IF Matching(cmd) = {} THEN AnswerAtOnce(cmd, "not_found")
             ELSE [cmd |-> cmd, pc |-> "labelling", todo |-> Matching(cmd)])
    /\ UNCHANGED <<tables, during>>

\* The symbols are taken in the command's order, the exchanges of one in the table's.
Position(cmd, s) == CHOOSE i \in DOMAIN cmd.symbols : cmd.symbols[i] = s
NextTicker(c, t) ==
    LET cmd == call[c].cmd
    IN t \in call[c].todo /\ \A o \in call[c].todo : Position(cmd, t[1]) <= Position(cmd, o[1])

\* Deviation: a Duplicate is counted as a change.
AddTagCounts(c) ==
    /\ call[c].pc = "labelling" /\ call[c].cmd.op = "label"
    /\ \E t \in call[c].todo :
          /\ NextTicker(c, t)
          /\ ticker_tag' = ticker_tag \cup {<<t, call[c].cmd.tag>>}
          /\ Go(c, [todo |-> call[c].todo \ {t}, count |-> call[c].count + 1])
    /\ Observe
    /\ UNCHANGED <<ticker, feature, daily_price>>

\* A row that is there raises Duplicate, which is passed over.
AddTag(c) ==
    /\ call[c].pc = "labelling" /\ call[c].cmd.op = "label"
    /\ \E t \in call[c].todo :
          LET row == <<t, call[c].cmd.tag>> IN
          /\ NextTicker(c, t)
          /\ ticker_tag' = ticker_tag \cup {row}
          /\ Go(c, [todo |-> call[c].todo \ {t},
                    count |-> call[c].count + IF row \in ticker_tag THEN 0 ELSE 1])
    /\ Observe
    /\ UNCHANGED <<ticker, feature, daily_price>>

\* remove_tag says whether the delete found its row.
RemoveTag(c) ==
    /\ call[c].pc = "labelling" /\ call[c].cmd.op = "unlabel"
    /\ \E t \in call[c].todo :
          LET row == <<t, call[c].cmd.tag>> IN
          /\ NextTicker(c, t)
          /\ ticker_tag' = ticker_tag \ {row}
          /\ Go(c, [todo |-> call[c].todo \ {t},
                    count |-> call[c].count + IF row \in ticker_tag THEN 1 ELSE 0])
    /\ Observe
    /\ UNCHANGED <<ticker, feature, daily_price>>

\* Nothing is left to import or to label.
Counted(c) ==
    /\ call[c].pc \in {"importing", "labelling"} /\ call[c].todo = {}
    /\ Go(c, Answer("success"))
    /\ UNCHANGED <<tables, during>>
-----------------------------------------------------------------------------
(* feature create and feature delete: a select, then the change. *)

\* A delete that stands between its statements while the rows it counted change.
Doomed(cmd) == {row \in feature : row.symbol = cmd.symbol /\ row.feature = cmd.feature}
Race(c) ==
    [d \in Client |->
        IF d # c /\ call[d].pc = "deleting" /\ feature' # feature THEN [call[d] EXCEPT !.raced = TRUE]
        ELSE call[d]]

CreateList(c, cmd) ==
    /\ call[c].pc = "idle" /\ cmd.op = "create"
    /\ LET listings == {t \in ticker : t[1] = cmd.symbol}
       IN Go(c, IF listings = {} THEN AnswerAtOnce(cmd, "not_found")
                ELSE IF Cardinality(listings) > 1 THEN AnswerAtOnce(cmd, "invalid")
                ELSE [cmd |-> cmd, pc |-> "adding", todo |-> listings])
    /\ UNCHANGED <<tables, during>>

\* A second value for the day is a Duplicate, reported as invalid.
AddFeature(c) ==
    /\ call[c].pc = "adding"
    /\ LET cmd == call[c].cmd
           row == [symbol |-> cmd.symbol, exchange |-> (CHOOSE t \in call[c].todo : TRUE)[2],
                   feature |-> cmd.feature, day |-> cmd.day]
       IN /\ feature' = feature \cup {row}
          /\ call' = [Race(c) EXCEPT ![c] =
                         With(Answer(IF row \in feature THEN "invalid" ELSE "success"), @)]
    /\ UNCHANGED <<ticker, ticker_tag, daily_price, during>>

DeleteCount(c, cmd) ==
    /\ call[c].pc = "idle" /\ cmd.op = "delete"
    /\ Go(c, IF Doomed(cmd) = {} THEN AnswerAtOnce(cmd, "success")
             ELSE [cmd |-> cmd, pc |-> "deleting", count |-> Cardinality(Doomed(cmd))])
    /\ UNCHANGED <<tables, during>>

DeleteFeatures(c) ==
    /\ call[c].pc = "deleting"
    /\ feature' = feature \ Doomed(call[c].cmd)
    /\ call' = [Race(c) EXCEPT ![c] = With(Answer("success"), @)]
    /\ UNCHANGED <<ticker, ticker_tag, daily_price, during>>

-----------------------------------------------------------------------------
(* Reports: resolve_universe reads one tag at a time, then the bars are read. *)

\* The reads of resolve_universe, in order: <<"all">>, <<"in", tag>> or <<"out", tag>>.
Reads(cmd) ==
    (IF cmd.include = <<>> THEN <<<<"all">>>> ELSE [i \in DOMAIN cmd.include |-> <<"in", cmd.include[i]>>])
    \o [i \in DOMAIN cmd.exclude |-> <<"out", cmd.exclude[i]>>]

\* normalize_tag refuses some tags; every report has its own conditions besides.
Accepted(cmd) ==
    /\ ToSet(cmd.include) \cup ToSet(cmd.exclude) \subseteq Tag
    /\ CASE cmd.op = "screen" -> ScreenAccepts(cmd.query)
         [] cmd.op = "signals" -> SignalsAccepts(cmd.query)
         [] cmd.op = "freshness" -> FreshnessAccepts(cmd.query)
         [] cmd.op = "ranges" -> RangesAccepts(cmd)

\* Validation, and ranges of explicit symbols alone, which never read the catalog.
ReportStart(c, cmd) ==
    /\ call[c].pc = "idle" /\ cmd.op \in Reports
    /\ Go(c, IF ~Accepted(cmd) THEN AnswerAtOnce(cmd, "invalid")
             ELSE [cmd |-> cmd, pc |-> "resolving", found |-> cmd.explicit,
                   reads |-> IF cmd.op = "ranges" /\ cmd.include = <<>> THEN <<>> ELSE Reads(cmd)])
    /\ during' = [during EXCEPT ![c] = [ever |-> ticker_tag, always |-> ticker_tag]]
    /\ UNCHANGED tables

\* get_symbols_by_tag; a tagged ticker is always in the table, so its second select adds nothing.
Tagged(tag) == {row[1][1] : row \in {r \in ticker_tag : r[2] = tag}}
\* get_symbols on Postgres: the symbols of daily_price.
Priced == {s \in Symbol : daily_price[s] # <<>>}

\* Deviation: several tags select the symbols that have all of them.
ReadUniverseMeet(c) ==
    /\ call[c].pc = "resolving" /\ call[c].reads # <<>>
    /\ LET read == Head(call[c].reads)
           found == call[c].found
       IN Go(c, [reads |-> Tail(call[c].reads),
                 found |-> CASE read[1] = "all" -> Priced
                             [] read[1] = "in" -> IF found = {} THEN Tagged(read[2])
                                                  ELSE found \cap Tagged(read[2])
                             [] read[1] = "out" -> found \ Tagged(read[2])])
    /\ UNCHANGED <<tables, during>>

ReadUniverse(c) ==
    /\ call[c].pc = "resolving" /\ call[c].reads # <<>>
    /\ LET read == Head(call[c].reads)
           found == call[c].found
       IN Go(c, [reads |-> Tail(call[c].reads),
                 found |-> CASE read[1] = "all" -> Priced
                             [] read[1] = "in" -> found \cup Tagged(read[2])
                             [] read[1] = "out" -> found \ Tagged(read[2])])
    /\ UNCHANGED <<tables, during>>

\* list_prices_for_symbols, and the report made of what it returned.
Report(c) ==
    /\ call[c].pc = "resolving" /\ call[c].reads = <<>>
    /\ LET cmd == call[c].cmd
           universe == call[c].found
       IN Go(c, [pc |-> "done",
                 answer |-> CASE cmd.op = "screen" -> Screen(daily_price, universe, cmd.query)
                              [] cmd.op = "signals" -> Signals(daily_price, universe, cmd.query)
                              [] cmd.op = "freshness" -> Freshness(daily_price, universe, cmd.query)
                              [] cmd.op = "ranges" -> Ranges(daily_price, universe, cmd.query)])
    /\ UNCHANGED <<tables, during>>

\* A process that dies keeps what its statements have changed.
Kill(c) ==
    /\ call[c].pc \notin Ended \cup {"idle"}
    /\ Go(c, [pc |-> "killed"])
    /\ UNCHANGED <<tables, during>>

Step(c) ==
    \/ \E cmd \in Command[c] :
          ImportGet(c, cmd) \/ LabelList(c, cmd) \/ CreateList(c, cmd) \/ DeleteCount(c, cmd)
          \/ ReportStart(c, cmd)
    \/ AddTicker(c) \/ AddTag(c) \/ RemoveTag(c) \/ Counted(c)
    \/ AddFeature(c) \/ DeleteFeatures(c)
    \/ ReadUniverse(c) \/ Report(c) \/ Kill(c)

Next == \E c \in Client : Step(c)
Spec == Init /\ [][Next]_vars
-----------------------------------------------------------------------------
(* Properties. *)

\* Types (symbols_common.py, import_symbols.py, the feature and tag repositories).
TypeOK ==
    /\ ticker \subseteq Ticker /\ feature \subseteq FeatureKey
    /\ ticker_tag \subseteq ticker \X Tag
    /\ daily_price \in History
    /\ \A c \in Client :
          /\ call[c].pc \in Ended \cup {"idle", "importing", "labelling", "adding", "deleting", "resolving"}
          /\ call[c].pc \in {"importing", "labelling", "adding"} => call[c].todo \subseteq Ticker
          /\ call[c].count \in 0..Max({Cardinality(Ticker), Cardinality(FeatureKey)})
          /\ call[c].found \subseteq Symbol
          /\ during[c].always \subseteq during[c].ever

Does(c, op) == call[c].cmd.op = op
Doing(op) == {c \in Client : Does(c, op)}

\* The sum of the counts of some clients: each is as many as the numbers up to it.
Counts(clients) == UNION {{c} \X (1..call[c].count) : c \in clients}
Total(clients) == Cardinality(Counts(clients))
Deleted == {c \in Doing("delete") : call[c].pc = "done"}
Created == {c \in Doing("create") : call[c].answer.status = "success"}

\* The counts that import, label and unlabel report add up to what the tables gained and lost,
\* whatever commands run at a time and wherever one is killed; those of feature delete do too
\* unless another command changed the rows between its count and its delete
\* (apply_symbol_tags, ImportSymbols, delete_features).  States are well typed.
CountsAddUp ==
    /\ TypeOK
    /\ Cardinality(ticker) = Cardinality(InitTickers) + Total(Doing("import"))
    /\ Cardinality(ticker_tag) + Total(Doing("unlabel")) =
          Cardinality(InitTags) + Total(Doing("label"))
    /\ (\A c \in Client : ~call[c].raced) =>
          Cardinality(feature) + Total(Deleted) = Cardinality(InitFeatures) + Cardinality(Created)

Having(rows, tags) == {r[1][1] : r \in {x \in rows : x[2] \in ToSet(tags)}}

\* A report's universe holds every symbol that was included and not excluded all the while it
\* was resolved, no symbol that was never included, and none that was excluded throughout,
\* though it is read tag by tag while others label and unlabel (resolve_universe).
UniverseWasTagged ==
    \A c \in Client :
        LET cmd == call[c].cmd
            found == call[c].found
        IN call[c].pc = "resolving" /\ call[c].reads = <<>> /\ cmd.include # <<>> =>
              /\ found \subseteq cmd.explicit \cup Having(during[c].ever, cmd.include)
              /\ Having(during[c].always, cmd.include) \ Having(during[c].ever, cmd.exclude)
                    \subseteq found
              /\ (found \ cmd.explicit) \cap Having(during[c].always, cmd.exclude) = {}

Reported(c, op) == call[c].pc = "done" /\ Does(c, op) /\ call[c].answer.status = "success"
Better(a, b) ==
    /\ a.momentum >= b.momentum /\ a.trend >= b.trend /\ a.depth >= b.depth /\ a.vol <= b.vol
    /\ \/ a.momentum > b.momentum \/ a.trend > b.trend \/ a.depth > b.depth \/ a.vol < b.vol
       \/ a.symbol < b.symbol

\* The measures of the symbols that a screen has no reason to leave out.
Eligible(bars, universe, asOf, q) ==
    LET x == [s \in universe |-> UpTo(bars[s], asOf)]
    IN {Candidate(s, x[s]) : s \in {t \in universe : Excluded(x[t], asOf, q) = "none"}}

\* In a screen a name that is behind on no measure, and ahead on one or in the alphabet, is
\* ranked ahead of the other if both are shown, and is not the one that the cut leaves out if
\* one is: a cut through a tie follows the alphabet.  Every symbol of the universe is excluded
\* for a reason, or shown once, as it was measured, as far as the cut allows
\* (ScreenSymbols._score, _pct_rank).
ScreenRanksFairly ==
    \A c \in Client : Reported(c, "screen") =>
        LET a == call[c].answer
            q == call[c].cmd.query
            eligible == Eligible(daily_price, call[c].found, a.asOf, q)
            out == a.excluded["short_history"] + a.excluded["stale"] + a.excluded["min_price"]
                      + a.excluded["min_dollar_vol"] + a.excluded["vol_unavailable"]
        IN /\ ToSet(a.rows) \subseteq eligible
           /\ \A i, j \in DOMAIN a.rows : /\ Better(a.rows[i], a.rows[j]) => i < j
                                         /\ a.rows[i] = a.rows[j] => i = j
           /\ \A r \in ToSet(a.rows), o \in eligible \ ToSet(a.rows) : ~Better(o, r)
           /\ Len(a.rows) = LET n == a.size - out IN IF q.top = 0 THEN n ELSE Min({n, q.top})
           /\ \A r \in ToSet(a.rows) : r.day <= a.vintage
           /\ a.vintage <= a.asOf

BuyRedShown == {"above_fast", "above_slow", "dist_lo_ok", "drawdown_ok", "vov_ok", "touch_ok"}
PullbackShown == {"gate", "above_slow", "above_fast", "mom_rank", "pullback_dist"}

\* The status of a signal row, its last entry, and the legs shown next to it are computed along
\* three paths and agree: buy-red enters when all legs hold, though no touch is shown where a buy
\* level of 0 meets a low of 0, trend-pullback only then, and an entry is dated asOf exactly when
\* the status says so (_score_signals, _attribution).
LegsExplainSignals ==
    \A c \in Client : Reported(c, "signals") =>
        LET a == call[c].answer
            strategy == call[c].cmd.query.ask.strategy
            free(s) == \E b \in ToSet(daily_price[s]) : b.day = a.asOf /\ b.low = 0
        IN \A r \in ToSet(a.rows) :
              /\ (r.status = "entry_signal") <=> (r.lastEntry = a.asOf)
              /\ r.status = "exit_signal" => r.lastExit = a.asOf
              /\ strategy = "buy-red" /\ UseVov =>
                    /\ r.legs = BuyRedShown => r.status = "entry_signal"
                    /\ r.status = "entry_signal" =>
                          r.legs = BuyRedShown
                             \/ (free(r.symbol) /\ r.legs = BuyRedShown \ {"touch_ok"})
              /\ strategy = "trend-pullback" /\ r.status = "entry_signal" => r.legs = PullbackShown
=============================================================================
