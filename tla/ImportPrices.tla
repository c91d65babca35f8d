---------------------------- MODULE ImportPrices ----------------------------
(***************************************************************************)
(* mrmkt prices import (src/mrmkt/command/import_prices.py): runs that     *)
(* fetch the daily bars of their symbols batch by batch, retry a failing   *)
(* fetch, record the batches that keep failing, and add each bar to the    *)
(* table in a transaction of its own.  Runs of several processes share the *)
(* table; a run may be killed, or end with an exception of the store, and  *)
(* be started again, on a later day and with another provider.             *)
(***************************************************************************)
EXTENDS Integers, Sequences, FiniteSets, SequencesExt, ImportBatches, PriceSources

CONSTANTS
    Run,        \* importing processes
    Ask,        \* the requests runs may be given: provider, symbols selected, days
    BatchSize,  \* batch_size
    MaxAttempts \* max_attempts

ASSUME ImportAssumption ==
    /\ IsFiniteSet(Run) /\ IsFiniteSet(Symbol) /\ IsFiniteSet(Date)
    /\ Date \subseteq Int /\ \A d, e \in Date : d..e \subseteq Date
    /\ Ask \subseteq [by: Provider, symbols: Seq(Symbol), from: Date, to: Date \cup {None}]
    /\ \A a \in Ask : IsInjective(a.symbols) \* dict.fromkeys
    /\ None \notin Int /\ Missing \notin Int /\ Missing # None
    /\ BatchSize \in Nat \ {0}
    /\ MaxAttempts \in Nat \ {0}

VARIABLES
    today,    \* the day on the clock
    prices,   \* table daily_price
    phase,    \* what each run is doing, or how it ended
    request,  \* provider, selected_symbols, start_date and end_date of each run; history: the day it began
    todo,     \* batches of each run, the current one first
    attempt,  \* failed fetches of the current batch
    bars,     \* fetched bars of the current batch, not yet added
    done,     \* symbols reported as processed
    failed,   \* failed_batches, as a set of symbols
    imported, \* bars each run has counted
    earlier,  \* history: bars counted by runs that ended
    mine      \* history: the bars each run has added

result == <<done, failed, imported>>
vars == <<today, prices, phase, request, todo, attempt, bars, result, earlier, mine>>

StockPrice == [symbol: Symbol, date: Date, open: Price, close: Price]
Ended == {"idle", "success", "raised", "killed"}
NoRequest == [by |-> "alpaca", symbols |-> <<>>, from |-> 0, to |-> 0, on |-> 0]

TypeOK ==
    /\ today \in Date
    /\ prices \subseteq StockPrice
    /\ phase \in [Run -> Ended \cup {"fetching", "storing"}]
    /\ request \in [Run -> [by: Provider, symbols: Seq(Symbol), from: Int, to: Int, on: Int]]
    /\ todo \in [Run -> Seq(Seq(Symbol))]
    /\ attempt \in [Run -> 0..(MaxAttempts - 1)]
    /\ bars \in [Run -> Seq(StockPrice)]
    /\ done \in [Run -> Nat]
    /\ failed \in [Run -> SUBSET Symbol]
    /\ imported \in [Run -> Nat]
    /\ earlier \in Nat
    /\ mine \in [Run -> SUBSET StockPrice]

Init ==
    /\ today \in {d \in Date : \A a \in Ask : a.from <= d}
    /\ prices = {}
    /\ phase = [r \in Run |-> "idle"]
    /\ request = [r \in Run |-> NoRequest]
    /\ todo = [r \in Run |-> <<>>]
    /\ attempt = [r \in Run |-> 0]
    /\ bars = [r \in Run |-> <<>>]
    /\ done = [r \in Run |-> 0]
    /\ failed = [r \in Run |-> {}]
    /\ imported = [r \in Run |-> 0]
    /\ earlier = 0
    /\ mine = [r \in Run |-> {}]

-----------------------------------------------------------------------------
\* What get_prices answers for a batch, symbol by symbol (prices_by_symbol).
Fetched(r) ==
    FlattenSeq([i \in DOMAIN todo[r][1] |->
        GetPrices(request[r].by, todo[r][1][i], request[r].from, request[r].to, today)])

NextBatch(r) ==
    /\ todo' = [todo EXCEPT ![r] = Tail(@)]
    /\ attempt' = [attempt EXCEPT ![r] = 0]
    /\ done' = [done EXCEPT ![r] = @ + Len(todo[r][1])]
    /\ phase' = [phase EXCEPT ![r] = IF Len(todo[r]) = 1 THEN "success" ELSE "fetching"]

-----------------------------------------------------------------------------
(* A run. *)

\* A window that ends before it starts is refused.
Start(r, ask) ==
    LET to == IF ask.to = None THEN today ELSE ask.to IN
    /\ phase[r] \in Ended
    /\ ask.from <= to
    /\ request' = [request EXCEPT ![r] =
           [by |-> ask.by, symbols |-> ask.symbols, from |-> ask.from, to |-> to, on |-> today]]
    /\ todo' = [todo EXCEPT ![r] = Batches(ask.symbols, BatchSize)]
    /\ phase' = [phase EXCEPT ![r] = IF ask.symbols = <<>> THEN "success" ELSE "fetching"]
    /\ earlier' = earlier + imported[r]
    /\ done' = [done EXCEPT ![r] = 0]
    /\ failed' = [failed EXCEPT ![r] = {}]
    /\ imported' = [imported EXCEPT ![r] = 0]
    /\ mine' = [mine EXCEPT ![r] = {}]
    /\ UNCHANGED <<today, prices, attempt, bars>>

FetchSucceeds(r) ==
    /\ phase[r] = "fetching"
    /\ phase' = [phase EXCEPT ![r] = "storing"]
    /\ ~Refuses(request[r].by, todo[r][1], request[r].from, request[r].to, today)
    /\ bars' = [bars EXCEPT ![r] = Fetched(r)]
    /\ UNCHANGED <<today, prices, request, todo, attempt, result, earlier, mine>>

\* Deviation: a batch that keeps failing goes back to the end of the list.
FetchFailsRequeued(r) ==
    /\ phase[r] = "fetching"
    /\ IF attempt[r] + 1 < MaxAttempts
       THEN attempt' = [attempt EXCEPT ![r] = @ + 1] /\ UNCHANGED todo
       ELSE /\ attempt' = [attempt EXCEPT ![r] = 0]
            /\ todo' = [todo EXCEPT ![r] = Append(Tail(@), Head(@))]
    /\ UNCHANGED <<today, prices, phase, request, bars, result, earlier, mine>>

\* Deviation: a batch that is given up is not counted as processed.
FetchFailsUncounted(r) ==
    /\ phase[r] = "fetching"
    /\ IF attempt[r] + 1 < MaxAttempts
       THEN /\ attempt' = [attempt EXCEPT ![r] = @ + 1]
            /\ UNCHANGED <<phase, todo, failed>>
       ELSE /\ failed' = [failed EXCEPT ![r] = @ \cup ToSet(todo[r][1])]
            /\ todo' = [todo EXCEPT ![r] = Tail(@)]
            /\ phase' = [phase EXCEPT ![r] = IF Len(todo[r]) = 1 THEN "success" ELSE "fetching"]
            /\ attempt' = [attempt EXCEPT ![r] = 0]
    /\ UNCHANGED <<today, prices, request, bars, done, imported, earlier, mine>>

FetchFails(r) ==
    /\ phase[r] = "fetching"
    /\ IF attempt[r] + 1 < MaxAttempts
       THEN /\ attempt' = [attempt EXCEPT ![r] = @ + 1]
            /\ UNCHANGED <<phase, todo, done, failed>>
       ELSE /\ failed' = [failed EXCEPT ![r] = @ \cup ToSet(todo[r][1])]
            /\ NextBatch(r)
    /\ UNCHANGED <<today, prices, request, bars, imported, earlier, mine>>

\* PRIMARY KEY (symbol, date).
Stored(bar) == \E b \in prices : b.symbol = bar.symbol /\ b.date = bar.date

\* Deviation: a duplicate is counted too.
AddPriceCounts(r) ==
    LET bar == Head(bars[r]) IN
    /\ phase[r] = "storing"
    /\ bars[r] # <<>>
    /\ bars' = [bars EXCEPT ![r] = Tail(@)]
    /\ IF Stored(bar) THEN UNCHANGED <<prices, mine>>
       ELSE /\ prices' = prices \cup {bar}
            /\ mine' = [mine EXCEPT ![r] = @ \cup {bar}]
    /\ imported' = [imported EXCEPT ![r] = @ + 1]
    /\ UNCHANGED <<today, phase, request, todo, attempt, done, failed, earlier>>

\* Deviation: a bar that is stored already is replaced.
AddPriceReplaces(r) ==
    LET bar == Head(bars[r]) IN
    /\ phase[r] = "storing"
    /\ bars[r] # <<>>
    /\ bars' = [bars EXCEPT ![r] = Tail(@)]
    /\ prices' = {b \in prices : b.symbol # bar.symbol \/ b.date # bar.date} \cup {bar}
    /\ mine' = [mine EXCEPT ![r] = @ \cup {bar}]
    /\ imported' = [imported EXCEPT ![r] = IF Stored(bar) THEN @ ELSE @ + 1]
    /\ UNCHANGED <<today, phase, request, todo, attempt, done, failed, earlier>>

\* The primary key refuses a bar that is stored already: Duplicate, skipped.
AddPrice(r) ==
    LET bar == Head(bars[r]) IN
    /\ phase[r] = "storing"
    /\ bars[r] # <<>>
    /\ bars' = [bars EXCEPT ![r] = Tail(@)]
    /\ IF Stored(bar) THEN UNCHANGED <<prices, imported, mine>>
       ELSE /\ prices' = prices \cup {bar}
            /\ imported' = [imported EXCEPT ![r] = @ + 1]
            /\ mine' = [mine EXCEPT ![r] = @ \cup {bar}]
    /\ UNCHANGED <<today, phase, request, todo, attempt, done, failed, earlier>>

FinishBatch(r) ==
    /\ phase[r] = "storing"
    /\ bars[r] = <<>>
    /\ NextBatch(r)
    /\ UNCHANGED <<today, prices, request, bars, failed, imported, earlier, mine>>

\* The result is lost with the run; the bars stored stay in the table.
Abandon(r, how) ==
    /\ phase' = [phase EXCEPT ![r] = how]
    /\ todo' = [todo EXCEPT ![r] = <<>>]
    /\ attempt' = [attempt EXCEPT ![r] = 0]
    /\ bars' = [bars EXCEPT ![r] = <<>>]
    /\ request' = [request EXCEPT ![r] = NoRequest]
    /\ earlier' = earlier + imported[r]
    /\ done' = [done EXCEPT ![r] = 0]
    /\ failed' = [failed EXCEPT ![r] = {}]
    /\ imported' = [imported EXCEPT ![r] = 0]
    /\ mine' = [mine EXCEPT ![r] = {}]
    /\ UNCHANGED <<today, prices>>

\* Any other exception of add_price passes through execute.
AddPriceRaises(r) ==
    /\ phase[r] = "storing"
    /\ bars[r] # <<>>
    /\ Abandon(r, "raised")

Kill(r) ==
    /\ phase[r] \notin Ended
    /\ Abandon(r, "killed")

\* The providers go on publishing, and revise what they have published.
NextDay ==
    /\ today + 1 \in Date
    /\ today' = today + 1
    /\ UNCHANGED <<prices, phase, request, todo, attempt, bars, result, earlier, mine>>

Step(r) == FetchFails(r) \/ FetchSucceeds(r) \/ AddPrice(r) \/ FinishBatch(r)

Next ==
    \/ \E r \in Run :
           \/ \E ask \in Ask : Start(r, ask)
           \/ Step(r)
           \/ AddPriceRaises(r)
           \/ Kill(r)
    \/ NextDay

\* A run is a sequential program: it goes on unless it is killed.
Spec == Init /\ [][Next]_vars /\ \A r \in Run : WF_vars(Step(r))

-----------------------------------------------------------------------------
(* Properties. *)

\* The days of a run's window, both ends included, that its provider had prices of
\* on every day since the run began.
Dated(by, s, day) ==
    LET rows == Published(by, s, day) IN
    IF rows = Unknown THEN {}
    ELSE {DayOf(rows[i].at) : i \in {k \in DOMAIN rows : Complete(by, rows[k])}}

Due(r, s) ==
    {d \in request[r].from .. request[r].to :
        \A day \in request[r].on .. today : d \in Dated(request[r].by, s, day)}

DatesOf(s, table) == {b.date : b \in {p \in table : p.symbol = s}}

\* The scenario "A persistently failing batch is isolated": a run that answers
\* with success has processed every symbol it selected, and for those it does not
\* name as failed stored a bar of every day of its window that the provider has,
\* whatever other runs, providers, earlier aborted runs and duplicates left in the
\* table (_import_batches, get_prices).
SuccessIsComplete ==
    \A r \in Run :
        phase[r] = "success" =>
            /\ done[r] = Len(request[r].symbols)
            /\ \A s \in ToSet(request[r].symbols) \ failed[r] :
                   Due(r, s) \subseteq DatesOf(s, prices)

\* The bars all runs together say they imported are the bars of the table, each day
\* of a symbol once: none is counted twice, by two runs, two providers or a retry
\* (_import_batches, add_price).  States are well typed.
CountsAddUp ==
    /\ TypeOK
    /\ earlier + FoldFunction(LAMBDA a, b : a + b, 0, imported)
           = Cardinality({<<b.symbol, b.date>> : b \in prices})

\* A bar is what its provider's row says: its day's prices all adjusted, or none of
\* them.  Yahoo adjusts the close alone, and the other prices keep their proportion to
\* it; a Tiingo row that adjusts some of its prices only is taken price by price.
OfRow(b, by, row) ==
    /\ b.date = DayOf(row.at)
    /\ CASE by = "alpaca" -> b.open = row.open /\ b.close = row.close
         [] by = "yahoo" ->
                /\ b.open * row.close = b.close * row.open
                /\ b.close = IF row.adjClose # None /\ row.close # 0 THEN row.adjClose ELSE row.close
         [] by = "tiingo" ->
                \/ b.open = row.adjOpen /\ b.close = row.adjClose
                \/ /\ {row.adjOpen, row.adjClose} \cap {None, Missing} # {}
                   /\ b.open \in {row.open, row.adjOpen} /\ b.close \in {row.close, row.adjClose}

FromAnswer(b, by, day) ==
    LET rows == Published(by, b.symbol, day) IN
    rows # Unknown /\ \E row \in ToSet(rows) : OfRow(b, by, row)

\* A bar of another basis never comes between the bars a run adds to a symbol's history,
\* however the provider revises it meanwhile and whatever is retried, failed or fetched
\* by other runs: while the run lasts, all it has added of a symbol is still in the
\* table, and comes from one answer of its provider, on one day since it began
\* (_fetch_with_retry, add_price, map_price, _adjusted, _get_symbol_prices).  Runs of
\* different days leave bars of different bases side by side.
OneAnswerPerSymbol ==
    \A r \in Run :
        /\ mine[r] \subseteq prices
        /\ \A s \in {b.symbol : b \in mine[r]} : \E day \in request[r].on .. today :
               \A b \in mine[r] : b.symbol = s => FromAnswer(b, request[r].by, day)

\* Progress is honest at every point: the symbols reported are the first of the
\* selection, and the batches still to be tried are the slices of the rest
\* (_import_batches, _report_progress).
Rest(r) == SubSeq(request[r].symbols, done[r] + 1, Len(request[r].symbols))

ProgressAddsUp ==
    \A r \in Run :
        /\ done[r] <= Len(request[r].symbols)
        /\ todo[r] = Batches(Rest(r), BatchSize)

\* Retries are bounded: a run ends, however often the source fails
\* (_fetch_with_retry).
RunsEnd == \A r \in Run : phase[r] \notin Ended ~> phase[r] \in Ended

=============================================================================
