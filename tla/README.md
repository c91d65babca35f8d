# mrmkt in TLA+

mrmkt imports market data into Postgres, backtests and screens it, sends orders
to a paper account, and watches live quotes for stored price triggers. This
directory models its own logic: the trigger engine, the trigger tables and their
commands, locally and over HTTP; the watch process and the message bus quotes
travel on; the imports of prices and fundamentals with their sources; the
symbol catalog and the reports made from it; the backtest; and the commands on
the broker's account.

Paths are relative to the repository; `mrmkt/` is short for `src/mrmkt/`.

## Inventory

| Component | Code | State it keeps | Operations |
|---|---|---|---|
| Trigger engine | `mrmkt/command/alerts.py` | per symbol: level, rule, arm state, spent, frozen, closes, last bar date | `set_rule`, `set_levels`, `set_history`, `seed_baseline`, `roll_daily_bar`, `on_tick` |
| Trigger store | `mrmkt/ext/repo/postgres/triggers.py`, `trigger_sets.py`, `ext/backend/postgres.py` | tables `trigger`, `trigger_set`, `trigger_set_member` | one transaction and one connection per SQL statement |
| Trigger commands | `mrmkt/command/create_trigger.py`, `delete_trigger.py`, `set_trigger_enabled.py`, `*_triggerset.py`, `mrmkt/web/api/triggers.py` | none between calls | several statements each, in CLI processes and web threads |
| In-memory backend | `mrmkt/ext/backend/memory.py` | the same data as Python objects | one method per operation |
| Remote backend | `mrmkt/ext/backend/api.py`, `ext/api_gen/`, `backend.py` | none | the trigger methods over HTTP, ten seconds each |
| Watch | `mrmkt/command/watch.py` | a snapshot of the selected triggers, an engine | select, configure, consume quotes, disable a fired `once` trigger |
| Engine process | `mrmkt/command/start_engine.py`, `ext/tiingo_stream.py` | a worker thread per symbol | make quotes of frames, publish each to the symbol's subject |
| Message queue | `mrmkt/ext/rabbitmq.py`, `QueuePriceSource` and `QueueLivePrices` in `mrmkt/composition.py` | consumers; the broker's queues | blocking `subscribe`, `publish`, `close` from another thread |
| Live streams | `live_ticks` in `mrmkt/composition.py`, `_live_events` in `mrmkt/web/prices.py` | a generator, its queue and its consumer thread per request | open, tick, keepalive, close |
| Price import and sources | `mrmkt/command/import_prices.py`, `ext/alpaca_prices.py`, `tiingo_prices.py`, `yahoo_prices.py` | counts, failed batches; table `daily_price` | ask a provider for days, adjust, retry, store, skip duplicates |
| Fundamentals import and source | `mrmkt/command/import_fundamentals.py`, `ext/tiingo_fundamentals.py` | the same, four tables | translate a payload, store, join caps with shares and closes |
| Symbols, features, tags | `mrmkt/command/import_symbols.py`, `symbols_*.py`, `*_feature.py` | tables `ticker`, `ticker_tag`, `feature` | read, then write row by row |
| Reports | `mrmkt/command/screen.py`, `signals_current.py`, `ranges.py`, `prices_freshness.py` | none | resolve a universe, read its bars, exclude, rank, explain |
| Backtest | `mrmkt/backtest/`, `mrmkt/command/backtest_run.py` | signals, fills, trades, daily sums | five strategies and a registry, fill lag, limits, stops, booking under a cap |
| Orders, account | `mrmkt/command/*_order*.py`, `list_positions.py`, `show_balance.py`, `ext/alpaca_trading.py` | the broker's | one or two calls to the broker each |

How they interact. The engine process reads the enabled triggers once and
publishes quotes of their symbols; the watch and the web streams consume the
same subjects; the watch evaluates each ask in a trigger engine in its own
memory and writes to the trigger tables when a `once` trigger fires. Operators
and web clients change those tables at any time, and nobody tells the watch; with
the remote backend they do so through HTTP requests to the web process, whose
threads run the same commands. Imports fill the bar tables that the reports and
the backtest read, and the universe of both comes from tags other processes edit.

What is hard there:

- the arm state of a symbol is earned by one print and spent by a later one,
  with session boundaries, expiry, daily bars and re-seeding in between;
- a command is several transactions, so commands interleave, and a client may
  die inside one;
- a remote caller may give up on a request that is still going to be handled;
- "this `once` trigger has alerted" is in the watch's memory first and in the
  store only after three statements, any of which may fail or be overtaken;
- a subject is a work queue with automatic acknowledgement shared by consumers
  that do not know of each other;
- closing a live stream is a callback into a thread that may not have connected
  yet, and the keepalive cancels the pending read of an async generator;
- imports retry, skip duplicates and may stop halfway, and providers restate
  their history while the table keeps what it has;
- a backtest must not read a bar it could not have known, fill at a price that
  was not there, or book a day twice or not at all;
- an order outlives the command that asked for it, and its answer may be lost.

What makes each component correct is stated by the properties of its run below.
`PROJECT.json` lists each hazard at its line with the properties that cover it.

## Modules

| Module | Models | Composes |
|---|---|---|
| `AlertEngine` | `AlertEngine`, `TriggerRule`, `session_at` | |
| `TriggerCatalog` | the trigger methods of the in-memory backend: what a store promises | |
| `TriggerStore` | the commands on Postgres, one step per statement | implements `TriggerCatalog` when commands take turns (`StoreImplementsCatalog`) |
| `RemoteTriggers` | callers on the remote backend, requests, answers, worker threads | extends `TriggerStore` |
| `Watch` | `WatchPrices`, operators at work, restarts | extends `AlertEngine` |
| `TiingoFrames` | what a stream makes of a websocket frame | |
| `PriceBus` | engine workers, broker, watch consumer, live streams | `TiingoFrames` |
| `PriceSources` | windows, adjustment and failures of the three price providers | |
| `ImportPrices` | price imports of several processes | `PriceSources`, `ImportBatches` |
| `ImportFundamentals` | a fundamentals import and the as-of join, next to a price import | `ImportBatches` |
| `TiingoFundamentals` | `build_symbol_fundamentals` | |
| `FilingsImport` | the import fed by that source | both |
| `ImportBatches` | the slicing of a selection, which imports and backtest do alike | |
| `Strategies` | entries and exits of the five strategies | |
| `StrategyRegistry` | parameters, `k=v` pairs and strategy files | `Strategies` |
| `Backtest` | the command, the runner's fills, `aggregate_trades` | `StrategyRegistry`, `ImportBatches` |
| `Screens` | the four reports as functions of tables and query | `StrategyRegistry` |
| `Catalog` | symbols, tags, features and the clients that change or report them | `Screens` |
| `Orders` | the order commands, the gateway and the broker | |
| `...Proofs` | theorems about a module | extend it |
| `MC...` | values of the constants for TLC | |

Definitions named "Deviation: ..." in a comment are plausible mistakes, one per
property. No specification uses them. Put in the place of the definition they
follow, each makes its property fail.

### AlertEngine

A variable per field of the dataclass; dictionaries are functions on `Symbol`
with `None` (or `"unknown"` for `armed`) where the key is absent. `on_tick` is
`OnTick`, with one action per branch in the order of the code's tests. `event`
is what the call gave to `on_alert` or `on_ignored`. `witness` is a history
variable: the ready-side print or close the arm state rests on. It is never read
by a guard.

Data abstracted: prices and levels are integers, of which only the order
matters. A moment is an Eastern day and minute with how far the timestamp's own
clock runs ahead of Eastern, because the code takes the session from Eastern
time and the expiry from the timestamp's date. A history of closes is its length
up to `MinHistory` and whether all closes are positive, which decides whether
`risk_range_series` returns nothing, raises, or gives a new level; the level
itself is any price. Rules, levels, freezes and histories are set only before
the symbol's baseline, which is how `watch.py` and `dry_run_alerts` use the
engine.

### TriggerCatalog, TriggerStore, RemoteTriggers

`TriggerStore` has a command in progress per client (`calls`), named after its
next statement and holding what the Python frame remembers. `Crash` drops it.
A toggle is `ToggleList`, `ToggleSelect`, `ToggleDelete`, `ToggleInsert`,
`ToggleRefresh`; the delete and the insert are two transactions, as in
`set_trigger_enabled`. `DeleteRows` includes the cascade of migration 12. A
refused insert is a `Duplicate`. `born`, `lost`, `raced` and `effect` are history
variables: triggers created and not deleted, dropped by a toggle that died or
met a duplicate, deleted while a toggle was under way, and the last change asked
for.

`serial` never changes and tells two kinds of behaviours apart. In those where
commands take turns the store implements `TriggerCatalog`: the refinement mapping
counts a row in the hands of a toggle as stored and forgets ids, and under it
every SQL step is a step of the catalog or stutters. Trigger sets are part of the
mapping; a toggle's cascade drops the memberships of its trigger in every set at
once, which the in-memory backend would keep, and the catalog allows for it
(`LoseMembers`). Of commands that overlap nothing of the kind is claimed.

In `RemoteTriggers` the clients of `TriggerStore` are the worker threads of the
web process. A caller's command is a sequence of requests, and `Hears` pairs an
answer with the request it is blocked on. `GiveUp` is the ten-second timeout or a
lost connection: the request may still be in `requests` or being served.
`Work` runs the statements, any of which may fail (`Crash`), as when the
connection pool is exhausted; the worker then answers 500. `seen` is a history
variable: what was true of a command's target while it ran.

### Watch

`StartTriggers` and `StartSymbols` are `_resolve_symbols`; `Configure` is the
loop of `_stream` and writes the engine's variables;
`HandleQuote` is a step of `OnTick` and what `consume_signal` does with
its alert; the three `Persist` actions are the statements of
`set_trigger_enabled`, run inside the message callback, so no quote is handled
between them. `Stop` is Ctrl+C, a crash or an exception at any point. `alerted`
and `unsaved` are history variables: names that alerted since they were last
enabled, and names whose alert could not be recorded. Operators' commands are one
step each here; `TriggerStore` takes them apart. A watch is given no history, so
its engine never rolls a bar.

### TiingoFrames and PriceBus

A frame is a sequence of elements in either of the two layouts; a worker takes
those of its symbol that have a price of each side or a reference to stand in.
Quotes of a symbol are numbered as they are published; one that cannot be
published drops the rest of its frame. The watch consumes the subjects of
`Wanted` one after another because the queue's `subscribe` blocks. A live stream
is a request (`response`), its generator and its thread. `BrokerRestart` drops
what the queues hold (messages are not persistent) and ends every open
subscription. `last`, `leaked`, `delivered` and `lost` are history variables.

### Imports

A run is `execute` from the selection on: `Start` slices the selection,
`FetchFails` counts an attempt or gives the batch up, `FetchSucceeds` leads to the
rows, which are added one transaction each. `AddPriceRaises` and `StoreRaises` are
exceptions other than `Duplicate`, which pass through `execute` and lose the
result; `Kill` is the end of the process anywhere. A run may be started again and
finds the rows of the one before, on a later day and with another provider.
`ImportPrices` has several runs at once.

`PriceSources` gives each provider its window of days, its end (exclusive for
Yahoo), its adjustment and what one unknown symbol or one unreadable row does to
a batch. Times are hours, so the day of a row depends on the provider's clock as
in the code. Providers restate history after a dividend; the table does not.
What a provider answers with on a day is up to `FeedAssumption`, which asks of each
what the code takes for granted. Alpaca's bars have their prices. Yahoo's columns hold
numbers or null, and the unit of a price is small enough for the close to divide what it
scales (the code computes with floats). A Tiingo row is read field by field, and
any of its fields may be a number, null or `Missing`: a row that adjusts one price
only gives a bar with one adjusted and one raw price, a null raw price gives a stored bar
without that price, and a missing one is a `KeyError` that fails the batch.
The symbols of a request differ, because `execute` takes them through
`dict.fromkeys` (`command/import_prices.py:152`).

Two fields are history. `on` of a request: a run owes the days its provider had on
every day since it began, as a day that a provider takes back while the run fetches
is not missing. `mine`: the bars a run has added. `OneAnswerPerSymbol` says of them
what the code does guarantee, that those of one symbol stay as they were added and are
the rows of one answer of one day. It does not say that they are in one basis with
each other or with older bars: see the divergences.

`ImportFundamentals` follows one run. The statements of a symbol come first, then
`ListBars` reads the bars once, and the join goes through the days:
`AdvanceShares` and `AdvanceBar` are the two inner loops, `JoinDay` the body.
`bar` and `shares` stand for the two indices. `SkipJoin` is also the `except
Exception: return 0` around `list_prices`, so a run may succeed without joining.
`AddBar` is a price import at work next to it. `due` and `before` are history
variables. `TiingoFundamentals` says which sections of which filings become rows,
with repeated dates, null values and dates that cannot be parsed.

Data abstracted: stored rows are known by their keys, and bars also by the basis
they were adjusted to. Back-off delays have no effect on state.

### Strategies, StrategyRegistry, Backtest

A frame is one sequence per column, prices are natural numbers and `NaN` is a day
without a bar. Rolling windows, shifts, crossings, holding counters and the
rotation's schedule follow the pandas code cell by cell. The standard deviation
of log returns is replaced by the swing of the closes over the same window, so
which cells a window reads is exact and what it computes from them is not.
Window lengths are constants, small in TLC.

The registry knows the parameters of each strategy, which values they take, and
that a file may raise, register nothing, register something else or register a
name a second time.

`Backtest` runs one command: `Refuse`, `SelectNothing` and `LoadNothing` are its
early ends, `Load` makes the frames of the chunks, `GenerateSignals`,
`Fail`, `RunChunk` and `CutWindow` are the runner's part (signals, fill lag, limit
touch, stop, last bar), and `SkipFull`, `Book` and `BookLastBar` step through the fills in order of entry as
`aggregate_trades` does, under `MaxPositions`. Money is counted in whole price
units and fees as a number of sides. Symbols given by name are assumed to differ
(`BacktestAssumption`): one that is typed twice, in two chunks, would be traded
twice (`command/backtest_run.py:139`), and records are a set here.

`StopFill` is what the runner gets from the stop it sets. The limit fill is the code's
own: it sells at the stop when the low reaches it. The close fill is left to vectorbt,
which is given closes, highs and lows but no opens, and so takes the close for the open: it sells
at the close when that is at or below the stop already, else at the stop when the bar
reaches across it. `Top` is the close where a high is missing. vectorbt refuses an
order at a price of 0; the model passes it over.

### Screens and Catalog

`Screens` defines the four reports as operators on bars and query, in the order
of the code's checks, because a symbol is counted under the first rule that
excludes it. `Catalog` has a client per process with one command each: imports,
labels and feature commands write row by row, a report reads the universe tag by
tag, then the bars of each symbol. Every SQL statement is a step and a client may
be killed between two. `during` is a history variable: the tags that were there at
some moment, and all the time, since a report started. A stored bar has all of its
prices, as natural numbers (`DailyBar`), days are numbered from 1, and the options of a
query are numbers (`CatalogAssumption`); a missing bar is a day without one.

### Orders

A terminal runs one command at a time; `wire` is where its call is. `Break` is
any exception of the call, before, during or after the broker handled it, and
what was given up stays in `late` and may arrive. `cancel` is a read and then a
cancel. The gateway builds an order without a `client_order_id`
(`ext/alpaca_trading.py:133-144`) and leaves sending it to alpaca-py, which is outside
this repository. The model assumes of it that it sends any request again that
was answered with 504, by default up to three times, whatever became of the first
(`Resend`, `MaxResends`), and that it does so after no other failure. The requests of one
submission are numbered (`Try`), and the broker cannot tell that they belong
together, so one create may place as many orders as it sent requests. Reads and
cancels may be sent again without limit. `MaxLate` bounds how many requests are
late at a time; any other that is given up is lost. The
broker fills, expires and cancels orders on its own. Ids in `Misread`
are those that make an error text contain "404". `calls`, `known` and `canceled`
are history variables.

## Runs

| Run | Question | Bounds |
|---|---|---|
| `engine_core` | Can any order of configuration, ticks and daily bars fake, lose or repeat an alert? | one symbol, two prices, six moments, twelve rules, both policies, two bar dates, `MinHistory` 2 |
| `store_races` | What can two clients do to each other's triggers and sets, and do commands that take turns do what the catalog promises? | two clients, two names, two keys, two sets, four ids |
| `store_answer` (violation) | Is a successful toggle answered with success? | as above, no sets |
| `remote_calls` | Was what a remote command says true, and is a definite answer final? | two callers, two workers, three requests, two names and keys, three ids |
| `watch_once` | Does a `once` trigger alert once per enabling, over restarts and crashes? | two symbols, three triggers, three moments, four ids |
| `bus_quotes` | Are quotes duplicated, reordered or unaccounted for, and do closed streams stop? | two symbols, a watch of both, one live stream, two frames, two quotes per symbol |
| `bus_ping` (violation) | Does a stream survive its first keepalive? | one quote |
| `import_runs` | Is a successful import complete, does what a run adds of a symbol come from one answer, are its counts exact, does it end? | two runs, three symbols, three providers, three dates, batches of two, two attempts |
| `fundamentals_joins` | Is a value as of its day, are the filings stored, is the count exact? | three symbols in batches of two, four days, four filings and five caps of one symbol |
| `backtest_runs` | Does a signal look ahead, is every fill at a price the market had but for orders the bar gapped below, is every trade booked once under the cap? | two symbols, six days, some 1250 price tables with gaps and a close of 0, 27 requests |
| `catalog_races` | Do counts match the tables, is a universe made of tags that were there, does a screen rank and cut fairly, do reports agree with themselves? | two clients, three symbols, two exchanges, two tags, six days, nine histories, some 30 reports |
| `orders_book` | Does a command submit its order once, each request of it placing at most one, and is what a command says of an order so? | two terminals, two ids (one misread), two submissions, two kinds of order, one request sent again, one late at a time |

Why the bounds are enough. Symbols do not influence each other in the engine, so
one is enough there. Two prices put a print on either side of a level and let a
level move past a print. The moments are the last minute before the open, the
open, post, closed, a weekend and the last regular minute, with a UTC stamp whose
date is a day ahead. Two clients are enough for every pair of statements of two
commands to interleave, and four ids let a row be created, toggled twice and
created again, so stale ids occur. With two sets a cascade takes memberships of
more than one. Three requests are a complete toggle, or a
command that is given up next to another. In `watch_once` two triggers share a
symbol, one level is computed and one fixed, one rule expires on the second day,
and the ids a running watch still needs are kept back so that the bound never
stops it. In `bus_quotes` the stream competes with the watch for a subject, and
two quotes are enough to be out of order. In the imports a full batch and a rest
of one are fetched, a symbol has no data or is unknown, two attempts are a retry
and a give-up, and a dividend falls between two runs or between two attempts of one. Tiingo's
rows have one adjusted price, a null close or no close, on different days. The days of the join have
filings on and between them, a day before any filing, days without a bar, and a
bar that may be imported late. The price tables of the backtest have gaps at
either end and inside, dips below and touches of a limit, a stop hit on the day
of the entry and after it, and signals on the last bar; one place under the cap
makes every second entry compete. The histories of the catalog have ties, halted,
late and missing symbols and bars that break the rules of freshness; entries of
every strategy occur. Two and three names are tied for the last places of a screen of one or
two, behind better names and next to worse. Two submissions are enough to confuse their
orders, and a request and its repetition are two orders of one submission.

Deadlock is checked except where a command, once done, is not followed by another
(`backtest_runs`, `catalog_races`) or the bound on requests is reached
(`remote_calls`). Symmetry is used in `store_races`, `remote_calls` and
`orders_book`, which check invariants and steps only, none of which tells the
permuted values apart. `remote_calls` also leaves the history variables of
`TriggerStore` out of its states: nothing there reads them.

Fairness. `Watch` assumes that a callback of the stream runs to its end
(`WF_vars(Persist)`): it is one thread with nothing else to run, and a crash
inside it is the action `Stop`. `PriceBus` assumes that a connection attempt of
the watch ends, that a client handles what it was sent, that the broker delivers
a message when some consumer is attached, and that `stop_consuming` runs in a
thread told to stop. The imports are sequential programs: a run that is neither
killed nor ended takes its next step, and a fetch may fail each time. Nothing is
assumed of operators, browsers, publishers, the network's failures or restarts.
Of remote callers, reports, backtests and orders only safety is stated.

## Divergences met while modelling

Two are shown by a run:

- `store_answer`: on Postgres a toggle retires the row's id, so
  `SetTriggerEnabled` cannot find the row it has just changed and answers with an
  error. The scenarios that expect success run on the in-memory backend. Over the
  remote backend the caller gets a 500 although the row was toggled, which ends a
  remote watch at its first `once` alert (`command/watch.py:133`).
- `bus_ping`: the 20 second timeout of `_live_events` cancels the read of
  `live_ticks`, whose `finally` ends the stream.

The models follow the code in these, too:

- Enabling or disabling a trigger on Postgres takes it out of its trigger sets
  (`ext/repo/postgres/triggers.py:88` and the foreign key of `migration12`); in
  memory its memberships stay (`ext/backend/memory.py:304`).
- `roll_daily_bar` re-arms a spent `once` symbol on a computed level
  (`command/alerts.py:301` against 143). Nothing in the watch rolls bars;
  `dry_run_alerts` does.
- `watch --all-triggers` selects expired triggers (`command/watch.py:93`,
  `docs/alerts.md:38`).
- A watch of two symbols hears the first only: `QueuePriceSource.subscribe` blocks
  (`composition.py:481`, `docs/alerts.md:26`). `MessageQueue.publish` is documented
  as a broadcast, but subjects are work queues.
- A strategy over a universe fails when the calendars of its chunk differ
  (`backtest/portfolio.py:111`); the close of the last bar of a trade under the cap
  is counted with the day's open positions (409-412); an exit signal on a day
  without a close is lost; a rotation's warm-up holding swallows an entry of the
  window; a report may say `no_trades` though open positions were booked.
- A strategy file that is loaded twice in one process is refused as already
  registered (`backtest/strategy/registry.py:54`).
- `signals current` on an empty store ends in an exception
  (`command/signals_current.py:187`); the rotation's attribution fails when
  the report's date is in its frame and the symbol has no rank on it (446); an entry of buy-red at a buy level of 0 is
  shown without its touch (499).
- `screen` divides by a close that may be zero before it tests what would have
  excluded the symbol (`command/screen.py:291`).
- Two `feature delete`s that race may both report the same rows
  (`ext/repo/postgres/features.py:30`).
- Stored history is not revised after a split, a dividend or a provisional bar, so
  bars of runs of different days may be in different bases side by side.
- Adjusted and raw prices also meet in one answer. A Tiingo row that has one adjusted
  field gives a bar of both (`ext/tiingo_prices.py:102`), and a field that is null gives
  a bar without a price, which is stored. A Yahoo row whose adjusted close is
  null is left unadjusted between adjusted ones.
- A limit that the bar gapped below is filled at the limit, more than the market
  asked; `backtest/strategy/runner.py:40` calls this conservative. A stop that the bar gapped below
  is filled at the stop, better than the market paid (`backtest/portfolio.py:181`);
  `plans/buy_red_validation.md:52` and 161 ask for something else.
- A create may place several orders: alpaca-py may send the request again, and the order
  carries no `client_order_id` (`ext/alpaca_trading.py:133`).
- `order create` is documented as good till canceled (`docs/orders.md:7`,
  `command/create_order.py:26`) and defaults to a day order (17). An error text
  with "404" in it is taken for an unknown order (`ext/alpaca_trading.py:109`,
  151). An answer to a submitted order that cannot be read is reported as invalid
  data (`command/create_order.py:67`). "canceled order" is printed when the cancel
  was accepted; the order may still be filled.

## Proofs

The theorems hold for every value of the constants that the assumption of the
module allows. Each rests on an inductive invariant; the step that preserves it
goes over kinds of steps, one lemma per kind, and under each over its conjuncts.
The modules proved about use no `RECURSIVE` operator.

- `TriggerProofs`, on the store: `MembersAreStored`, `CreatedIsAccountedFor` and
  `DeletedStaysDeleted`, for any number of clients, names, sets and ids. The
  invariant adds `RowsOK` (ids are given once, names are unique) and `CallsOK` (a
  row remembered by a command still has the name it had, if it is there at all).
  Without the first an old id could delete a new row. Kinds: `Moves`, `Inserts`,
  `Deletes`.
  The same module proves the refinement, `ImplementsCatalog`. Its invariant is
  about commands that take turns: at most one is under way, and what it has found
  is still so (`TurnOK`), as nobody else wrote meanwhile. So every statement is a
  step of the catalog, where the mapping makes it seen, or a stutter; without turns
  the mapping is constant and nothing is claimed. With more than one set the proof
  needs `LoseMembers`.
- `WatchProofs`: `AlertedIsDisabled` and `OnceAlertsOncePerEnabling`, for any
  names, symbols, rules and clock. Three memories must agree that a `once` trigger
  has alerted: the watch's snapshot (`SnapshotOK`), the engine's spent symbols
  (`SpentOK`, `AlertedIsSpent`) and the rows. Between the delete and the insert of
  a disable the row is in none of them, so the invariant also counts the ids the
  running watch is still owed (`RoomOK`). No fairness is used.
- `WatchProofs`, on the engine: all seven properties of `engine_core`, for every set of
  prices, moments, rules, bars and policies and any finite set of symbols. These are theorems
  of `EngineSpec`, which `Watch` extends and whose own steps the watch does not limit.
  The invariant is `EngineTypeOK`,
  `ArmedIsWitnessed`, `SpentStaysDisarmed` with `SpentIsOnce`, and
  `SpentHasBaseline`: the alert of a `once` symbol empties its arm state and only
  a baseline or a rolled bar fills it again, and a baseline precedes every alert,
  so no configuration comes after one. `InvConfigure`, `InvJudge`, `InvFire` and
  `InvQuiet` are the kinds of steps. That a fired symbol stays quiet uses
  `SpentStaysDisarmed` for crossing rules and `SpentIsOnce` for holding ones.
- `PriceBusProofs`: `QuotesAreSeenInOrder` and `EveryQuoteIsAccountedFor`, for any
  number of symbols, streams and quotes. Of one symbol the quotes a client has seen come before those it was
  sent, and these before those the broker holds (`SeenOK`, `InboxOK`, `QueuesOK`);
  two clients are never sent the same quote (`ApartOK`). The ends of connections
  matter most: what is left of an inbox must still be of the symbol the client
  reads (`Kept`). Kinds: `PublishesInv`, `LooksInv`, `DiscardsInv`, `DeliversInv`, `DropsInv`,
  `RestartInv`. A frame has one usable element less when its head was one
  (`UsableFacts`), so what a worker could use adds up (`FramesOK`), which bounds the
  quotes (`WithinBounds`).
- `TriggerProofs`, on remote commands: `AnswersAreFinal`, for any number of callers, workers
  and requests. The invariant is about the numbers of requests: one in flight is
  in one place only, an answer is in flight only after its request is not, and a
  caller who waits has nothing of the command under way but the request it waits
  for. So `Hears` settles a command, and only `GiveUp` leaves something behind.
  Kinds: `Sends`, `Ends`, `Forwards`. And `AnswersWereTrue`, with a second invariant
  that goes along with a command (`TruthOK`): what its caller has seen of the table
  (`NowSeen`), what its request asks for (`Asks`), how far the worker got with it
  (`Serving`) and what the answer will say (`Replied`). A DELETE goes by an id read
  off a listing, so the proof needs that the row of this id keeps its name until it
  goes (`IdHolds`, from `KeysOK`). Kinds of statements: `RowsMove`, `Does`; of
  callers: `SendsTrue`, `EndsTrue`.
- `OrdersProofs`: `OneOrderEach` and `AnswersMatch`, for any number of
  terminals, orders, submissions and repetitions, under what is assumed of alpaca-py
  above. A request is with the broker, on its way or
  late, in no two of these places, and the requests of a submission go out one after
  another, so a new one has a number no order or late request has (`NumbersOK`). What is asked
  passed the checks (`AskedOK`), and what a
  terminal has heard was so when the broker said it (`HeardOK`). Kinds: `Asks`,
  `Ends`, `Places`, `Keeps`, and `ResendInv` for the repetition.
- `ImportFundamentalsProofs`: `ImportTypes`, `JoinIsAsOf`, `RunCountIsExact`,
  `SuccessIsWhole` and `FiledIsStored`. For the first two the invariant adds that the shares the join
  holds are of an earlier filing than the ones to come (`SharesAreBehind`), where the
  loop is (`AtWork`, which needs that slicing gives sequences of symbols,
  `BatchesType`), and that tables are finite. For the other two it adds what the
  count owes to the symbol in progress (`CountOK`), that a selected symbol is in a
  failed batch, stored or still to come (`CoveredOK`, `RowsOK`; the slices leave no
  symbol out, `BatchesCover`), and that a day that can be joined has its value or
  lies before neither cursor (`DueOK`, `BarIsBehind`). The last is about the import as
  the source feeds it: rows and days on their way are the source's (`RowsAreFiled`,
  `DaysHaveCaps`), and sorting by date loses and adds no filing (`ByDateIsAll`), which
  needs that finitely many dates can be put in order (`OrderExists`, by the smallest
  set for which it would fail, `SmallestSet`).

- `ImportPricesProofs`: `TypesAndProgress`, `CountsAlwaysAddUp`, `OneAnswer` and
  `SuccessIsAlwaysComplete`, for any number of processes, selection, batch size,
  retry limit and feed. The first is nearly inductive as it stands: the batches
  still to be tried are the slices of what is left of the selection
  (`BatchesSplit`), and what is being stored belongs to the first of them
  (`AtWork`, `RequestOK`). For the others it takes with it that the counts of the
  runs and of the runs before them are the number of keys (`CountOK`, `TotalsDiffer`:
  a sum moves by what one term moved), that the bars of a symbol that a run has added or is
  storing come from one answer, and that it has none of a symbol whose batch is still
  to come (`AnswersOK`; batches of symbols that differ share none, `BatchIsApart`,
  `BatchIsOfRest`), and that each selected symbol has failed, has
  its due days in the table, has them among the bars being stored, or is in the rest
  (`CoveredOK`). `WindowDays` says that the three forms of a window mean the same
  days. Flattened sequences and sums are recursive functions of the library;
  that they exist, and what one more element adds, is shown by the least number
  for which it would fail (`LeastNat`).

- `BacktestProofs`: `HonestFills`, `ExactCap`, `BalancedBooks`, `RotationFollowed` and `NoPeek`, for
  any symbols, days, price tables with gaps, requests, windows of the strategies
  and `MaxPositions`. `RunInv` says of the records that
  each was bought and sold at prices its bars allow (`Honest`), on days of its frame (`Within`) and that those
  of one symbol do not overlap (`Disjoint`), and of the chunks to come that they are frames
  of symbols no record has (`ChunksOK`), which needs that slicing never puts a
  symbol in two chunks (`BatchesAreApart`). One chunk is shown row by row
  (`RowKeepsColumn`, `FillsByRow`, by the least row that would fail): a row keeps
  that what is held was bought on an earlier row and rode every bar since, and that
  a frame lists every day its column has a bar (`BetweenRows`, `AscendingLists`);
  nothing is assumed of the signals. `CapInv` counts `open` and `opened` as numbers
  of booked records (`Counted`), in the order they are taken; a later day never
  has more of them than the entry day has open and opened (`TakenRecord`), which is
  why testing the cap on the entry day alone is enough. `BookInv` says that `marks` are
  the marks of the booked records (`MarksMade`), each its own since no other record
  of a symbol has its entry day, and that `fees` sum to one per side; the marks are
  then shown to lead from one to the next over missing and worthless closes
  (`MarksLead`) to the exit (`MarksEnd`). That prices are numbers needs that sums
  of windows are (`WindowSum`) and that a level no bar reaches is never traded at
  (`FillIsTraded` for entries; `StopFillSells` and `StopIsAPrice` for stops).
  The other two need `SignalInv`: while a chunk is filled, `signals` are what the
  strategy generates from the frame that is loaded. The plan of a
  rotation holds what its entries and exits add up to (`PlanOK`, kept by a rebalance
  and by every other row); the
  functions that are built row by row exist because the first row without a value
  would have one (`RowsExist`). For `NoPeek`, two frames that agree but for the last
  row (`FramesAgree`; `PrefixIsPast` for a frame and its prefix) give the same
  windows, hence the same means, extremes, swings, returns and ranks, and by rows
  the same index, gate and plan (`GeneratedAgree` puts the five strategies together).

- `CatalogProofs`: `UniverseTagged` and `BalancedCounts`, for any clients, tables and
  well-formed commands (`WellFormed`). `UniverseInv` goes along with the reading of a
  universe: the tags still to be read come with the included ones before the excluded
  ones (`InOrder`), and what was found so far is what the tags read so far allow, between
  the rows that were there all the while and those that were there ever (`Resolves`).
  A step of another client only widens these bounds (`OthersKeepUniverse`). `CountInv`
  says that a call fits its command and has no more to do than was there (`Fits`), and
  that what was counted is what the tables gained and lost (`Balanced`); a count is taken as
  the set of the numbers up to it, so that the lemmas on finite sets add the counts of any
  number of clients. A deletion that nothing else raced still finds what it counted.
  Kinds: `QuietKeeps`, `MaybeMore`, `FeatureChange`.
  `FairScreens` and `ExplainedSignals` are about what a report computes, for any bars:
  `ReportInv` says that the answer of a report that is done is the operator of its kind
  applied to the universe it read and the bars, which nothing writes here, and the rest
  is about the operators. For a screen the measures are numbers once the floors leave
  enough bars (`CandidateIsMeasured`, with `ScreenAssumption`: the short average fits
  into the formation floor), a mean rank grows with its measure (`TiedRanks`), so a
  better name scores no less (`BetterScores`), the names ahead of it are among those
  ahead of the other (`AheadGrows`), and its place is their number (`RankedInOrder`, hence
  `RanksBetterFirst` and `RanksOnce`). A cut keeps the first of them (`CutIs`), so no better name is left out for a
  worse (`CutKeepsTheBest`);
  the reasons part the universe (`EveryoneIsAccounted`). For signals the frame lists
  the days in order, none after `asOf` (`FrameIs`), every entry is on a row of the frame
  (`CellsOfTheFrame`, by rows for the rotation's plan) where the symbol has a bar of its
  own (`EntriesAreKnown`), so the last entry is dated `asOf` only when it is on the newest row
  (`LastOfCells`); and the legs are the conjuncts of the entries (`BuyRedShows`,
  `PullbackShows`). The proof of `LegsExplainSignals` found a case the small instance
  does not hold: `_buy_red_attribution` shows no touch where the buy level is 0
  (`command/signals_current.py:499`), so where that level meets a low of 0 an entry is
  signalled with a leg missing. The property says so.

Only model-checked: liveness (`AlertsAreSettled`, `RunsEnd`, the streams' ends),
which is out of the reach of these provers as is `ENABLED`. Every invariant and every
action property of a passing run is proved.

## Not modelled

- `session_at` knows no holidays; neither does the model.
- Indicators and summary statistics compute with floats. The engine takes its
  level as an input; strategies and reports use an integer measure over the same
  window. The indicator commands read one series and change nothing.
- The vectorbt simulation is external: an order per signal at the price the runner
  gives, and the stop as `StopFill` has it, are modelled from its use.
- alpaca-py, the broker and the market data services are external, with the
  assumptions named above.
- The no-peek probe (`backtest/nopeek.py`) tests by truncation what
  `SignalsNeverPeek` states for the modelled strategies.
- The field checks of `CreateTrigger` and of the request objects of the imports:
  requests here are those that pass, or one that does not.
- Sinks, message templates, rendering, CSV and HTML have no state. `FanoutSink`
  is built by no command.
- The control subject of the engine: nothing publishes to it.
- `ext/fmp.py` is reached by no command.
- A prices page or quote command is one read.
