------------------------- MODULE ImportFundamentals -------------------------
(***************************************************************************)
(* mrmkt fundamentals import (src/mrmkt/command/import_fundamentals.py):   *)
(* per symbol, a run adds the filed statements, then joins the daily       *)
(* market caps with the latest share count filed and the latest bar stored *)
(* on or before each day, and adds an enterprise value per day, each row   *)
(* in a transaction of its own.  A price import adds bars at any time; a   *)
(* run may fail or be killed at any row, and be started again later.       *)
(* A share count is known by its filing date, a bar by its date.           *)
(***************************************************************************)
EXTENDS Integers, Sequences, FiniteSets, ImportBatches

CONSTANTS
    Symbol,
    Selection,  \* the symbols a run may select, in order
    Date,
    Statement,  \* filed statements, whatever their kind
    Statements, \* the statements the source has, per symbol, in order
    Shares,     \* the dates of filings with a share count, per symbol
    Caps,       \* the dates with a market cap, per symbol
    Traded,     \* the dates with a bar, per symbol
    BatchSize,  \* batch_size
    MaxAttempts,\* max_attempts
    None

ASSUME FundamentalsAssumption ==
    /\ Date \subseteq Int
    /\ Selection \subseteq Seq(Symbol)
    /\ Statements \in [Symbol -> Seq(Statement)]
    /\ Shares \in [Symbol -> SUBSET Date]
    /\ Caps \in [Symbol -> SUBSET Date]
    /\ Traded \in [Symbol -> SUBSET Date]
    /\ BatchSize \in Nat \ {0}
    /\ MaxAttempts \in Nat \ {0}
    /\ None \notin Date

VARIABLES
    bars,       \* table daily_price: dates stored, per symbol
    statements, \* tables income_stmt, balance_sheet and cash_flow
    values,     \* table enterprise_value
    phase,      \* what the run is doing, or how it ended
    today,      \* the day of the run
    selected,   \* selected_symbols
    todo,       \* batches, the current one first
    attempt,    \* failed fetches of the current batch
    batch,      \* symbols of the fetched batch, the current one first
    rows,       \* statements of the current symbol, not yet added
    left,       \* daily_caps not yet joined
    listed,     \* bars of the symbol as the join read them
    bar,        \* bars[bar_index], the bar the join stands at
    shares,     \* the share count the join stands at
    stored,     \* rows of the current symbol that were new
    imported,   \* result.imported
    failed,     \* result.failed_batches
    before,     \* history: rows in the tables when the run started
    due         \* history: days that had shares and a bar when they were read

tables == <<bars, statements, values>>
cursor == <<left, listed, bar, shares>>
batching == <<selected, todo, attempt, batch, failed>>
vars == <<tables, phase, today, batching, rows, cursor, stored, imported, before, due>>

Ended == {"idle", "success", "raised", "killed"}
Value == [symbol: Symbol, date: Date, bar: Date, shares: Date]

TypeOK ==
    /\ bars \in [Symbol -> SUBSET Date]
    /\ statements \subseteq Symbol \X Statement
    /\ values \subseteq Value
    /\ phase \in Ended \cup {"fetching", "statements", "joining"}
    /\ today \in Date
    /\ selected \in Seq(Symbol)
    /\ todo \in Seq(Seq(Symbol))
    /\ attempt \in 0..(MaxAttempts - 1)
    /\ batch \in Seq(Symbol)
    /\ rows \in Seq(Statement)
    /\ left \subseteq Date
    /\ listed \subseteq Date
    /\ bar \in Date \cup {None}
    /\ shares \in Date \cup {None}
    /\ stored \in Nat
    /\ imported \in Nat
    /\ failed \in Seq(Seq(Symbol))
    /\ before \in Nat
    /\ due \subseteq Symbol \X Date

Init ==
    /\ bars = [s \in Symbol |-> {}]
    /\ statements = {} /\ values = {}
    /\ phase = "idle"
    /\ today \in {d \in Date : \A e \in Date : d <= e}
    /\ selected = <<>> /\ todo = <<>> /\ attempt = 0 /\ batch = <<>>
    /\ rows = <<>> /\ failed = <<>>
    /\ left = {} /\ listed = {} /\ bar = None /\ shares = None
    /\ stored = 0 /\ imported = 0 /\ before = 0 /\ due = {}

-----------------------------------------------------------------------------
(* Helpers. *)

Rows == Cardinality(statements) + Cardinality(values)
Earliest(d, S) == d \in S /\ \A e \in S : d <= e
Latest(d, S) == d \in S /\ \A e \in S : e <= d
UpTo(S, d) == {e \in S : e <= d}

Current == batch[1]

\* The filings and the bars the join has not come to.
Unread == IF shares = None THEN Shares[Current] ELSE {f \in Shares[Current] : f > shares}
Later == {b \in listed : b > bar}

\* Days of a symbol with a filing and a bar on or before them.
Joinable(s, caps, dates) ==
    {<<s, d>> : d \in {c \in caps : UpTo(Shares[s], c) # {} /\ UpTo(dates, c) # {}}}

NextBatch ==
    /\ todo' = Tail(todo)
    /\ attempt' = 0
    /\ phase' = IF Len(todo) = 1 THEN "success" ELSE "fetching"

LeaveJoin == left' = {} /\ listed' = {} /\ bar' = None /\ shares' = None

\* Deviation: the count of a symbol is carried into the next one.
NextSymbolKeeps ==
    /\ imported' = imported + stored
    /\ batch' = Tail(batch)
    /\ LeaveJoin
    /\ IF Len(batch) > 1
       THEN /\ phase' = "statements"
            /\ rows' = Statements[batch[2]]
            /\ UNCHANGED <<todo, attempt>>
       ELSE rows' = <<>> /\ NextBatch
    /\ UNCHANGED stored

\* _store_symbol returns to the loop over the batch.
NextSymbol ==
    /\ imported' = imported + stored
    /\ stored' = 0
    /\ batch' = Tail(batch)
    /\ LeaveJoin
    /\ IF Len(batch) > 1
       THEN /\ phase' = "statements"
            /\ rows' = Statements[batch[2]]
            /\ UNCHANGED <<todo, attempt>>
       ELSE rows' = <<>> /\ NextBatch

-----------------------------------------------------------------------------
(* The run: fetching. *)

Start(symbols, day) ==
    /\ phase \in Ended
    /\ day >= today
    /\ today' = day
    /\ selected' = symbols
    /\ todo' = Batches(symbols, BatchSize)
    /\ phase' = IF symbols = <<>> THEN "success" ELSE "fetching"
    /\ imported' = 0
    /\ failed' = <<>>
    /\ before' = Rows
    /\ due' = {}
    /\ UNCHANGED <<tables, attempt, batch, rows, cursor, stored>>

FetchSucceeds ==
    /\ phase = "fetching"
    /\ phase' = "statements"
    /\ batch' = todo[1]
    /\ rows' = Statements[todo[1][1]]
    /\ UNCHANGED <<tables, today, selected, todo, attempt, failed, cursor,
                   stored, imported, before, due>>

\* Deviation: the limit is compared before the failure is counted.
FetchFailsLate ==
    /\ phase = "fetching"
    /\ IF attempt < MaxAttempts
       THEN attempt' = attempt + 1 /\ UNCHANGED <<phase, todo, failed>>
       ELSE failed' = Append(failed, todo[1]) /\ NextBatch
    /\ UNCHANGED <<tables, today, selected, batch, rows, cursor, stored, imported,
                   before, due>>

FetchFails ==
    /\ phase = "fetching"
    /\ IF attempt + 1 < MaxAttempts
       THEN attempt' = attempt + 1 /\ UNCHANGED <<phase, todo, failed>>
       ELSE failed' = Append(failed, todo[1]) /\ NextBatch
    /\ UNCHANGED <<tables, today, selected, batch, rows, cursor, stored, imported,
                   before, due>>

-----------------------------------------------------------------------------
(* The run: storing a symbol. *)

AddStatement ==
    LET key == <<Current, Head(rows)>> IN
    /\ phase = "statements"
    /\ rows # <<>>
    /\ rows' = Tail(rows)
    /\ statements' = statements \cup {key}
    /\ stored' = IF key \in statements THEN stored ELSE stored + 1
    /\ UNCHANGED <<bars, values, phase, today, batching, cursor, imported, before, due>>

\* Nothing to join: no caps, no shares, no bars, or an exception of list_prices,
\* which is taken for no bars.
SkipJoin ==
    /\ phase = "statements"
    /\ rows = <<>>
    /\ NextSymbol
    /\ UNCHANGED <<tables, today, selected, failed, before, due>>

ListBars ==
    LET caps == UpTo(Caps[Current], today) IN
    /\ phase = "statements"
    /\ rows = <<>>
    /\ caps # {} /\ Shares[Current] # {} /\ bars[Current] # {}
    /\ phase' = "joining"
    /\ left' = caps
    /\ listed' = bars[Current]
    /\ bar' \in {d \in listed' : Earliest(d, listed')}
    /\ shares' = None
    /\ due' = due \cup Joinable(Current, caps, listed')
    /\ UNCHANGED <<tables, today, batching, rows, stored, imported, before>>

\* Deviation: the loop over the filings does not move its index.
AdvanceSharesIdle ==
    /\ phase = "joining"
    /\ \E day \in left, f \in Unread :
        /\ Earliest(day, left) /\ Earliest(f, Unread)
        /\ f <= day
        /\ UNCHANGED vars

AdvanceShares ==
    /\ phase = "joining"
    /\ \E day \in left, f \in Unread :
        /\ Earliest(day, left) /\ Earliest(f, Unread)
        /\ f <= day
        /\ shares' = f
        /\ UNCHANGED <<tables, phase, today, batching, rows, left, listed, bar,
                       stored, imported, before, due>>

AdvanceBar ==
    /\ phase = "joining"
    /\ \E day \in left, b \in Later :
        /\ Earliest(day, left) /\ UpTo(Unread, day) = {}
        /\ Earliest(b, Later)
        /\ b <= day
        /\ bar' = b
        /\ UNCHANGED <<tables, phase, today, batching, rows, left, listed, shares,
                       stored, imported, before, due>>

\* Deviation: the day is joined with the bar at hand.
JoinDayEarly ==
    /\ phase = "joining"
    /\ \E day \in left :
        /\ Earliest(day, left) /\ UpTo(Unread, day) = {}
        /\ left' = left \ {day}
        /\ IF \/ shares = None
              \/ bar > day
              \/ \E v \in values : v.symbol = Current /\ v.date = day
           THEN UNCHANGED <<values, stored>>
           ELSE /\ values' = values \cup
                       {[symbol |-> Current, date |-> day, bar |-> bar, shares |-> shares]}
                /\ stored' = stored + 1
        /\ UNCHANGED <<bars, statements, phase, today, batching, rows, listed, bar,
                       shares, imported, before, due>>

\* The day's value is added, unless it has no shares or bar, or is stored already.
JoinDay ==
    /\ phase = "joining"
    /\ \E day \in left :
        /\ Earliest(day, left) /\ UpTo(Unread, day) = {} /\ UpTo(Later, day) = {}
        /\ left' = left \ {day}
        /\ IF \/ shares = None
              \/ bar > day
              \/ \E v \in values : v.symbol = Current /\ v.date = day
           THEN UNCHANGED <<values, stored>>
           ELSE /\ values' = values \cup
                       {[symbol |-> Current, date |-> day, bar |-> bar, shares |-> shares]}
                /\ stored' = stored + 1
        /\ UNCHANGED <<bars, statements, phase, today, batching, rows, listed, bar,
                       shares, imported, before, due>>

FinishJoin ==
    /\ phase = "joining"
    /\ left = {}
    /\ NextSymbol
    /\ UNCHANGED <<tables, today, selected, failed, before, due>>

-----------------------------------------------------------------------------
(* Ends of a run, and the world around it. *)

\* The result is lost with the run; the rows added stay in the tables.
Abandon(how) ==
    /\ phase' = how
    /\ selected' = <<>> /\ todo' = <<>> /\ attempt' = 0 /\ batch' = <<>> /\ failed' = <<>>
    /\ rows' = <<>> /\ stored' = 0 /\ imported' = 0 /\ before' = 0 /\ due' = {}
    /\ LeaveJoin
    /\ UNCHANGED <<tables, today>>

\* An exception other than Duplicate passes through execute.
StoreRaises ==
    /\ \/ phase = "statements" /\ rows # <<>>
       \/ phase = "joining" /\ left # {}
    /\ Abandon("raised")

Kill == phase \notin Ended /\ Abandon("killed")

\* A price import stores a bar (ImportPrices).
AddBar(s, d) ==
    /\ d \in Traded[s] \ bars[s]
    /\ bars' = [bars EXCEPT ![s] = @ \cup {d}]
    /\ UNCHANGED <<statements, values, phase, today, batching, rows, cursor, stored,
                   imported, before, due>>

Step ==
    \/ FetchSucceeds \/ FetchFails
    \/ AddStatement \/ SkipJoin \/ ListBars
    \/ AdvanceShares \/ AdvanceBar \/ JoinDay \/ FinishJoin

Next ==
    \/ \E symbols \in Selection, day \in Date : Start(symbols, day)
    \/ Step
    \/ StoreRaises
    \/ Kill
    \/ \E s \in Symbol, d \in Date : AddBar(s, d)

\* A run is a sequential program: it goes on unless it is killed.
Spec == Init /\ [][Next]_vars /\ WF_vars(Step)

-----------------------------------------------------------------------------
(* Properties. *)

\* "The latest sharesBasic filing on or before that date and the latest stored
\* bar close on or before that date": a value never uses a later filing or bar,
\* nor an earlier one than it could, whatever the cursors went through before
\* (_store_enterprise_value).
ValueIsAsOf(v) ==
    /\ v.symbol = Current
    /\ Latest(v.shares, UpTo(Shares[Current], v.date))
    /\ Latest(v.bar, UpTo(listed, v.date))

ValuesAreAsOf == [][\A v \in values' \ values : ValueIsAsOf(v)]_vars

\* A run that answers with success has stored, for every symbol but those of the
\* batches it names as failed, all statements and a value for every day that had
\* shares and a bar when the bars were read: rows left by an aborted run do not
\* stop the loops (_import_batches, _store_symbol).
SuccessIsComplete ==
    phase = "success" =>
        /\ \A i \in DOMAIN selected :
               \/ \E j \in DOMAIN failed :
                      \E k \in DOMAIN failed[j] : failed[j][k] = selected[i]
               \/ \A k \in DOMAIN Statements[selected[i]] :
                      <<selected[i], Statements[selected[i]][k]>> \in statements
        /\ due \subseteq {<<v.symbol, v.date>> : v \in values}

\* "Re-importing stored fundamentals counts nothing new": the count of a run is
\* the number of rows it added (_store_symbol).
CountIsExact == phase = "success" => imported = Rows - before

\* A run comes to an end: retries are bounded and both loops of the join move on
\* (_fetch_with_retry, _store_enterprise_value).
RunsEnd == phase \notin Ended ~> phase \in Ended
=============================================================================
