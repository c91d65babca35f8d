---------------------- MODULE ImportFundamentalsProofs ----------------------
(***************************************************************************)
(* Proofs about ImportFundamentals and FilingsImport, for every selection, *)
(* batch size and source: the types, that a value is as of its day, that a *)
(* run counts what it adds, and that a success is complete, down to the    *)
(* filings.  The invariant says that a run at work has a batch and a       *)
(* symbol, that neither cursor of the join is ahead of a day still to be   *)
(* joined, that every selected symbol and every due day is stored, named   *)
(* as failed or still to come, and that what is to come is the source's.   *)
(***************************************************************************)
EXTENDS FilingsImport, FiniteSetTheorems, TLAPS

\* Slices of a selection are not empty, and a run at work has one.
AtWork ==
    /\ \A i \in DOMAIN todo : todo[i] # <<>>
    /\ phase \notin Ended => todo # <<>>
    /\ phase \in {"statements", "joining"} => batch # <<>>

TablesAreFinite == IsFiniteSet(statements) /\ IsFiniteSet(values)

\* The share count of the join is a filing of the symbol, on or before every day left.
SharesAreBehind ==
    /\ shares # None => /\ shares \in Shares[Current]
                        /\ \A day \in left : shares <= day
    /\ phase = "joining" => bar \in listed
    /\ phase # "joining" => shares = None

IInv == TypeOK /\ TablesAreFinite /\ AtWork /\ SharesAreBehind

InSome(q, s) == \E r \in Range(q) : s \in Range(r)
Whole(s) == \A k \in DOMAIN Statements[s] : <<s, Statements[s][k]>> \in statements

\* The symbols a run has not come to, or is at.
Awaits(s) ==
    \/ /\ phase = "fetching"
       /\ InSome(todo, s)
    \/ /\ phase \in {"statements", "joining"}
       /\ s \in Range(batch) \/ InSome(Tail(todo), s)

\* A selected symbol has failed, has its statements, or is still to come.
CoveredOK ==
    phase \in {"fetching", "statements", "joining", "success"} =>
        \A s \in Range(selected) : InSome(failed, s) \/ Whole(s) \/ Awaits(s)

\* A statement of the current symbol is stored or is still to be added.
RowsOK ==
    /\ phase = "statements" =>
           \A k \in DOMAIN Statements[Current] :
               \/ <<Current, Statements[Current][k]>> \in statements
               \/ Statements[Current][k] \in Range(rows)
    /\ phase = "joining" => rows = <<>> /\ Whole(Current)

\* A day that can be joined has its value, or is still to be joined.
DueOK ==
    \A p \in due :
        \/ \E v \in values : p = <<v.symbol, v.date>>
        \/ phase = "joining" /\ p \in Joinable(Current, left, listed)

BarIsBehind ==
    phase = "joining" => \/ \A b \in listed : bar <= b
                         \/ \A day \in left : bar <= day

CountOK ==
    /\ phase \notin {"statements", "joining"} => stored = 0
    /\ phase \in {"fetching", "statements", "joining", "success"} =>
           before + imported + stored = Rows

\* What is stored, and what is about to be, is the source's.
RowsAreFiled ==
    /\ \A row \in statements : row[2] \in ToSet(Statements[row[1]])
    /\ phase = "statements" => ToSet(rows) \subseteq ToSet(Statements[Current])

DaysHaveCaps ==
    /\ \A v \in values : v.date \in Caps[v.symbol]
    /\ phase = "joining" => left \subseteq Caps[Current]

CompleteInv == IInv /\ CountOK /\ CoveredOK /\ RowsOK /\ BarIsBehind /\ DueOK

-----------------------------------------------------------------------------
(* Facts about the slices. *)

\* The slice at an offset lies in the selection and has a symbol.
LEMMA SliceBounds ==
    ASSUME NEW n \in Nat, NEW size \in Nat \ {0},
           NEW i \in 1..((n + size - 1) \div size)
    PROVE  /\ (i - 1) * size + 1 \in 1..n
           /\ (i - 1) * size + 1 <= i * size
           /\ i * size \in Nat
<1> DEFINE q == (n + size - 1) \div size
<1>1. q \in Nat /\ q * size <= n + size - 1
  OBVIOUS
<1>2. i \in Nat /\ 1 <= i /\ i <= q
  BY <1>1
<1>3. (i - 1) * size <= (q - 1) * size
  BY <1>1, <1>2
<1>4. (q - 1) * size = q * size - size /\ (i - 1) * size = i * size - size
  BY <1>1, <1>2
<1>5. (i - 1) * size \in Nat
  BY <1>2
<1>6. (i - 1) * size + 1 <= n
  BY <1>1, <1>3, <1>4, <1>5
<1> QED
  BY <1>2, <1>4, <1>5, <1>6

\* Slicing a selection gives non-empty sequences of symbols, none when it is empty.
LEMMA BatchesType ==
    ASSUME NEW symbols \in Seq(Symbol), NEW size \in Nat \ {0}
    PROVE  /\ Batches(symbols, size) \in Seq(Seq(Symbol))
           /\ \A i \in DOMAIN Batches(symbols, size) : Batches(symbols, size)[i] # <<>>
           /\ symbols # <<>> => Batches(symbols, size) # <<>>
<1> DEFINE n == Len(symbols)
           q == (n + size - 1) \div size
           last(i) == IF i * size > n THEN n ELSE i * size
           first(i) == (i - 1) * size + 1
           slice(i) == SubSeq(symbols, first(i), last(i))
<1>1. n \in Nat /\ q \in Nat
  OBVIOUS
<1>2. ASSUME NEW i \in 1..q
      PROVE  slice(i) \in Seq(Symbol) /\ slice(i) # <<>>
  <2>1. first(i) \in 1..n /\ first(i) <= i * size /\ i * size \in Nat
    BY <1>1, SliceBounds
  <2>2. last(i) \in 1..n /\ first(i) <= last(i)
    BY <1>1, <2>1
  <2> HIDE DEF first, last
  <2>3. slice(i) \in Seq(Symbol)
    BY <2>1, <2>2
  <2>4. Len(slice(i)) = last(i) - first(i) + 1
    BY <2>1, <2>2
  <2>5. Len(slice(i)) >= 1
    BY <2>1, <2>2, <2>4
  <2> HIDE DEF slice
  <2> QED
    BY <2>3, <2>5
<1>3. Batches(symbols, size) = [i \in 1..q |-> slice(i)]
  BY DEF Batches
<1>4. symbols # <<>> => q >= 1
  OBVIOUS
<1> HIDE DEF slice, q
<1> QED
  BY <1>1, <1>2, <1>3, <1>4

\* The slice an offset is in.
LEMMA Division ==
    ASSUME NEW m \in Nat, NEW size \in Nat \ {0}
    PROVE  /\ m \div size \in Nat
           /\ (m \div size) * size \in Nat
           /\ (m \div size) * size <= m
           /\ m < (m \div size) * size + size
OBVIOUS

LEMMA FewerSlices ==
    ASSUME NEW size \in Nat \ {0}, NEW d \in Nat, NEW q \in Nat, d * size < q * size
    PROVE  d < q
<1> SUFFICES ASSUME d >= q
             PROVE  FALSE
  OBVIOUS
<1>1. d * size >= q * size
  OBVIOUS
<1>2. d * size \in Nat /\ q * size \in Nat
  OBVIOUS
<1> QED
  BY <1>1, <1>2

LEMMA SliceOf ==
    ASSUME NEW n \in Nat, NEW size \in Nat \ {0}, NEW i \in 1..n
    PROVE  \E d \in Nat :
               /\ d + 1 \in 1..((n + size - 1) \div size)
               /\ d * size \in Nat /\ (d + 1) * size = d * size + size
               /\ d * size + 1 <= i /\ i <= d * size + size
<1>1. i - 1 \in Nat /\ n + size - 1 \in Nat
  OBVIOUS
<1>2. PICK d \in Nat : d * size \in Nat /\ d * size <= i - 1 /\ i - 1 < d * size + size
  BY <1>1, Division
<1>3. PICK q \in Nat : /\ q = (n + size - 1) \div size /\ q * size \in Nat
                       /\ n + size - 1 < q * size + size
  BY <1>1, Division
<1>4. d < q
  BY <1>1, <1>2, <1>3, FewerSlices
<1>5. (d + 1) * size = d * size + size
  OBVIOUS
<1>6. d + 1 \in 1..q
  BY <1>2, <1>3, <1>4
<1> QED
  BY <1>1, <1>2, <1>3, <1>5, <1>6

\* Every symbol of a selection is in a slice.
LEMMA BatchesCover ==
    ASSUME NEW symbols \in Seq(Symbol), NEW size \in Nat \ {0}, NEW i \in DOMAIN symbols
    PROVE  \E j \in DOMAIN Batches(symbols, size) :
               \E k \in DOMAIN Batches(symbols, size)[j] :
                   Batches(symbols, size)[j][k] = symbols[i]
<1> DEFINE n == Len(symbols)
           last(j) == IF j * size > n THEN n ELSE j * size
           first(j) == (j - 1) * size + 1
           slice(j) == SubSeq(symbols, first(j), last(j))
<1>1. n \in Nat /\ i \in 1..n
  OBVIOUS
<1>2. PICK d \in Nat : /\ d + 1 \in 1..((n + size - 1) \div size)
                       /\ d * size \in Nat /\ (d + 1) * size = d * size + size
                       /\ d * size + 1 <= i /\ i <= d * size + size
  <2> HIDE DEF n
  <2> QED  BY <1>1, SliceOf
<1>3. Batches(symbols, size)[d + 1] = slice(d + 1) /\ d + 1 \in DOMAIN Batches(symbols, size)
  BY <1>2 DEF Batches
<1>4. /\ first(d + 1) = d * size + 1 /\ first(d + 1) \in 1..n
      /\ last(d + 1) \in 1..n /\ i <= last(d + 1) /\ first(d + 1) <= i
  <2>1. (d + 1) - 1 = d
    OBVIOUS
  <2> HIDE DEF n
  <2> QED  BY <1>1, <1>2, <2>1
<1> HIDE DEF first, last
<1>5. PICK k \in 1..(last(d + 1) - first(d + 1) + 1) : first(d + 1) + k - 1 = i
  <2> DEFINE k == i - first(d + 1) + 1
  <2>1. k \in 1..(last(d + 1) - first(d + 1) + 1) /\ first(d + 1) + k - 1 = i
    BY <1>1, <1>4
  <2> QED  BY <2>1
<1>6. k \in DOMAIN slice(d + 1) /\ slice(d + 1)[k] = symbols[i]
  BY <1>1, <1>4, <1>5
<1> QED
  BY <1>3, <1>6

-----------------------------------------------------------------------------
(* The inductive invariant, piece by piece. *)

\* Initially.
LEMMA InitIInv == Init => IInv
BY FundamentalsAssumption, FS_EmptySet
   DEF Init, IInv, TypeOK, TablesAreFinite, AtWork, SharesAreBehind, Ended, Value

\* The number of rows in the tables is a number.
LEMMA RowsType == TablesAreFinite => Rows \in Nat
BY FS_CardinalityType DEF TablesAreFinite, Rows

\* The current symbol of a run that stores one.
LEMMA CurrentType ==
    ASSUME TypeOK, AtWork, phase \in {"statements", "joining"}
    PROVE  Current \in Symbol /\ Shares[Current] \subseteq Date
BY FundamentalsAssumption DEF TypeOK, AtWork, Current

\* The tables stay finite.
LEMMA FiniteStep ==
    ASSUME TablesAreFinite, [Next]_vars
    PROVE  TablesAreFinite'
<1>1. CASE UNCHANGED <<statements, values>>
  BY <1>1 DEF TablesAreFinite
<1>2. CASE AddStatement
  BY <1>2, FS_AddElement DEF AddStatement, TablesAreFinite, tables
<1>3. CASE JoinDay
  <2>1. statements' = statements
    BY <1>3 DEF JoinDay
  <2>2. values' = values \/ \E v : values' = values \cup {v}
    BY <1>3 DEF JoinDay
  <2> QED
    BY <2>1, <2>2, FS_AddElement DEF TablesAreFinite
<1>4. CASE \/ \E symbols \in Selection, day \in Date : Start(symbols, day)
           \/ FetchSucceeds \/ FetchFails \/ SkipJoin \/ ListBars
           \/ AdvanceShares \/ AdvanceBar \/ FinishJoin
  BY <1>1, <1>4 DEF tables, Start, FetchSucceeds, FetchFails, SkipJoin, ListBars,
                    AdvanceShares, AdvanceBar, FinishJoin
<1>5. CASE StoreRaises \/ Kill \/ \E s \in Symbol, d \in Date : AddBar(s, d)
  BY <1>1, <1>5 DEF tables, StoreRaises, Kill, Abandon, AddBar
<1> QED
  BY <1>1, <1>2, <1>3, <1>4, <1>5 DEF Next, Step, vars, tables

\* Leaving a batch keeps the batches in order.
LEMMA NextBatchType ==
    ASSUME TypeOK, AtWork, phase \notin Ended, NextBatch
    PROVE  /\ todo' \in Seq(Seq(Symbol))
           /\ \A i \in DOMAIN todo' : todo'[i] # <<>>
           /\ attempt' \in 0..(MaxAttempts - 1)
           /\ phase' \in {"success", "fetching"}
           /\ phase' = "fetching" => todo' # <<>>
<1>1. todo \in Seq(Seq(Symbol)) /\ todo # <<>> /\ todo' = Tail(todo)
  BY DEF TypeOK, AtWork, NextBatch
<1>2. todo' \in Seq(Seq(Symbol)) /\ Len(todo') = Len(todo) - 1
  BY <1>1
<1>3. ASSUME NEW i \in DOMAIN todo'
      PROVE  todo'[i] # <<>>
  <2>1. i \in 1..Len(todo') /\ i + 1 \in 1..Len(todo)
    BY <1>1, <1>2
  <2>2. todo'[i] = todo[i + 1] /\ i + 1 \in DOMAIN todo
    BY <1>1, <1>2, <2>1
  <2>3. \A j \in DOMAIN todo : todo[j] # <<>>
    BY DEF AtWork
  <2> QED
    BY <2>2, <2>3
<1>4. attempt' \in 0..(MaxAttempts - 1)
  BY FundamentalsAssumption DEF NextBatch
<1>5. ASSUME phase' = "fetching"
      PROVE  todo' # <<>>
  <2>1. Len(todo) # 1
    BY <1>5 DEF NextBatch
  <2>2. Len(todo) >= 1
    BY <1>1
  <2>3. Len(todo') # 0
    BY <1>1, <1>2, <2>1, <2>2
  <2> QED
    BY <2>3
<1> QED
  BY <1>2, <1>3, <1>4, <1>5 DEF NextBatch

\* Leaving a symbol keeps the types, and the join is left.
LEMMA NextSymbolType ==
    ASSUME TypeOK, AtWork, phase \in {"statements", "joining"}, NextSymbol
    PROVE  /\ todo' \in Seq(Seq(Symbol))
           /\ \A i \in DOMAIN todo' : todo'[i] # <<>>
           /\ attempt' \in 0..(MaxAttempts - 1)
           /\ phase' \in {"success", "fetching", "statements"}
           /\ phase' # "success" => todo' # <<>>
           /\ batch' \in Seq(Symbol)
           /\ phase' = "statements" => batch' # <<>>
           /\ rows' \in Seq(Statement)
           /\ stored' \in Nat
           /\ imported' \in Nat
           /\ left' = {} /\ listed' = {} /\ bar' = None /\ shares' = None
<1>1. batch \in Seq(Symbol) /\ batch # <<>> /\ todo # <<>> /\ phase \notin Ended
  BY DEF TypeOK, AtWork, Ended
<1>2. /\ batch' = Tail(batch) /\ batch' \in Seq(Symbol)
      /\ stored' \in Nat /\ imported' \in Nat
      /\ left' = {} /\ listed' = {} /\ bar' = None /\ shares' = None
  BY <1>1 DEF NextSymbol, LeaveJoin, TypeOK
<1>3. CASE Len(batch) > 1
  <2>1. batch[2] \in Symbol
    BY <1>1, <1>3
  <2>2. phase' = "statements" /\ rows' \in Seq(Statement) /\ UNCHANGED <<todo, attempt>>
    BY <1>3, <2>1, FundamentalsAssumption DEF NextSymbol
  <2>3. batch' # <<>>
    <3>1. Len(batch') = Len(batch) - 1 /\ Len(batch) \in Nat
      BY <1>1, <1>2
    <3>2. Len(batch') # 0
      BY <1>3, <3>1
    <3> QED
      BY <3>2
  <2>4. /\ todo' \in Seq(Seq(Symbol)) /\ attempt' \in 0..(MaxAttempts - 1)
        /\ todo' # <<>>
    BY <1>1, <2>2 DEF TypeOK
  <2>5. todo' = todo
    BY <2>2
  <2>6. \A i \in DOMAIN todo : todo[i] # <<>>
    BY DEF AtWork
  <2>7. \A i \in DOMAIN todo' : todo'[i] # <<>>
    BY <2>5, <2>6, Zenon
  <2> QED
    BY <1>2, <2>2, <2>3, <2>4, <2>7
<1>4. CASE ~(Len(batch) > 1)
  <2>1. NextBatch /\ rows' = <<>>
    BY <1>4 DEF NextSymbol
  <2> QED
    BY <1>1, <1>2, <2>1, NextBatchType
<1> QED
  BY <1>3, <1>4

-----------------------------------------------------------------------------
(* Types and the batch at work, step by step. *)

LEMMA StartTypes ==
    ASSUME IInv, NEW symbols \in Selection, NEW day \in Date, Start(symbols, day)
    PROVE  TypeOK' /\ AtWork'
<1>1. symbols \in Seq(Symbol)
  BY FundamentalsAssumption
<1>2. /\ todo' \in Seq(Seq(Symbol))
      /\ \A i \in DOMAIN todo' : todo'[i] # <<>>
      /\ symbols # <<>> => todo' # <<>>
  BY <1>1, BatchesType, FundamentalsAssumption DEF Start
<1>3. phase' \in {"success", "fetching"} /\ (phase' = "fetching" => symbols # <<>>)
  BY DEF Start
<1>4. AtWork'
  BY <1>2, <1>3 DEF AtWork, Ended
<1>5. before' \in Nat /\ due' = {} /\ imported' = 0 /\ failed' = <<>> /\ selected' = symbols
      /\ today' = day
  BY RowsType DEF Start, IInv
<1>6. UNCHANGED <<bars, statements, values, attempt, batch, rows, left, listed, bar, shares, stored>>
  BY DEF Start, tables, cursor
<1>7. TypeOK'
  BY <1>1, <1>2, <1>3, <1>5, <1>6 DEF TypeOK, IInv, Ended
<1> QED
  BY <1>4, <1>7

LEMMA FetchTypes ==
    ASSUME IInv, FetchSucceeds \/ FetchFails
    PROVE  TypeOK' /\ AtWork'
<1>1. TypeOK /\ AtWork /\ phase = "fetching" /\ phase \notin Ended /\ todo # <<>>
  BY DEF IInv, AtWork, FetchSucceeds, FetchFails, Ended
<1>2. todo[1] \in Seq(Symbol) /\ todo[1] # <<>>
  BY <1>1 DEF TypeOK, AtWork
<1>3. CASE FetchSucceeds
  <2>1. todo[1][1] \in Symbol
    BY <1>2
  <2>2. batch' \in Seq(Symbol) /\ batch' # <<>> /\ rows' \in Seq(Statement)
        /\ phase' = "statements" /\ UNCHANGED <<todo, attempt>>
    BY <1>2, <1>3, <2>1, FundamentalsAssumption DEF FetchSucceeds
  <2>3. TypeOK'
    BY <1>1, <1>3, <2>2 DEF TypeOK, FetchSucceeds, tables, cursor
  <2>4. \A i \in DOMAIN todo : todo[i] # <<>>
    BY <1>1 DEF AtWork
  <2>5. todo' = todo
    BY <2>2
  <2>6. \A i \in DOMAIN todo' : todo'[i] # <<>>
    BY <2>4, <2>5, Zenon
  <2> QED
    BY <1>1, <2>2, <2>3, <2>5, <2>6 DEF AtWork
<1>4. CASE FetchFails /\ attempt + 1 < MaxAttempts
  <2>1. attempt' = attempt + 1 /\ UNCHANGED <<phase, todo, failed>>
    BY <1>4 DEF FetchFails
  <2>2. attempt' \in 0..(MaxAttempts - 1)
    BY <1>1, <1>4, <2>1, FundamentalsAssumption DEF TypeOK
  <2>3. TypeOK'
    BY <1>1, <1>4, <2>1, <2>2 DEF TypeOK, FetchFails, tables, cursor
  <2>4. UNCHANGED <<todo, phase, batch>>
    BY <1>4, <2>1 DEF FetchFails
  <2> QED
    BY <1>1, <2>3, <2>4 DEF AtWork
<1>5. CASE FetchFails /\ ~(attempt + 1 < MaxAttempts)
  <2>1. NextBatch /\ failed' = Append(failed, todo[1])
    BY <1>5 DEF FetchFails
  <2>2. failed' \in Seq(Seq(Symbol))
    BY <1>1, <1>2, <2>1 DEF TypeOK
  <2>3. /\ todo' \in Seq(Seq(Symbol)) /\ \A i \in DOMAIN todo' : todo'[i] # <<>>
        /\ attempt' \in 0..(MaxAttempts - 1)
        /\ phase' \in {"success", "fetching"}
        /\ phase' = "fetching" => todo' # <<>>
    BY <1>1, <2>1, NextBatchType
  <2>4. TypeOK'
    BY <1>1, <1>5, <2>2, <2>3 DEF TypeOK, FetchFails, tables, cursor, Ended
  <2> QED
    BY <2>3, <2>4 DEF AtWork, Ended
<1> QED
  BY <1>3, <1>4, <1>5

LEMMA StatementTypes ==
    ASSUME IInv, AddStatement
    PROVE  TypeOK' /\ AtWork'
<1>1. TypeOK /\ AtWork /\ phase = "statements" /\ rows # <<>> /\ rows' = Tail(rows)
  BY DEF IInv, AddStatement
<1>2. Current \in Symbol
  BY <1>1, CurrentType
<1>3. rows' \in Seq(Statement) /\ Head(rows) \in Statement
  BY <1>1 DEF TypeOK
<1>4. statements' \subseteq Symbol \X Statement /\ stored' \in Nat
  BY <1>1, <1>2, <1>3 DEF AddStatement, TypeOK
<1>5. UNCHANGED <<bars, values, phase, today, selected, todo, attempt, batch, failed,
                  left, listed, bar, shares, imported, before, due>>
  BY DEF AddStatement, batching, cursor
<1> QED
  BY <1>1, <1>3, <1>4, <1>5 DEF TypeOK, AtWork

LEMMA LeaveTypes ==
    ASSUME IInv, SkipJoin \/ FinishJoin
    PROVE  /\ TypeOK' /\ AtWork'
           /\ shares' = None /\ phase' # "joining" /\ UNCHANGED <<statements, values>>
<1>1. /\ TypeOK /\ AtWork /\ phase \in {"statements", "joining"} /\ NextSymbol
      /\ UNCHANGED <<bars, statements, values, today, selected, failed, before, due>>
  BY DEF IInv, SkipJoin, FinishJoin, tables
<1>2. /\ todo' \in Seq(Seq(Symbol))
      /\ \A i \in DOMAIN todo' : todo'[i] # <<>>
      /\ attempt' \in 0..(MaxAttempts - 1)
      /\ phase' \in {"success", "fetching", "statements"}
      /\ phase' # "success" => todo' # <<>>
      /\ batch' \in Seq(Symbol)
      /\ phase' = "statements" => batch' # <<>>
      /\ rows' \in Seq(Statement)
      /\ stored' \in Nat
      /\ imported' \in Nat
      /\ left' = {} /\ listed' = {} /\ bar' = None /\ shares' = None
  BY <1>1, NextSymbolType
<1>3. TypeOK'
  BY <1>1, <1>2 DEF TypeOK, Ended
<1> QED
  BY <1>1, <1>2, <1>3 DEF AtWork, Ended

LEMMA ListBarsTypes ==
    ASSUME IInv, ListBars
    PROVE  TypeOK' /\ AtWork'
<1>1. TypeOK /\ AtWork /\ phase = "statements"
  BY DEF IInv, ListBars
<1>2. Current \in Symbol
  BY <1>1, CurrentType
<1>3. listed' \subseteq Date /\ left' \subseteq Date /\ bar' \in Date
  BY <1>1, <1>2, FundamentalsAssumption DEF ListBars, TypeOK, UpTo, Earliest
<1>4. due' \subseteq Symbol \X Date
  BY <1>1, <1>2, <1>3, FundamentalsAssumption DEF ListBars, TypeOK, UpTo, Joinable
<1>5. phase' = "joining" /\ shares' = None
      /\ UNCHANGED <<bars, statements, values, today, selected, todo, attempt, batch, failed,
                     rows, stored, imported, before>>
  BY DEF ListBars, tables, batching
<1> QED
  BY <1>1, <1>3, <1>4, <1>5 DEF TypeOK, AtWork, Ended

LEMMA AdvanceTypes ==
    ASSUME IInv, AdvanceShares \/ AdvanceBar
    PROVE  TypeOK' /\ AtWork'
<1>1. TypeOK /\ AtWork /\ phase = "joining"
  BY DEF IInv, AdvanceShares, AdvanceBar
<1>2. Current \in Symbol /\ Shares[Current] \subseteq Date
  BY <1>1, CurrentType
<1>3. Unread \subseteq Date /\ Later \subseteq Date
  BY <1>1, <1>2 DEF Unread, Later, TypeOK
<1>4. shares' \in Date \cup {None} /\ bar' \in Date \cup {None}
  BY <1>1, <1>3 DEF AdvanceShares, AdvanceBar, TypeOK
<1>5. UNCHANGED <<bars, statements, values, phase, today, selected, todo, attempt, batch,
                  failed, rows, left, listed, stored, imported, before, due>>
  BY DEF AdvanceShares, AdvanceBar, tables, batching
<1> QED
  BY <1>1, <1>4, <1>5 DEF TypeOK, AtWork

\* What a day of the join does to the state.
LEMMA JoinDayEffect ==
    ASSUME JoinDay
    PROVE  /\ phase = "joining"
           /\ UNCHANGED <<bars, statements, phase, today, selected, todo, attempt, batch,
                          failed, rows, listed, bar, shares, imported, before, due>>
           /\ \E day \in left :
                  /\ Earliest(day, left) /\ UpTo(Unread, day) = {} /\ UpTo(Later, day) = {}
                  /\ left' = left \ {day}
                  /\ \/ UNCHANGED <<values, stored>>
                     \/ /\ shares # None /\ ~(bar > day)
                        /\ values' = values \cup
                               {[symbol |-> Current, date |-> day, bar |-> bar,
                                 shares |-> shares]}
                        /\ stored' = stored + 1
BY DEF JoinDay, batching

LEMMA JoinDayTypes ==
    ASSUME IInv, JoinDay
    PROVE  TypeOK' /\ AtWork'
<1>1. TypeOK /\ AtWork /\ SharesAreBehind /\ phase = "joining"
  BY JoinDayEffect DEF IInv
<1>2. Current \in Symbol
  BY <1>1, CurrentType
<1>3. bar \in Date
  BY <1>1 DEF SharesAreBehind, TypeOK
<1>4. left' \subseteq Date /\ values' \subseteq Value /\ stored' \in Nat
  BY <1>1, <1>2, <1>3, JoinDayEffect DEF TypeOK, Value
<1>5. UNCHANGED <<bars, statements, phase, today, selected, todo, attempt, batch,
                  failed, rows, listed, bar, shares, imported, before, due>>
  BY JoinDayEffect
<1> QED
  BY <1>1, <1>4, <1>5 DEF TypeOK, AtWork

LEMMA EndTypes ==
    ASSUME IInv, StoreRaises \/ Kill
    PROVE  TypeOK' /\ AtWork' /\ phase' \in {"raised", "killed"} /\ shares' = None
           /\ UNCHANGED <<statements, values>>
<1>1. TypeOK /\ (Abandon("raised") \/ Abandon("killed"))
  BY DEF IInv, StoreRaises, Kill
<1>2. /\ phase' \in {"raised", "killed"}
      /\ selected' = <<>> /\ todo' = <<>> /\ attempt' = 0 /\ batch' = <<>> /\ failed' = <<>>
      /\ rows' = <<>> /\ stored' = 0 /\ imported' = 0 /\ before' = 0 /\ due' = {}
      /\ left' = {} /\ listed' = {} /\ bar' = None /\ shares' = None
      /\ UNCHANGED <<bars, statements, values, today>>
  BY <1>1 DEF Abandon, LeaveJoin, tables
<1>3. TypeOK'
  BY <1>1, <1>2, FundamentalsAssumption DEF TypeOK, Ended
<1> QED
  BY <1>2, <1>3 DEF AtWork, Ended

LEMMA AddBarTypes ==
    ASSUME IInv, NEW s \in Symbol, NEW d \in Date, AddBar(s, d)
    PROVE  TypeOK' /\ AtWork'
<1>1. TypeOK /\ AtWork /\ bars' \in [Symbol -> SUBSET Date]
  BY DEF IInv, AddBar, TypeOK
<1>2. UNCHANGED <<statements, values, phase, today, selected, todo, attempt, batch, failed,
                  rows, left, listed, bar, shares, stored, imported, before, due>>
  BY DEF AddBar, batching, cursor
<1> QED
  BY <1>1, <1>2 DEF TypeOK, AtWork

LEMMA TypeStep ==
    ASSUME IInv, [Next]_vars
    PROVE  TypeOK' /\ AtWork'
<1>1. CASE UNCHANGED vars
  BY <1>1 DEF IInv, TypeOK, AtWork, vars, tables, batching, cursor
<1>2. CASE \E symbols \in Selection, day \in Date : Start(symbols, day)
  BY <1>2, StartTypes
<1>3. CASE FetchSucceeds \/ FetchFails
  BY <1>3, FetchTypes
<1>4. CASE AddStatement
  BY <1>4, StatementTypes
<1>5. CASE SkipJoin \/ FinishJoin
  BY <1>5, LeaveTypes
<1>6. CASE ListBars
  BY <1>6, ListBarsTypes
<1>7. CASE AdvanceShares \/ AdvanceBar
  BY <1>7, AdvanceTypes
<1>8. CASE JoinDay
  BY <1>8, JoinDayTypes
<1>9. CASE StoreRaises \/ Kill
  BY <1>9, EndTypes
<1>10. CASE \E s \in Symbol, d \in Date : AddBar(s, d)
  BY <1>10, AddBarTypes
<1> QED
  BY <1>1, <1>2, <1>3, <1>4, <1>5, <1>6, <1>7, <1>8, <1>9, <1>10 DEF Next, Step

-----------------------------------------------------------------------------
(* The cursors of the join. *)

\* No step moves the share count past a day that is still to be joined.
LEMMA BehindStep ==
    ASSUME IInv, [Next]_vars
    PROVE  SharesAreBehind'
<1>1. TypeOK /\ AtWork /\ SharesAreBehind
  BY DEF IInv
<1>2. CASE UNCHANGED vars
  BY <1>1, <1>2 DEF SharesAreBehind, vars, batching, cursor, Current
<1>3. CASE \/ \E symbols \in Selection, day \in Date : Start(symbols, day)
           \/ FetchSucceeds \/ FetchFails \/ AddStatement
  <2>1. phase # "joining" /\ phase' # "joining" /\ shares' = shares
    BY <1>3 DEF Start, FetchSucceeds, FetchFails, AddStatement, NextBatch, cursor, Ended
  <2> QED
    BY <1>1, <2>1 DEF SharesAreBehind
<1>4. CASE SkipJoin \/ FinishJoin
  BY <1>4, LeaveTypes DEF SharesAreBehind
<1>5. CASE ListBars
  BY <1>5 DEF ListBars, Earliest, SharesAreBehind
<1>6. CASE AdvanceShares
  <2>1. Shares[Current] \subseteq Date /\ Shares[Current] \subseteq Int /\ left \subseteq Int
    BY <1>1, <1>6, CurrentType, FundamentalsAssumption DEF AdvanceShares, TypeOK
  <2>2. PICK day \in left, f \in Unread :
            Earliest(day, left) /\ f <= day /\ shares' = f
    BY <1>6 DEF AdvanceShares
  <2>3. f \in Shares[Current]
    BY <2>2 DEF Unread
  <2>4. \A e \in left : f <= e
    BY <2>1, <2>2, <2>3 DEF Earliest
  <2>5. UNCHANGED <<phase, batch, left, listed, bar>> /\ phase = "joining"
    BY <1>6 DEF AdvanceShares, batching
  <2> QED
    BY <1>1, <2>2, <2>3, <2>4, <2>5 DEF SharesAreBehind, Current
<1>7. CASE AdvanceBar
  <2>1. UNCHANGED <<phase, batch, left, listed, shares>> /\ phase = "joining" /\ bar' \in listed
    BY <1>7 DEF AdvanceBar, Later, batching
  <2> QED
    BY <1>1, <2>1 DEF SharesAreBehind, Current
<1>8. CASE JoinDay
  <2>1. UNCHANGED <<phase, batch, listed, bar, shares>> /\ left' \subseteq left
    BY <1>8, JoinDayEffect
  <2> QED
    BY <1>1, <2>1 DEF SharesAreBehind, Current
<1>9. CASE StoreRaises \/ Kill
  BY <1>9, EndTypes DEF SharesAreBehind
<1>10. CASE \E s \in Symbol, d \in Date : AddBar(s, d)
  BY <1>1, <1>10 DEF AddBar, SharesAreBehind, batching, cursor, Current
<1> QED
  BY <1>2, <1>3, <1>4, <1>5, <1>6, <1>7, <1>8, <1>9, <1>10 DEF Next, Step

\* A day is joined with the latest share count and bar on or before it.
LEMMA JoinDayIsAsOf ==
    ASSUME IInv, JoinDay, NEW v \in values' \ values
    PROVE  ValueIsAsOf(v)
<1>1. TypeOK /\ AtWork /\ SharesAreBehind /\ phase = "joining"
  BY JoinDayEffect DEF IInv
<1>2. PICK day \in left :
          /\ UpTo(Unread, day) = {} /\ UpTo(Later, day) = {}
          /\ shares # None /\ ~(bar > day)
          /\ v = [symbol |-> Current, date |-> day, bar |-> bar, shares |-> shares]
  BY JoinDayEffect
<1>3. /\ Shares[Current] \subseteq Int /\ listed \subseteq Int /\ day \in Int
      /\ shares \in Shares[Current] /\ shares <= day
  BY <1>1, <1>2, CurrentType, FundamentalsAssumption DEF TypeOK, SharesAreBehind
<1>4. bar \in listed /\ bar \in Int /\ bar <= day
  <2>1. bar \in listed
    BY <1>1 DEF SharesAreBehind
  <2>2. bar \in Int
    BY <1>3, <2>1
  <2> QED
    BY <1>2, <1>3, <2>1, <2>2
<1>5. Latest(shares, UpTo(Shares[Current], day))
  BY <1>2, <1>3 DEF Latest, UpTo, Unread
<1>6. Latest(bar, UpTo(listed, day))
  <2>1. bar \in UpTo(listed, day)
    BY <1>4 DEF UpTo
  <2>2. ASSUME NEW e \in listed, e <= day
        PROVE  e <= bar
    <3>1. e \in Int
      BY <1>3
    <3>2. ~(e > bar)
      BY <1>2, <2>2 DEF UpTo, Later
    <3> QED
      BY <1>4, <3>1, <3>2
  <2> QED
    BY <2>1, <2>2 DEF Latest, UpTo
<1> QED
  BY <1>2, <1>5, <1>6 DEF ValueIsAsOf

\* No other step adds a value.
LEMMA AsOfStep ==
    ASSUME IInv, [Next]_vars
    PROVE  \A v \in values' \ values : ValueIsAsOf(v)
<1>1. CASE JoinDay
  BY <1>1, JoinDayIsAsOf
<1>2. CASE UNCHANGED values
  BY <1>2
<1>3. CASE \/ \E symbols \in Selection, day \in Date : Start(symbols, day)
           \/ FetchSucceeds \/ FetchFails \/ AddStatement \/ SkipJoin \/ ListBars
           \/ AdvanceShares \/ AdvanceBar \/ FinishJoin
  <2>1. values' = values
    BY <1>3 DEF tables, Start, FetchSucceeds, FetchFails, AddStatement, SkipJoin,
                ListBars, AdvanceShares, AdvanceBar, FinishJoin
  <2> QED
    BY <2>1
<1>4. CASE StoreRaises \/ Kill \/ \E s \in Symbol, d \in Date : AddBar(s, d)
  <2>1. values' = values
    BY <1>4 DEF tables, StoreRaises, Kill, Abandon, AddBar
  <2> QED
    BY <2>1
<1> QED
  BY <1>1, <1>2, <1>3, <1>4 DEF Next, Step, vars, tables

-----------------------------------------------------------------------------
(* Sequences as sets. *)

LEMMA AppendRange ==
    ASSUME NEW S, NEW q \in Seq(S), NEW x \in S
    PROVE  Range(Append(q, x)) = Range(q) \cup {x}
<1>1. /\ DOMAIN q = 1..Len(q) /\ DOMAIN Append(q, x) = 1..(Len(q) + 1)
      /\ \A i \in 1..Len(q) : Append(q, x)[i] = q[i]
      /\ Append(q, x)[Len(q) + 1] = x /\ Len(q) \in Nat
  OBVIOUS
<1> QED
  BY <1>1 DEF Range

LEMMA TailRange ==
    ASSUME NEW S, NEW q \in Seq(S), q # <<>>
    PROVE  /\ Tail(q) \in Seq(S) /\ Head(q) = q[1] /\ q[1] \in Range(q)
           /\ \A x : x \in Range(q) <=> x = q[1] \/ x \in Range(Tail(q))
           /\ Len(q) = 1 => Range(Tail(q)) = {}
<1>1. /\ Tail(q) \in Seq(S) /\ Head(q) = q[1] /\ Len(q) \in Nat /\ Len(q) >= 1
      /\ DOMAIN q = 1..Len(q) /\ DOMAIN Tail(q) = 1..(Len(q) - 1)
      /\ \A i \in 1..(Len(q) - 1) : Tail(q)[i] = q[i + 1]
  OBVIOUS
<1>2. ASSUME NEW x \in Range(q), x # q[1]
      PROVE  x \in Range(Tail(q))
  <2>1. PICK i \in 1..Len(q) : x = q[i]
    BY <1>1 DEF Range
  <2>2. i - 1 \in 1..(Len(q) - 1) /\ (i - 1) + 1 = i
    BY <1>1, <1>2, <2>1
  <2>3. Tail(q)[i - 1] = x /\ i - 1 \in DOMAIN Tail(q)
    BY <1>1, <2>1, <2>2
  <2> QED
    BY <2>3 DEF Range
<1>3. \A i \in 1..(Len(q) - 1) : i + 1 \in 1..Len(q)
  BY <1>1
<1>4. q[1] \in Range(q) /\ \A x \in Range(Tail(q)) : x \in Range(q)
  BY <1>1, <1>3 DEF Range
<1>5. Len(q) = 1 => Range(Tail(q)) = {}
  BY <1>1 DEF Range
<1> QED
  BY <1>1, <1>2, <1>4, <1>5

\* The symbols of a queue of slices are those of the first and of the rest.
LEMMA TailInSome ==
    ASSUME NEW q \in Seq(Seq(Symbol)), q # <<>>, NEW s
    PROVE  /\ InSome(q, s) <=> s \in Range(q[1]) \/ InSome(Tail(q), s)
           /\ Len(q) = 1 => ~InSome(Tail(q), s)
<1>1. /\ \A x : x \in Range(q) <=> x = q[1] \/ x \in Range(Tail(q))
      /\ Len(q) = 1 => Range(Tail(q)) = {}
  BY TailRange
<1> QED
  BY <1>1 DEF InSome

LEMMA AppendInSome ==
    ASSUME NEW q \in Seq(Seq(Symbol)), NEW r \in Seq(Symbol), NEW s
    PROVE  InSome(Append(q, r), s) <=> InSome(q, s) \/ s \in Range(r)
<1>1. Range(Append(q, r)) = Range(q) \cup {r}
  BY AppendRange
<1> QED
  BY <1>1 DEF InSome

-----------------------------------------------------------------------------
(* The count. *)


LEMMA StatementCounts ==
    ASSUME TypeOK, TablesAreFinite, AddStatement
    PROVE  \E n \in {0, 1} : Rows' = Rows + n /\ stored' = stored + n
<1>1. values' = values /\ stored \in Nat
  BY DEF AddStatement, TypeOK
<1>2. CASE <<Current, Head(rows)>> \in statements
  <2>1. statements' = statements /\ stored' = stored
    BY <1>2 DEF AddStatement
  <2>2. Rows' = Rows /\ Rows \in Nat
    BY <1>1, <2>1, RowsType DEF Rows
  <2> QED
    BY <1>1, <2>1, <2>2
<1>3. CASE <<Current, Head(rows)>> \notin statements
  <2>1. Cardinality(statements') = Cardinality(statements) + 1 /\ stored' = stored + 1
    BY <1>3, FS_AddElement DEF AddStatement, TablesAreFinite
  <2>2. Rows' = Rows + 1
    BY <1>1, <2>1, FS_CardinalityType DEF Rows, TablesAreFinite
  <2> QED
    BY <2>1, <2>2
<1> QED
  BY <1>2, <1>3

LEMMA ValueCounts ==
    ASSUME TypeOK, TablesAreFinite, JoinDay
    PROVE  \E n \in {0, 1} : Rows' = Rows + n /\ stored' = stored + n
<1>1. statements' = statements /\ stored \in Nat
  BY DEF JoinDay, TypeOK
<1>2. CASE UNCHANGED <<values, stored>>
  <2>1. Rows' = Rows /\ Rows \in Nat
    BY <1>1, <1>2, RowsType DEF Rows
  <2> QED
    BY <1>1, <1>2, <2>1
<1>3. CASE ~UNCHANGED <<values, stored>>
  <2>1. PICK v : v \notin values /\ values' = values \cup {v} /\ stored' = stored + 1
    <3>1. PICK day \in left :
              /\ ~\E v \in values : v.symbol = Current /\ v.date = day
              /\ values' = values \cup
                     {[symbol |-> Current, date |-> day, bar |-> bar, shares |-> shares]}
              /\ stored' = stored + 1
      BY <1>3 DEF JoinDay
    <3> DEFINE v == [symbol |-> Current, date |-> day, bar |-> bar, shares |-> shares]
    <3>2. v.symbol = Current /\ v.date = day
      OBVIOUS
    <3> QED
      BY <3>1, <3>2
  <2>2. Cardinality(values') = Cardinality(values) + 1
    BY <2>1, FS_AddElement DEF TablesAreFinite
  <2>3. Rows' = Rows + 1
    BY <1>1, <2>2, FS_CardinalityType DEF Rows, TablesAreFinite
  <2> QED
    BY <2>1, <2>3
<1> QED
  BY <1>2, <1>3

\* What the run has counted is what it has added.
LEMMA CountStep ==
    ASSUME IInv, CountOK, [Next]_vars
    PROVE  CountOK'
<1> DEFINE Counted == before + imported + stored = Rows
<1>0. /\ TypeOK /\ TablesAreFinite /\ stored \in Nat /\ imported \in Nat /\ before \in Nat
      /\ Rows \in Nat
  BY RowsType DEF IInv, TypeOK
<1>1. CASE UNCHANGED <<statements, values, stored, imported, before, phase>>
  BY <1>1 DEF CountOK, Rows
<1>2. CASE AddStatement \/ JoinDay
  <2>1. PICK n \in {0, 1} : Rows' = Rows + n /\ stored' = stored + n
    BY <1>0, <1>2, StatementCounts, ValueCounts
  <2>2. /\ UNCHANGED <<imported, before, phase>>
        /\ phase \in {"statements", "joining"}
    BY <1>2 DEF AddStatement, JoinDay
  <2>3. before + imported + stored = Rows
    BY <2>2 DEF CountOK
  <2>4. before' + imported' + stored' = Rows'
    BY <1>0, <2>1, <2>2, <2>3
  <2> QED
    BY <2>2, <2>4 DEF CountOK
<1>3. CASE SkipJoin \/ FinishJoin
  <2>1. /\ UNCHANGED <<statements, values, before>>
        /\ imported' = imported + stored /\ stored' = 0
        /\ phase \in {"statements", "joining"}
    BY <1>3 DEF SkipJoin, FinishJoin, NextSymbol, tables
  <2>2. before + imported + stored = Rows /\ Rows' = Rows
    BY <2>1 DEF CountOK, Rows
  <2>3. before' + imported' + stored' = Rows'
    BY <1>0, <2>1, <2>2
  <2> QED
    BY <2>1, <2>3 DEF CountOK
<1>4. ASSUME NEW symbols \in Selection, NEW day \in Date, Start(symbols, day)
      PROVE  CountOK'
  <2>1. /\ UNCHANGED <<statements, values, stored>> /\ imported' = 0 /\ before' = Rows
        /\ phase \in Ended /\ phase' \notin {"statements", "joining"}
    BY <1>4 DEF Start, tables
  <2>2. stored' = 0 /\ Rows' = Rows
    BY <2>1 DEF CountOK, Rows, Ended
  <2>3. before' + imported' + stored' = Rows'
    BY <1>0, <2>1, <2>2
  <2> QED
    BY <2>1, <2>2, <2>3 DEF CountOK
<1>5. CASE FetchSucceeds \/ FetchFails \/ ListBars
  <2>1. UNCHANGED <<statements, values, stored, imported, before>>
    BY <1>5 DEF FetchSucceeds, FetchFails, ListBars, tables
  <2>2. /\ phase \in {"fetching", "statements"}
        /\ phase = "fetching" => stored = 0
        /\ phase' \in {"fetching", "success"} => phase = "fetching"
    BY <1>5 DEF CountOK, FetchSucceeds, FetchFails, ListBars, NextBatch
  <2>3. phase' \in {"fetching", "success", "statements", "joining"}
    BY <1>5 DEF FetchSucceeds, FetchFails, ListBars, NextBatch
  <2> QED
    BY <2>1, <2>2, <2>3 DEF CountOK, Rows
<1>6. CASE StoreRaises \/ Kill
  <2>1. stored' = 0 /\ phase' \in {"raised", "killed"}
    BY <1>6 DEF StoreRaises, Kill, Abandon
  <2> QED
    BY <2>1 DEF CountOK
<1>7. CASE AdvanceShares \/ AdvanceBar \/ UNCHANGED vars
           \/ \E s \in Symbol, d \in Date : AddBar(s, d)
  BY <1>1, <1>7 DEF AdvanceShares, AdvanceBar, AddBar, vars, tables
<1> QED
  BY <1>2, <1>3, <1>4, <1>5, <1>6, <1>7 DEF Next, Step

-----------------------------------------------------------------------------
(* What is stored of a symbol. *)

\* Statements are only added.
LEMMA StatementsStay == [Next]_vars => statements \subseteq statements' /\ values \subseteq values'
<1> SUFFICES ASSUME [Next]_vars
             PROVE  statements \subseteq statements' /\ values \subseteq values'
  OBVIOUS
<1>1. CASE AddStatement
  BY <1>1 DEF AddStatement
<1>2. CASE JoinDay
  BY <1>2, JoinDayEffect
<1>3. CASE \/ \E symbols \in Selection, day \in Date : Start(symbols, day)
           \/ FetchSucceeds \/ FetchFails \/ SkipJoin \/ ListBars
           \/ AdvanceShares \/ AdvanceBar \/ FinishJoin
  BY <1>3 DEF tables, Start, FetchSucceeds, FetchFails, SkipJoin, ListBars,
              AdvanceShares, AdvanceBar, FinishJoin
<1>4. CASE StoreRaises \/ Kill \/ \E s \in Symbol, d \in Date : AddBar(s, d)
  BY <1>4 DEF tables, StoreRaises, Kill, Abandon, AddBar
<1> QED
  BY <1>1, <1>2, <1>3, <1>4 DEF Next, Step, vars, tables

\* A symbol that has its statements keeps them.
LEMMA WholeStays ==
    ASSUME [Next]_vars, NEW s, Whole(s)
    PROVE  Whole(s)'
BY StatementsStay DEF Whole

\* What leaving a symbol does.
LEMMA NextSymbolEffect ==
    ASSUME IInv, SkipJoin \/ FinishJoin
    PROVE  /\ phase \in {"statements", "joining"}
           /\ batch \in Seq(Symbol) /\ batch # <<>> /\ todo \in Seq(Seq(Symbol)) /\ todo # <<>>
           /\ batch' = Tail(batch) /\ UNCHANGED <<selected, failed>>
           /\ \/ /\ Len(batch) > 1 /\ phase' = "statements" /\ todo' = todo
                 /\ rows' = Statements[batch[2]]
              \/ /\ Len(batch) = 1 /\ todo' = Tail(todo) /\ phase' \in {"fetching", "success"}
                 /\ phase' = "success" => Len(todo) = 1
<1>1. /\ phase \in {"statements", "joining"} /\ NextSymbol /\ UNCHANGED <<selected, failed>>
      /\ TypeOK /\ AtWork
  BY DEF IInv, SkipJoin, FinishJoin
<1>2. batch \in Seq(Symbol) /\ batch # <<>> /\ todo \in Seq(Seq(Symbol)) /\ todo # <<>>
  BY <1>1 DEF TypeOK, AtWork, Ended
<1>3. Len(batch) > 1 \/ Len(batch) = 1
  <2>1. Len(batch) \in Nat /\ Len(batch) # 0
    BY <1>2
  <2> QED
    BY <2>1
<1> QED
  BY <1>1, <1>2, <1>3 DEF NextSymbol, NextBatch

LEMMA CoveredStart ==
    ASSUME IInv, NEW symbols \in Selection, NEW day \in Date, Start(symbols, day)
    PROVE  CoveredOK'
<1>1. symbols \in Seq(Symbol) /\ BatchSize \in Nat \ {0}
  BY FundamentalsAssumption
<1>2. selected' = symbols /\ todo' = Batches(symbols, BatchSize)
      /\ phase' = (IF symbols = <<>> THEN "success" ELSE "fetching")
  BY DEF Start
<1>3. ASSUME NEW s \in Range(symbols)
      PROVE  phase' = "fetching" /\ InSome(todo', s)
  <2>1. PICK i \in DOMAIN symbols : s = symbols[i]
    BY <1>3 DEF Range
  <2>2. symbols # <<>>
    BY <1>1, <2>1
  <2>3. PICK j \in DOMAIN todo' : \E k \in DOMAIN todo'[j] : todo'[j][k] = s
    BY <1>1, <1>2, <2>1, BatchesCover
  <2>4. todo'[j] \in Range(todo') /\ s \in Range(todo'[j])
    BY <2>3 DEF Range
  <2> QED
    BY <1>2, <2>2, <2>4 DEF InSome
<1> QED
  BY <1>2, <1>3 DEF CoveredOK, Awaits

LEMMA CoveredStep ==
    ASSUME IInv, CoveredOK, RowsOK, [Next]_vars
    PROVE  CoveredOK'
<1>0. \A s : Whole(s) => Whole(s)'
  BY WholeStays
<1>1. CASE UNCHANGED <<phase, selected, todo, batch, failed>>
  <2>1. \A s : Awaits(s)' <=> Awaits(s)
    BY <1>1 DEF Awaits
  <2> QED
    BY <1>0, <1>1, <2>1 DEF CoveredOK
<1>2. CASE FetchSucceeds
  <2>1. /\ phase = "fetching" /\ phase' = "statements" /\ batch' = todo[1]
        /\ UNCHANGED <<selected, todo, failed>>
        /\ todo \in Seq(Seq(Symbol)) /\ todo # <<>>
    BY <1>2 DEF FetchSucceeds, IInv, TypeOK, AtWork, Ended
  <2>2. \A s : InSome(todo, s) => s \in Range(todo[1]) \/ InSome(Tail(todo), s)
    BY <2>1, TailInSome
  <2>3. \A s : Awaits(s) => Awaits(s)'
    BY <2>1, <2>2 DEF Awaits
  <2> QED
    BY <1>0, <2>1, <2>3 DEF CoveredOK
<1>3. CASE FetchFails
  <2>1. /\ phase = "fetching" /\ UNCHANGED selected
        /\ todo \in Seq(Seq(Symbol)) /\ todo # <<>> /\ failed \in Seq(Seq(Symbol))
    BY <1>3 DEF FetchFails, IInv, TypeOK, AtWork, Ended
  <2>2. CASE UNCHANGED <<phase, todo, failed>>
    BY <1>1, <1>3, <2>2 DEF FetchFails
  <2>3. CASE failed' = Append(failed, todo[1]) /\ NextBatch
    <3>1. todo[1] \in Seq(Symbol)
      BY <2>1
    <3>2. \A s : /\ InSome(failed', s) <=> InSome(failed, s) \/ s \in Range(todo[1])
                 /\ InSome(todo, s) <=> s \in Range(todo[1]) \/ InSome(todo', s)
                 /\ Len(todo) = 1 => ~InSome(todo', s)
      BY <2>1, <2>3, <3>1, AppendInSome, TailInSome DEF NextBatch
    <3>3. phase' = (IF Len(todo) = 1 THEN "success" ELSE "fetching")
      BY <2>3 DEF NextBatch
    <3>4. \A s : Awaits(s) => Awaits(s)' \/ InSome(failed', s)
      BY <2>1, <3>2, <3>3 DEF Awaits
    <3> QED
      BY <1>0, <2>1, <3>2, <3>4 DEF CoveredOK
  <2> QED
    BY <1>3, <2>2, <2>3 DEF FetchFails
<1>4. CASE SkipJoin \/ FinishJoin
  <2>1. Whole(Current)
    BY <1>4 DEF SkipJoin, FinishJoin, RowsOK, Whole, Range
  <2>2. /\ \A s : s \in Range(batch) <=> s = Current \/ s \in Range(batch')
        /\ Len(batch) = 1 => Range(batch') = {}
    BY <1>4, NextSymbolEffect, TailRange DEF Current
  <2>3. \A s : Len(todo) = 1 => ~InSome(Tail(todo), s)
    BY <1>4, NextSymbolEffect, TailInSome
  <2>4. ASSUME NEW s, Awaits(s), s # Current
        PROVE  Awaits(s)'
    <3>1. s \in Range(batch') \/ InSome(Tail(todo), s)
      BY <1>4, <2>2, <2>4, NextSymbolEffect DEF Awaits
    <3>2. CASE Len(batch) > 1 /\ phase' = "statements" /\ todo' = todo
      BY <3>1, <3>2 DEF Awaits
    <3>3. CASE /\ Len(batch) = 1 /\ todo' = Tail(todo) /\ phase' \in {"fetching", "success"}
               /\ phase' = "success" => Len(todo) = 1
      BY <2>2, <2>3, <3>1, <3>3 DEF Awaits
    <3> QED
      BY <1>4, <3>2, <3>3, NextSymbolEffect
  <2>5. UNCHANGED <<selected, failed>> /\ phase \in {"statements", "joining"}
    BY <1>4, NextSymbolEffect
  <2> QED
    BY <1>0, <2>1, <2>4, <2>5 DEF CoveredOK
<1>5. CASE ListBars
  <2>1. phase = "statements" /\ phase' = "joining" /\ UNCHANGED <<selected, todo, batch, failed>>
    BY <1>5 DEF ListBars, batching
  <2>2. \A s : Awaits(s)' <=> Awaits(s)
    BY <2>1 DEF Awaits
  <2> QED
    BY <1>0, <2>1, <2>2 DEF CoveredOK
<1>6. CASE StoreRaises \/ Kill
  BY <1>6, EndTypes DEF CoveredOK
<1>7. CASE AddStatement \/ AdvanceShares \/ AdvanceBar \/ JoinDay \/ UNCHANGED vars
           \/ \E s \in Symbol, d \in Date : AddBar(s, d)
  BY <1>1, <1>7 DEF AddStatement, AdvanceShares, AdvanceBar, JoinDay, AddBar, vars, batching
<1> QED
  BY <1>2, <1>3, <1>4, <1>5, <1>6, <1>7, CoveredStart DEF Next, Step

LEMMA RowsStep ==
    ASSUME IInv, RowsOK, [Next]_vars
    PROVE  RowsOK'
<1>1. CASE UNCHANGED <<phase, batch, rows>>
  <2>1. Current' = Current
    BY <1>1 DEF Current
  <2> QED
    BY <1>1, <2>1, StatementsStay DEF RowsOK, Whole
<1>2. CASE FetchSucceeds
  <2>1. phase' = "statements" /\ Current' = todo[1][1] /\ rows' = Statements[Current']
    BY <1>2 DEF FetchSucceeds, Current
  <2> QED
    BY <2>1 DEF RowsOK, Range
<1>3. CASE AddStatement
  <2>1. /\ phase = "statements" /\ UNCHANGED <<phase, batch>> /\ Current' = Current
        /\ rows \in Seq(Statement) /\ rows # <<>> /\ rows' = Tail(rows)
        /\ statements' = statements \cup {<<Current, Head(rows)>>}
    BY <1>3 DEF AddStatement, batching, Current, IInv, TypeOK
  <2>2. Head(rows) = rows[1] /\ \A x : x \in Range(rows) <=> x = rows[1] \/ x \in Range(rows')
    BY <2>1, TailRange
  <2> QED
    BY <2>1, <2>2 DEF RowsOK
<1>4. CASE SkipJoin \/ FinishJoin
  <2>1. CASE Len(batch) > 1 /\ phase' = "statements" /\ rows' = Statements[batch[2]]
    <3>1. Current' = batch[2]
      <4>1. batch \in Seq(Symbol) /\ batch' = Tail(batch)
        BY <1>4, NextSymbolEffect
      <4> QED
        BY <2>1, <4>1 DEF Current
    <3> QED
      BY <2>1, <3>1 DEF RowsOK, Range
  <2>2. CASE phase' \in {"fetching", "success"}
    BY <2>2 DEF RowsOK
  <2> QED
    BY <1>4, <2>1, <2>2, NextSymbolEffect
<1>5. CASE ListBars
  <2>1. phase = "statements" /\ phase' = "joining" /\ rows = <<>> /\ rows' = <<>>
        /\ Current' = Current /\ statements' = statements
    BY <1>5 DEF ListBars, batching, tables, Current
  <2>2. Range(rows) = {}
    BY <2>1 DEF Range
  <2> QED
    BY <2>1, <2>2 DEF RowsOK, Whole
<1>6. CASE StoreRaises \/ Kill
  BY <1>6, EndTypes DEF RowsOK
<1>7. CASE (\E symbols \in Selection, day \in Date : Start(symbols, day)) \/ FetchFails
  <2>1. phase' \notin {"statements", "joining"}
    BY <1>7 DEF Start, FetchFails, NextBatch
  <2> QED
    BY <2>1 DEF RowsOK
<1>8. CASE AdvanceShares \/ AdvanceBar \/ JoinDay \/ UNCHANGED vars
           \/ \E s \in Symbol, d \in Date : AddBar(s, d)
  BY <1>1, <1>8 DEF AdvanceShares, AdvanceBar, JoinDay, AddBar, vars, batching
<1> QED
  BY <1>2, <1>3, <1>4, <1>5, <1>6, <1>7, <1>8 DEF Next, Step

-----------------------------------------------------------------------------
(* The days that are due. *)

LEMMA BarStep ==
    ASSUME IInv, BarIsBehind, [Next]_vars
    PROVE  BarIsBehind'
<1>1. CASE UNCHANGED <<phase, bar, listed>> /\ left' \subseteq left
  BY <1>1 DEF BarIsBehind
<1>2. CASE ListBars
  BY <1>2 DEF ListBars, BarIsBehind, Earliest
<1>3. CASE AdvanceBar
  <2>1. PICK day \in left, b \in Later : Earliest(day, left) /\ b <= day /\ bar' = b
    BY <1>3 DEF AdvanceBar
  <2>2. left \subseteq Int /\ b \in Int /\ UNCHANGED left
    BY <1>3, <2>1, FundamentalsAssumption DEF AdvanceBar, IInv, TypeOK, Later
  <2>3. \A d \in left : b <= d
    BY <2>1, <2>2 DEF Earliest
  <2> QED
    BY <2>1, <2>2, <2>3 DEF BarIsBehind
<1>4. CASE JoinDay
  BY <1>1, <1>4, JoinDayEffect
<1>5. CASE StoreRaises \/ Kill
  BY <1>5, EndTypes DEF BarIsBehind
<1>6. CASE \/ \E symbols \in Selection, day \in Date : Start(symbols, day)
           \/ FetchSucceeds \/ FetchFails \/ AddStatement
  <2>1. phase' # "joining"
    BY <1>6 DEF Start, FetchSucceeds, FetchFails, AddStatement, NextBatch
  <2> QED
    BY <2>1 DEF BarIsBehind
<1>7. CASE SkipJoin \/ FinishJoin
  BY <1>7, LeaveTypes DEF BarIsBehind
<1>8. CASE AdvanceShares \/ UNCHANGED vars \/ \E s \in Symbol, d \in Date : AddBar(s, d)
  BY <1>1, <1>8 DEF AdvanceShares, AddBar, vars, cursor
<1> QED
  BY <1>2, <1>3, <1>4, <1>5, <1>6, <1>7, <1>8 DEF Next, Step

\* A day that can be joined gets a value when the join comes to it.
LEMMA JoinDayStores ==
    ASSUME IInv, BarIsBehind, JoinDay, NEW day \in left,
           <<Current, day>> \in Joinable(Current, left, listed)
    PROVE  day \in left' \/ \E v \in values' : v.symbol = Current /\ v.date = day
<1> SUFFICES ASSUME day \notin left'
             PROVE  \E v \in values' : v.symbol = Current /\ v.date = day
  OBVIOUS
<1>1. /\ UpTo(Unread, day) = {} /\ UpTo(Later, day) = {}
      /\ IF \/ shares = None
            \/ bar > day
            \/ \E v \in values : v.symbol = Current /\ v.date = day
         THEN UNCHANGED values
         ELSE values' = values \cup
                  {[symbol |-> Current, date |-> day, bar |-> bar, shares |-> shares]}
  BY DEF JoinDay
<1>2. UpTo(Shares[Current], day) # {} /\ UpTo(listed, day) # {}
  BY DEF Joinable
<1>3. shares # None
  BY <1>1, <1>2 DEF Unread
<1>4. ~(bar > day)
  <2>1. PICK b \in listed : b <= day
    BY <1>2 DEF UpTo
  <2>2. /\ listed \subseteq Int /\ day \in Int /\ bar \in Int
    BY FundamentalsAssumption, JoinDayEffect DEF IInv, TypeOK, SharesAreBehind
  <2>3. (\A e \in listed : bar <= e) \/ bar <= day
    BY JoinDayEffect DEF BarIsBehind
  <2> QED
    BY <2>1, <2>2, <2>3
<1>5. CASE \E v \in values : v.symbol = Current /\ v.date = day
  BY <1>1, <1>5
<1>6. CASE ~\E v \in values : v.symbol = Current /\ v.date = day
  <2> DEFINE v == [symbol |-> Current, date |-> day, bar |-> bar, shares |-> shares]
  <2>1. v \in values' /\ v.symbol = Current /\ v.date = day
    BY <1>1, <1>3, <1>4, <1>6
  <2> QED
    BY <2>1
<1> QED
  BY <1>5, <1>6

LEMMA DueStep ==
    ASSUME IInv, BarIsBehind, DueOK, [Next]_vars
    PROVE  DueOK'
<1>0. values \subseteq values'
  BY StatementsStay
<1>1. CASE UNCHANGED <<phase, batch, left, listed, due>>
  <2>1. \A s, L, D : Joinable(s, L, D)' = Joinable(s, L, D)
    BY DEF Joinable
  <2>2. Current' = Current
    BY <1>1 DEF Current
  <2> QED
    BY <1>0, <1>1, <2>2 DEF DueOK, Joinable
<1>2. CASE due' = {}
  BY <1>2 DEF DueOK
<1>3. CASE phase # "joining" /\ UNCHANGED due
  BY <1>0, <1>3 DEF DueOK
<1>4. CASE FinishJoin
  <2>1. left = {} /\ UNCHANGED due
    BY <1>4 DEF FinishJoin
  <2>2. Joinable(Current, left, listed) = {}
    BY <2>1 DEF Joinable
  <2> QED
    BY <1>0, <2>1, <2>2 DEF DueOK
<1>5. CASE ListBars
  <2>1. /\ phase = "statements" /\ phase' = "joining" /\ batch' = batch
        /\ due' = due \cup Joinable(Current, left', listed')
    BY <1>5 DEF ListBars, batching
  <2>2. Current' = Current
    BY <2>1 DEF Current
  <2> QED
    BY <1>0, <2>1, <2>2 DEF DueOK
<1>6. CASE JoinDay
  <2>1. UNCHANGED <<phase, batch, listed, due>> /\ Current' = Current
    BY <1>6, JoinDayEffect DEF Current
  <2> SUFFICES ASSUME NEW p \in due, ~\E v \in values' : p = <<v.symbol, v.date>>
               PROVE  phase = "joining" /\ p \in Joinable(Current, left', listed)
    BY <2>1 DEF DueOK
  <2>2. phase = "joining" /\ p \in Joinable(Current, left, listed)
    BY <1>0 DEF DueOK
  <2>3. PICK day \in left : p = <<Current, day>>
    BY <2>2 DEF Joinable
  <2>4. day \in left'
    BY <1>6, <2>2, <2>3, JoinDayStores
  <2> QED
    BY <2>2, <2>3, <2>4 DEF Joinable
<1>7. CASE (\E symbols \in Selection, day \in Date : Start(symbols, day)) \/ StoreRaises \/ Kill
  BY <1>2, <1>7 DEF Start, StoreRaises, Kill, Abandon
<1>8. CASE FetchSucceeds \/ FetchFails \/ AddStatement \/ SkipJoin
  BY <1>3, <1>8 DEF FetchSucceeds, FetchFails, AddStatement, SkipJoin
<1>9. CASE AdvanceShares \/ AdvanceBar \/ UNCHANGED vars
           \/ \E s \in Symbol, d \in Date : AddBar(s, d)
  BY <1>1, <1>9 DEF AdvanceShares, AdvanceBar, AddBar, vars, cursor, batching
<1> QED
  BY <1>4, <1>5, <1>6, <1>7, <1>8, <1>9 DEF Next, Step

-----------------------------------------------------------------------------
(* Where the rows come from. *)

LEMMA RowsAreFiledStep ==
    ASSUME IInv, RowsAreFiled, [Next]_vars
    PROVE  RowsAreFiled'
<1>1. CASE UNCHANGED <<statements, phase, batch, rows>>
  BY <1>1 DEF RowsAreFiled, Current
<1>2. CASE FetchSucceeds
  <2>1. statements' = statements /\ Current' = todo[1][1] /\ rows' = Statements[Current']
    BY <1>2 DEF FetchSucceeds, Current, tables
  <2> QED
    BY <2>1 DEF RowsAreFiled
<1>3. CASE AddStatement
  <2>1. /\ phase = "statements" /\ UNCHANGED <<phase, batch>> /\ Current' = Current
        /\ rows \in Seq(Statement) /\ rows # <<>> /\ rows' = Tail(rows)
        /\ statements' = statements \cup {<<Current, Head(rows)>>}
    BY <1>3 DEF AddStatement, batching, Current, IInv, TypeOK
  <2>2. Head(rows) = rows[1] /\ \A x : x \in Range(rows) <=> x = rows[1] \/ x \in Range(rows')
    BY <2>1, TailRange
  <2>3. \A q : ToSet(q) = Range(q)
    BY DEF ToSet, Range
  <2> QED
    BY <2>1, <2>2, <2>3 DEF RowsAreFiled
<1>4. CASE SkipJoin \/ FinishJoin
  <2>1. statements' = statements
    BY <1>4 DEF SkipJoin, FinishJoin, tables
  <2>2. CASE Len(batch) > 1 /\ phase' = "statements" /\ rows' = Statements[batch[2]]
    <3>1. Current' = batch[2]
      <4>1. batch \in Seq(Symbol) /\ batch' = Tail(batch)
        BY <1>4, NextSymbolEffect
      <4> QED
        BY <2>2, <4>1 DEF Current
    <3> QED
      BY <2>1, <2>2, <3>1 DEF RowsAreFiled
  <2>3. CASE phase' \in {"fetching", "success"}
    BY <2>1, <2>3 DEF RowsAreFiled
  <2> QED
    BY <1>4, <2>2, <2>3, NextSymbolEffect
<1>5. CASE ListBars
  BY <1>5 DEF ListBars, tables, RowsAreFiled
<1>6. CASE StoreRaises \/ Kill
  BY <1>6 DEF StoreRaises, Kill, Abandon, tables, RowsAreFiled
<1>7. CASE (\E symbols \in Selection, day \in Date : Start(symbols, day)) \/ FetchFails
  <2>1. phase' \notin {"statements", "joining"} /\ statements' = statements
    BY <1>7 DEF Start, FetchFails, NextBatch, tables
  <2> QED
    BY <2>1 DEF RowsAreFiled
<1>8. CASE AdvanceShares \/ AdvanceBar \/ JoinDay \/ UNCHANGED vars
           \/ \E s \in Symbol, d \in Date : AddBar(s, d)
  BY <1>1, <1>8 DEF AdvanceShares, AdvanceBar, JoinDay, AddBar, vars, batching, tables
<1> QED
  BY <1>2, <1>3, <1>4, <1>5, <1>6, <1>7, <1>8 DEF Next, Step

LEMMA DaysHaveCapsStep ==
    ASSUME IInv, DaysHaveCaps, [Next]_vars
    PROVE  DaysHaveCaps'
<1>1. CASE UNCHANGED <<values, phase, batch, left>>
  BY <1>1 DEF DaysHaveCaps, Current
<1>2. CASE ListBars
  <2>1. values' = values /\ Current' = Current /\ left' \subseteq Caps[Current]
    BY <1>2 DEF ListBars, tables, batching, Current, UpTo
  <2> QED
    BY <2>1 DEF DaysHaveCaps
<1>3. CASE JoinDay
  <2>1. PICK day \in left :
            \/ values' = values
            \/ values' = values \cup
                   {[symbol |-> Current, date |-> day, bar |-> bar, shares |-> shares]}
    BY <1>3 DEF JoinDay
  <2>2. /\ phase = "joining" /\ UNCHANGED <<phase, batch>> /\ left' \subseteq left
        /\ Current' = Current
    BY <1>3, JoinDayEffect DEF Current
  <2> QED
    BY <2>1, <2>2 DEF DaysHaveCaps
<1>4. CASE SkipJoin \/ FinishJoin
  <2>1. values' = values
    BY <1>4 DEF SkipJoin, FinishJoin, tables
  <2> QED
    BY <1>4, <2>1, LeaveTypes DEF DaysHaveCaps
<1>5. CASE StoreRaises \/ Kill
  BY <1>5 DEF StoreRaises, Kill, Abandon, tables, LeaveJoin, DaysHaveCaps
<1>6. CASE (\E symbols \in Selection, day \in Date : Start(symbols, day))
           \/ FetchSucceeds \/ FetchFails \/ AddStatement
  <2>1. phase' # "joining" /\ values' = values
    BY <1>6 DEF Start, FetchSucceeds, FetchFails, AddStatement, NextBatch, tables
  <2> QED
    BY <2>1 DEF DaysHaveCaps
<1>7. CASE AdvanceShares \/ AdvanceBar \/ UNCHANGED vars
           \/ \E s \in Symbol, d \in Date : AddBar(s, d)
  BY <1>1, <1>7 DEF AdvanceShares, AdvanceBar, AddBar, vars, cursor, batching, tables
<1> QED
  BY <1>2, <1>3, <1>4, <1>5, <1>6, <1>7 DEF Next, Step

-----------------------------------------------------------------------------
(* Sorting: what the prover needs of ByDate. *)

\* Induction over finite sets: among some of them one has no other in it.
LEMMA SmallestSet ==
    ASSUME NEW S, IsFiniteSet(S), NEW T, T \subseteq SUBSET S, T # {}
    PROVE  \E U \in T : \A V \in T : V \subseteq U => V = U
<1>1. IsWellFoundedOn(StrictSubsetOrdering(S), FiniteSubsetsOf(S))
  BY FS_StrictSubsetOrderingWellFounded
<1>2. T \subseteq FiniteSubsetsOf(S)
  BY FS_Subset DEF FiniteSubsetsOf
<1>3. PICK U \in T : \A V \in T : ~(<<V, U>> \in StrictSubsetOrdering(S))
  BY <1>1, <1>2, WFMin
<1> QED
  BY <1>3 DEF StrictSubsetOrdering

\* One of finitely many numbers is the greatest.
LEMMA GreatestOf ==
    ASSUME NEW S, IsFiniteSet(S), S # {}, NEW key \in [S -> Int]
    PROVE  \E m \in S : \A i \in S : key[i] <= key[m]
<1> DEFINE T == {U \in SUBSET S : U # {} /\ ~ \E m \in U : \A i \in U : key[i] <= key[m]}
<1> SUFFICES ASSUME T # {} PROVE FALSE
  OBVIOUS
<1>1. PICK U \in T : \A V \in T : V \subseteq U => V = U
  <2> HIDE DEF T
  <2>1. T \subseteq SUBSET S
    BY DEF T
  <2> QED  BY <2>1, SmallestSet
<1>2. PICK x : x \in U
  BY <1>1
<1>3. U \ {x} \notin T
  BY <1>1, <1>2
<1>4. CASE U \ {x} = {}
  BY <1>1, <1>2, <1>4
<1>5. CASE U \ {x} # {}
  <2>1. PICK m \in U \ {x} : \A i \in U \ {x} : key[i] <= key[m]
    BY <1>3, <1>5
  <2>2. \A i \in U : key[i] \in Int
    OBVIOUS
  <2>3. CASE key[x] <= key[m]
    BY <2>1, <2>3
  <2>4. CASE ~(key[x] <= key[m])
    <3>1. \A i \in U : key[i] <= key[x]
      BY <1>2, <2>1, <2>2, <2>4
    <3> QED  BY <1>2, <3>1
  <2> QED  BY <2>3, <2>4
<1> QED  BY <1>4, <1>5

Sorted(order, key) == \A i, j \in DOMAIN order : i < j => key[order[i]] <= key[order[j]]

\* Finitely many things can be put in order.
LEMMA OrderExists ==
    ASSUME NEW S, IsFiniteSet(S), NEW key \in [S -> Int]
    PROVE  \E order \in Bijection(1..Cardinality(S), S) : Sorted(order, key)
<1> DEFINE T == {U \in SUBSET S : ~ \E order \in Bijection(1..Cardinality(U), U) : Sorted(order, key)}
<1> SUFFICES ASSUME T # {} PROVE FALSE
  OBVIOUS
<1>1. PICK U \in T : \A V \in T : V \subseteq U => V = U
  <2> HIDE DEF T
  <2>1. T \subseteq SUBSET S
    BY DEF T
  <2> QED  BY <2>1, SmallestSet
<1>2. IsFiniteSet(U) /\ Cardinality(U) \in Nat
  BY FS_Subset, FS_CardinalityType
<1>3. CASE U = {}
  <2>1. 1..Cardinality(U) = {}
    BY <1>3, FS_EmptySet
  <2>2. PICK order : order = [i \in {} |-> 0]
    OBVIOUS
  <2>3. order \in Bijection({}, {})
    BY <2>2 DEF Bijection, Injection, Surjection, IsInjective
  <2>4. Sorted(order, key)
    BY <2>2 DEF Sorted
  <2> QED  BY <1>3, <2>1, <2>3, <2>4
<1>4. CASE U # {}
  <2>1. PICK m \in U : \A i \in U : key[i] <= key[m]
    <3>1. [i \in U |-> key[i]] \in [U -> Int]
      OBVIOUS
    <3>2. \E m \in U : \A i \in U : [j \in U |-> key[j]][i] <= [j \in U |-> key[j]][m]
      BY <1>2, <1>4, <3>1, GreatestOf
    <3> QED  BY <3>2
  <2>2. PICK V : V = U \ {m}
    OBVIOUS
  <2>3. PICK n \in Nat : Cardinality(U) = n + 1 /\ Cardinality(V) = n
    <3>1. IsFiniteSet(V) /\ Cardinality(V) \in Nat
      BY <1>2, <2>2, FS_Subset, FS_CardinalityType
    <3>2. Cardinality(V) = Cardinality(U) - 1
      BY <1>2, <2>2, FS_RemoveElement
    <3> QED  BY <1>2, <3>1, <3>2
  <2>4. PICK p \in Bijection(1..n, V) : Sorted(p, key)
    BY <1>1, <2>1, <2>2, <2>3
  <2> DEFINE order == [i \in 1..(n + 1) |-> IF i = n + 1 THEN m ELSE p[i]]
  <2>5. /\ p \in [1..n -> V] /\ DOMAIN p = 1..n
        /\ \A i, j \in 1..n : p[i] = p[j] => i = j
        /\ \A v \in V : \E i \in 1..n : p[i] = v
    BY <2>4 DEF Bijection, Injection, Surjection, IsInjective
  <2>6. \A i \in 1..(n + 1) : \/ i = n + 1 /\ order[i] = m
                              \/ i \in 1..n /\ order[i] = p[i] /\ p[i] \in V
    BY <2>5
  <2>7. DOMAIN order = 1..(n + 1)
    OBVIOUS
  <2>8. order = [i \in 1..(n + 1) |-> order[i]]
    OBVIOUS
  <2> HIDE DEF order
  <2>9. order \in [1..(n + 1) -> U]
    <3>1. \A i \in 1..(n + 1) : order[i] \in U
      BY <2>1, <2>2, <2>6
    <3> QED  BY <2>8, <3>1, Zenon
  <2>10. \A i, j \in 1..(n + 1) : order[i] = order[j] => i = j
    BY <2>2, <2>5, <2>6
  <2>11. ASSUME NEW u \in U PROVE \E i \in 1..(n + 1) : order[i] = u
    <3>1. CASE u = m
      <4>1. n + 1 \in 1..(n + 1) /\ n + 1 \notin 1..n
        OBVIOUS
      <4> QED  BY <2>6, <3>1, <4>1
    <3>2. CASE u # m
      <4>1. PICK i \in 1..n : p[i] = u
        BY <2>2, <2>5, <3>2
      <4>2. i \in 1..(n + 1) /\ i # n + 1
        OBVIOUS
      <4> QED  BY <2>6, <4>1, <4>2
    <3> QED  BY <3>1, <3>2
  <2>12. order \in Bijection(1..(n + 1), U)
    BY <2>7, <2>9, <2>10, <2>11 DEF Bijection, Injection, Surjection, IsInjective
  <2>13. ASSUME NEW i \in 1..(n + 1), NEW j \in 1..(n + 1), i < j
         PROVE  key[order[i]] <= key[order[j]]
    <3>1. i \in 1..n
      BY <2>13
    <3>2. order[i] = p[i] /\ p[i] \in V
      BY <2>6, <3>1
    <3>3. CASE j = n + 1
      BY <2>1, <2>2, <2>6, <3>2, <3>3
    <3>4. CASE j # n + 1
      BY <2>4, <2>5, <2>6, <2>13, <3>1, <3>2, <3>4 DEF Sorted
    <3> QED  BY <3>3, <3>4
  <2>14. Sorted(order, key)
    BY <2>7, <2>13 DEF Sorted
  <2> QED  BY <1>1, <2>3, <2>12, <2>14
<1> QED  BY <1>3, <1>4

\* Putting filings in order leaves none out and adds none.
LEMMA ByDateIsAll ==
    ASSUME NEW s \in Symbol, NEW kept, kept \subseteq {i \in DOMAIN Filings[s] : Filings[s][i].date # Null}
    PROVE  /\ ByDate(Filings[s], kept) \in Bijection(1..Cardinality(kept), kept)
           /\ Cardinality(kept) \in Nat
<1>1. PICK fs \in Seq(Filing) : fs = Filings[s]
  BY FeedAssumption
<1>2. IsFiniteSet(kept) /\ Cardinality(kept) \in Nat
  <2>1. DOMAIN fs = 1..Len(fs) /\ Len(fs) \in Nat
    OBVIOUS
  <2>2. IsFiniteSet(1..Len(fs))
    BY <2>1, FS_Interval
  <2> QED  BY <1>1, <2>1, <2>2, FS_Subset, FS_CardinalityType
<1> DEFINE key == [i \in kept |-> fs[i].date]
<1>3. key \in [kept -> Int]
  <2>1. ASSUME NEW i \in kept PROVE fs[i].date \in Int
    <3>1. fs[i] \in Filing /\ fs[i].date # Null
      BY <1>1
    <3> QED  BY <3>1, FundamentalsAssumption DEF Filing
  <2> QED  BY <2>1
<1>4. PICK order \in Bijection(1..Cardinality(kept), kept) : Sorted(order, key)
  <2> HIDE DEF key
  <2> QED  BY <1>2, <1>3, OrderExists
<1>5. order \in [1..Cardinality(kept) -> kept] /\ DOMAIN order = 1..Cardinality(kept)
  BY DEF Bijection, Injection
<1>6. \A i, j \in DOMAIN order : i < j => Filings[s][order[i]].date <= Filings[s][order[j]].date
  BY <1>1, <1>4, <1>5 DEF Sorted
<1>7. ByDate(Filings[s], kept) \in Bijection(1..Cardinality(kept), kept)
  BY <1>6, Zenon DEF ByDate
<1> QED  BY <1>2, <1>7

\* The statements of a kind are those of its filings.
LEMMA KindIs ==
    ASSUME NEW s \in Symbol, NEW kind \in Kinds
    PROVE  /\ StatementsOfKind(Filings[s], kind) \in Seq({kind} \X Date)
           /\ \A x : x \in ToSet(StatementsOfKind(Filings[s], kind)) <=>
                 \E i \in Kept(Filings[s], kind) : x = <<kind, Filings[s][i].date>>
<1> DEFINE kept == Kept(Filings[s], kind)
           order == ByDate(Filings[s], kept)
           n == Cardinality(kept)
           q == [i \in DOMAIN order |-> <<kind, Filings[s][order[i]].date>>]
<1>1. order \in Bijection(1..n, kept) /\ n \in Nat
  <2>1. kept \subseteq {i \in DOMAIN Filings[s] : Filings[s][i].date # Null}
    BY DEF Kept
  <2> HIDE DEF kept
  <2> QED  BY <2>1, ByDateIsAll
<1>2. StatementsOfKind(Filings[s], kind) = q
  BY DEF StatementsOfKind
<1>3. ASSUME NEW i \in kept PROVE Filings[s][i].date \in Date
  <2>1. PICK fs \in Seq(Filing) : fs = Filings[s]
    BY FeedAssumption
  <2>2. i \in DOMAIN fs /\ fs[i].date # Null
    BY <2>1 DEF Kept
  <2>3. fs[i] \in Filing
    BY <2>2
  <2> QED  BY <2>1, <2>2, <2>3 DEF Filing
<1> HIDE DEF kept, order
<1>4. /\ DOMAIN order = 1..n /\ \A i \in 1..n : order[i] \in kept
      /\ \A k \in kept : \E i \in 1..n : order[i] = k
  BY <1>1 DEF Bijection, Injection, Surjection
<1>5. q \in Seq({kind} \X Date)
  <2>1. q \in [1..n -> {kind} \X Date]
    BY <1>3, <1>4
  <2> HIDE DEF q
  <2> QED  BY <1>1, <2>1
<1>6. ASSUME NEW x
      PROVE  x \in ToSet(q) <=> \E i \in kept : x = <<kind, Filings[s][i].date>>
  <2>1. x \in ToSet(q) <=> \E i \in 1..n : x = <<kind, Filings[s][order[i]].date>>
    BY <1>4 DEF ToSet
  <2> QED  BY <1>4, <2>1
<1> QED  BY <1>2, <1>5, <1>6 DEF kept

LEMMA JoinedSet ==
    ASSUME NEW S, NEW p \in Seq(S), NEW q \in Seq(S)
    PROVE  p \o q \in Seq(S) /\ \A x : x \in ToSet(p \o q) <=> x \in ToSet(p) \/ x \in ToSet(q)
<1>1. PICK m \in Nat, n \in Nat : m = Len(p) /\ n = Len(q)
  OBVIOUS
<1>2. /\ p \o q \in Seq(S) /\ DOMAIN (p \o q) = 1..(m + n) /\ DOMAIN p = 1..m /\ DOMAIN q = 1..n
      /\ \A i \in 1..(m + n) : (p \o q)[i] = IF i <= m THEN p[i] ELSE q[i - m]
  BY <1>1
<1>3. ASSUME NEW x, x \in ToSet(p \o q) PROVE x \in ToSet(p) \/ x \in ToSet(q)
  <2>1. PICK i \in 1..(m + n) : x = (p \o q)[i]
    BY <1>2, <1>3 DEF ToSet
  <2>2. CASE i <= m
    BY <1>2, <2>1, <2>2 DEF ToSet
  <2>3. CASE ~(i <= m)
    <3>1. i - m \in 1..n
      BY <2>3
    <3> QED  BY <1>2, <2>1, <2>3, <3>1 DEF ToSet
  <2> QED  BY <2>2, <2>3
<1>4. ASSUME NEW i \in 1..m PROVE p[i] \in ToSet(p \o q)
  <2>1. i \in 1..(m + n) /\ i <= m
    OBVIOUS
  <2> QED  BY <1>2, <2>1 DEF ToSet
<1>5. ASSUME NEW i \in 1..n PROVE q[i] \in ToSet(p \o q)
  <2>1. i + m \in 1..(m + n) /\ ~(i + m <= m) /\ (i + m) - m = i
    OBVIOUS
  <2>2. (p \o q)[i + m] = q[i]
    BY <1>2, <2>1
  <2> QED  BY <1>2, <2>1, <2>2 DEF ToSet
<1>6. ASSUME NEW x, x \in ToSet(p) \/ x \in ToSet(q) PROVE x \in ToSet(p \o q)
  BY <1>2, <1>4, <1>5, <1>6 DEF ToSet
<1> QED  BY <1>2, <1>3, <1>6

\* The statements the source makes of a symbol's filings.
LEMMA StatementsAre ==
    ASSUME NEW s \in Symbol, NEW x
    PROVE  x \in ToSet(Statements[s]) <=>
               \E kind \in Kinds : \E i \in Kept(Filings[s], kind) : x = <<kind, Filings[s][i].date>>
<1> DEFINE K(kind) == StatementsOfKind(Filings[s], kind)
<1>1. \A kind \in Kinds : /\ K(kind) \in Seq(Kinds \X Date)
                          /\ \A y : y \in ToSet(K(kind)) <=>
                                \E i \in Kept(Filings[s], kind) : y = <<kind, Filings[s][i].date>>
  <2>1. ASSUME NEW kind \in Kinds, NEW q \in Seq({kind} \X Date) PROVE q \in Seq(Kinds \X Date)
    OBVIOUS
  <2>2. ASSUME NEW kind \in Kinds
        PROVE  /\ K(kind) \in Seq(Kinds \X Date)
               /\ \A y : y \in ToSet(K(kind)) <=>
                     \E i \in Kept(Filings[s], kind) : y = <<kind, Filings[s][i].date>>
    BY <2>1, KindIs
  <2> QED  BY <2>2
<1>2. Statements[s] = (K("income") \o K("balance")) \o K("cashflow")
  BY FeedAssumption DEF StatementsOf
<1>3. Kinds = {"income", "balance", "cashflow"}
  BY DEF Kinds
<1> HIDE DEF K
<1>4. /\ K("income") \in Seq(Kinds \X Date) /\ K("balance") \in Seq(Kinds \X Date)
      /\ K("cashflow") \in Seq(Kinds \X Date)
  BY <1>1, <1>3
<1>5. x \in ToSet(Statements[s]) <=>
          x \in ToSet(K("income")) \/ x \in ToSet(K("balance")) \/ x \in ToSet(K("cashflow"))
  <2>1. /\ K("income") \o K("balance") \in Seq(Kinds \X Date)
        /\ x \in ToSet(K("income") \o K("balance")) <=> x \in ToSet(K("income")) \/ x \in ToSet(K("balance"))
    BY <1>4, JoinedSet
  <2>2. PICK p \in Seq(Kinds \X Date) : p = K("income") \o K("balance")
    BY <2>1
  <2>3. x \in ToSet(p \o K("cashflow")) <=> x \in ToSet(p) \/ x \in ToSet(K("cashflow"))
    BY <1>4, JoinedSet
  <2>4. Statements[s] = p \o K("cashflow")
    BY <1>2, <2>2, Zenon
  <2> QED  BY <2>1, <2>2, <2>3, <2>4, Zenon
<1> QED  BY <1>1, <1>3, <1>5

\* A filing reports a kind if it gives all the codes this requires.
LEMMA ReportsIs ==
    ASSUME NEW f \in Filing, NEW kind \in Kinds
    PROVE  Reports(f, kind) <=> \A code \in Required(kind) : Given(f, kind, code)
<1>1. Required(kind) \subseteq Code /\ Null \notin Code
  BY FeedAssumption
<1>2. \A code \in Code : code \in Codes(f[kind]) <=> Given(f, kind, code)
  BY <1>1 DEF Codes, Given
<1> QED  BY <1>1, <1>2 DEF Reports

-----------------------------------------------------------------------------
(* Theorems. *)

\* The invariant is inductive.
LEMMA Invariance == Spec => []IInv
<1>1. IInv /\ [Next]_vars => IInv'
  BY TypeStep, FiniteStep, BehindStep DEF IInv
<1> QED
  BY <1>1, InitIInv, PTL DEF Spec

LEMMA CompleteInit == Init => CompleteInv
<1>1. Init => IInv
  BY InitIInv
<1>2. Init => CountOK /\ CoveredOK /\ RowsOK /\ BarIsBehind /\ DueOK
  BY DEF Init, CountOK, CoveredOK, RowsOK, BarIsBehind, DueOK
<1> QED
  BY <1>1, <1>2 DEF CompleteInv

LEMMA CompleteStep == CompleteInv /\ [Next]_vars => CompleteInv'
<1>1. IInv /\ [Next]_vars => IInv'
  BY TypeStep, FiniteStep, BehindStep DEF IInv
<1> QED
  BY <1>1, CountStep, CoveredStep, RowsStep, BarStep, DueStep DEF CompleteInv

LEMMA CompleteInvariance == Spec => []CompleteInv
BY CompleteInit, CompleteStep, PTL DEF Spec

\* Every reachable state of an import is well typed (the dataclasses of
\* import_fundamentals.py and the rows of financials.py).
THEOREM ImportTypes == Spec => []TypeOK
<1>1. IInv => TypeOK
  BY DEF IInv
<1> QED
  BY <1>1, Invariance, PTL

\* Whatever a source publishes and whatever bars are stored meanwhile, a value is
\* made of the latest share count and the latest bar read on or before its day
\* (_store_enterprise_value).
THEOREM JoinIsAsOf == Spec => ValuesAreAsOf
<1>1. IInv /\ [Next]_vars => [\A v \in values' \ values : ValueIsAsOf(v)]_vars
  BY AsOfStep
<1> QED
  BY <1>1, Invariance, PTL DEF Spec, ValuesAreAsOf

\* What a run answers with is the number of rows it added, whatever earlier runs left
\* in the tables and whatever bars are stored meanwhile (_store_symbol).
THEOREM RunCountIsExact == Spec => []CountIsExact
<1>1. CompleteInv => CountIsExact
  <2> SUFFICES ASSUME CompleteInv, phase = "success"
               PROVE  imported = Rows - before
    BY DEF CountIsExact
  <2>1. before + imported + stored = Rows /\ stored = 0
    BY DEF CompleteInv, CountOK
  <2>2. before \in Nat /\ imported \in Nat
    BY DEF CompleteInv, IInv, TypeOK
  <2> QED
    BY <2>1, <2>2
<1> QED
  BY <1>1, CompleteInvariance, PTL

LEMMA WholeIs == CompleteInv => SuccessIsComplete
<1> SUFFICES ASSUME CompleteInv, phase = "success"
             PROVE  /\ \A i \in DOMAIN selected :
                           \/ \E j \in DOMAIN failed :
                                  \E k \in DOMAIN failed[j] : failed[j][k] = selected[i]
                           \/ Whole(selected[i])
                    /\ due \subseteq {<<v.symbol, v.date>> : v \in values}
  BY DEF SuccessIsComplete, Whole
<1>1. ASSUME NEW i \in DOMAIN selected
      PROVE  \/ \E j \in DOMAIN failed :
                    \E k \in DOMAIN failed[j] : failed[j][k] = selected[i]
             \/ Whole(selected[i])
  <2>1. selected[i] \in Range(selected)
    BY DEF Range
  <2>2. InSome(failed, selected[i]) \/ Whole(selected[i])
    BY <2>1 DEF CompleteInv, CoveredOK, Awaits
  <2> QED
    BY <2>2 DEF InSome, Range
<1>2. \A p \in due : \E v \in values : p = <<v.symbol, v.date>>
  BY DEF CompleteInv, DueOK
<1> QED
  BY <1>1, <1>2

\* A run that answers with success has stored the statements of every symbol that is
\* not in a batch it names as failed, and a value for every day that could be joined
\* when its bars were read, for any selection and batch size, and after any number of
\* runs that raised or were killed (_import_batches, _store_symbol).
THEOREM SuccessIsWhole == Spec => []SuccessIsComplete
BY WholeIs, CompleteInvariance, PTL

\* A stored statement stands on a filing of its date that gives all its required codes.
LEMMA FiledIs ==
    ASSUME TypeOK, RowsAreFiled, NEW row \in statements
    PROVE  \E f \in ToSet(Filings[row[1]]) :
               f.date = row[2][2] /\ \A code \in Required(row[2][1]) : Given(f, row[2][1], code)
<1>1. row[1] \in Symbol /\ row[2] \in ToSet(Statements[row[1]])
  BY DEF TypeOK, RowsAreFiled
<1>2. PICK kind \in Kinds :
          \E i \in Kept(Filings[row[1]], kind) : row[2] = <<kind, Filings[row[1]][i].date>>
  BY <1>1, StatementsAre
<1>3. PICK i \in Kept(Filings[row[1]], kind) : row[2] = <<kind, Filings[row[1]][i].date>>
  BY <1>2
<1>4. PICK fs \in Seq(Filing) : fs = Filings[row[1]]
  BY <1>1, FeedAssumption
<1>5. i \in DOMAIN fs /\ fs[i] \in Filing /\ Reports(fs[i], kind)
  BY <1>4 DEF Kept
<1>6. \A code \in Required(kind) : Given(fs[i], kind, code)
  BY <1>5, ReportsIs
<1>7. row[2][1] = kind /\ row[2][2] = fs[i].date /\ fs[i] \in ToSet(fs)
  BY <1>3, <1>4, <1>5 DEF ToSet
<1> QED
  BY <1>4, <1>6, <1>7

\* A filing with all the required codes of a kind is among its symbol's statements.
LEMMA FiledIsListed ==
    ASSUME NEW s \in Symbol, NEW kind \in Kinds, NEW f \in ToSet(Filings[s]),
           f.date # Null, \A code \in Required(kind) : Given(f, kind, code)
    PROVE  \E k \in DOMAIN Statements[s] : Statements[s][k] = <<kind, f.date>>
<1>1. PICK fs \in Seq(Filing) : fs = Filings[s]
  BY FeedAssumption
<1>2. PICK i \in DOMAIN fs : f = fs[i]
  BY <1>1 DEF ToSet
<1>3. fs[i] \in Filing
  BY <1>2
<1>4. Reports(fs[i], kind)
  BY <1>2, <1>3, ReportsIs
<1>5. i \in Kept(Filings[s], kind)
  BY <1>1, <1>2, <1>4 DEF Kept
<1>6. <<kind, f.date>> \in ToSet(Statements[s])
  BY <1>1, <1>2, <1>5, StatementsAre
<1> QED
  BY <1>6 DEF ToSet

\* What is stored was filed, and what was filed is stored after a success, whatever
\* sections the filings lack, however often a date is filed, and whatever runs were
\* killed or raised before (build_symbol_fundamentals, _store_symbol).
THEOREM FiledIsStored == Spec => []FilingsAreStored
<1> DEFINE Inv == CompleteInv /\ RowsAreFiled /\ DaysHaveCaps
<1>1. Init => Inv
  BY CompleteInit DEF Init, RowsAreFiled, DaysHaveCaps
<1>2. Inv /\ [Next]_vars => Inv'
  <2>1. CompleteInv => IInv
    BY DEF CompleteInv
  <2> QED
    BY <2>1, CompleteStep, RowsAreFiledStep, DaysHaveCapsStep
<1>3. Inv => FilingsAreStored
  <2> SUFFICES ASSUME Inv PROVE FilingsAreStored
    OBVIOUS
  <2>0. TypeOK
    BY DEF CompleteInv, IInv
  <2>1. SuccessIsComplete
    BY WholeIs
  <2>2. \A row \in statements : \E f \in ToSet(Filings[row[1]]) :
            f.date = row[2][2] /\ \A code \in Required(row[2][1]) : Given(f, row[2][1], code)
    BY <2>0, FiledIs
  <2>3. ASSUME NEW v \in values
        PROVE  \E d \in ToSet(Daily[v.symbol]) : d.date = v.date /\ d.marketCap # Null
    <3>1. v.symbol \in Symbol /\ v.date \in Caps[v.symbol]
      BY <2>0 DEF TypeOK, Value, DaysHaveCaps
    <3> QED
      BY <3>1, FeedAssumption DEF CapsOf
  <2>4. ASSUME phase = "success",
               NEW s \in ToSet(selected) \ UNION {ToSet(b) : b \in ToSet(failed)},
               NEW kind \in Kinds, NEW f \in ToSet(Filings[s]),
               f.date # Null, \A code \in Required(kind) : Given(f, kind, code)
        PROVE  <<s, <<kind, f.date>>>> \in statements
    <3>1. PICK i \in DOMAIN selected : s = selected[i]
      BY DEF ToSet
    <3>2. s \in Symbol
      BY <2>0, <3>1 DEF TypeOK
    <3>3. ~ \E j \in DOMAIN failed : \E k \in DOMAIN failed[j] : failed[j][k] = s
      BY DEF ToSet
    <3>4. \A k \in DOMAIN Statements[s] : <<s, Statements[s][k]>> \in statements
      BY <2>1, <2>4, <3>1, <3>3 DEF SuccessIsComplete
    <3> QED
      BY <2>4, <3>2, <3>4, FiledIsListed
  <2> HIDE DEF Inv
  <2> QED
    BY <2>1, <2>2, <2>3, <2>4 DEF FilingsAreStored
<1> QED
  BY <1>1, <1>2, <1>3, PTL DEF Spec
=============================================================================
